---------------------------- MODULE ParserProofs ----------------------------
(***************************************************************************)
(* Theorems about the walks of the parsers, for every grammar and for      *)
(* trees of any size.                                                      *)
(*                                                                         *)
(* Which extractor comes by a node, if any, is settled by the tree: that   *)
(* is the route of a walk.  The inductive invariant says that the nodes    *)
(* left to visit are in document order with the extractors of the route,   *)
(* and that the record holds exactly the entries of the nodes on the route *)
(* that are neither left to visit nor below one that is.  What the walks   *)
(* report then follows from routes and tables alone.                       *)
(***************************************************************************)
EXTENDS Parser, WellFoundedInduction, SequenceTheorems, TLAPS

------------------------------------------------------------------------------
(* Induction over numbers, on a set instead of a predicate.                  *)

(* What holds of a number whenever it holds of all below holds of all.       *)
LEMMA FromBelow ==
  ASSUME NEW S, \A n \in Nat : (\A m \in 0..n - 1 : m \in S) => n \in S
  PROVE  Nat \subseteq S
<1> DEFINE Out == Nat \ S
<1> SUFFICES ASSUME Out # {} PROVE FALSE
  OBVIOUS
<1>1. IsWellFoundedOn(OpToRel(<, Nat), Nat)
  BY NatLessThanWellFounded
<1>2. Out \subseteq Nat
  OBVIOUS
<1>3. PICK n \in Out : \A m \in Out : ~ (<<m, n>> \in OpToRel(<, Nat))
  <2> HIDE DEF Out
  <2> QED BY <1>1, <1>2, WFMin
<1>4. \A m \in Out : ~ (m < n)
  BY <1>2, <1>3 DEF OpToRel
<1>5. \A m \in 0..n - 1 : m \in S
  <2> SUFFICES ASSUME NEW m \in 0..n - 1, m \notin S PROVE FALSE
    OBVIOUS
  <2>1. m \in Out /\ m < n
    OBVIOUS
  <2> QED BY <2>1, <1>4
<1> QED BY <1>5

------------------------------------------------------------------------------
(* The tree.                                                                 *)

At(n) == Grammars[grammar].kinds[tree[n].kind]

(* A node hangs off an earlier one, and what lies between hangs no higher.   *)
Nested ==
  \A n \in 2..Len(tree) :
    /\ tree[n].up \in 1..n - 1
    /\ \A b \in tree[n].up + 1..n - 1 : tree[b].up >= tree[n].up

(* The children of a node, in document order.                                *)
Siblings ==
  \A n \in Nodes : \A i \in 1..Len(tree[n].kids) :
    /\ tree[n].kids[i] \in n + 1..Len(tree)
    /\ tree[tree[n].kids[i]].up = n
    /\ \A j \in 1..i - 1 : tree[n].kids[j] < tree[n].kids[i]

(* No node is missing from the children of the one it hangs off.             *)
Adopted ==
  \A n \in 2..Len(tree) : \E i \in 1..Len(tree[tree[n].up].kids) : tree[tree[n].up].kids[i] = n

(* The grammar knows every node, where it is.                                *)
Conforms ==
  /\ tree[1].kind = "program" /\ tree[1].form = "none" /\ tree[1].params = <<>>
  /\ \A n \in Nodes : tree[n].kind \in DOMAIN Grammars[grammar].kinds
  /\ \A n \in 2..Len(tree) :
       /\ tree[n].kind \in At(tree[n].up).holds
       /\ tree[n].form \in At(n).forms
       /\ tree[n].params \in At(n).params

TreeOK ==
  /\ grammar \in DOMAIN Grammars
  /\ tree \in Seq(Node) /\ tree # <<>>
  /\ Nested
  /\ Siblings
  /\ Adopted
  /\ Conforms

(* What Grow does to a node.                                                 *)
LEMMA Grown ==
  ASSUME TreeOK, NEW p \in Nodes, NEW new,
         tree' = Append([tree EXCEPT ![p].kids = Append(@, Len(tree) + 1)], new)
  PROVE  /\ Len(tree) \in Nat \ {0}
         /\ Len(tree') = Len(tree) + 1
         /\ tree'[Len(tree) + 1] = new
         /\ new \in Node => tree' \in Seq(Node)
         /\ \A n \in Nodes :
              tree'[n] = IF n = p THEN [tree[n] EXCEPT !.kids = Append(@, Len(tree) + 1)] ELSE tree[n]
<1> DEFINE old == [tree EXCEPT ![p].kids = Append(@, Len(tree) + 1)]
<1>1. tree \in Seq(Node) /\ tree # <<>>
  BY DEF TreeOK
<1>2. DOMAIN tree = Nodes /\ Len(tree) \in Nat \ {0}
  BY <1>1 DEF Nodes
<1>3. /\ DOMAIN old = 1..Len(tree)
      /\ \A n \in Nodes :
           old[n] = IF n = p THEN [tree[n] EXCEPT !.kids = Append(@, Len(tree) + 1)] ELSE tree[n]
  BY <1>2 DEF Nodes
<1>4. /\ \A n \in Nodes : tree[n] \in Node
      /\ [tree[p] EXCEPT !.kids = Append(@, Len(tree) + 1)] \in Node
  <2>1. \A n \in Nodes : tree[n] \in Node
    BY <1>1, <1>2
  <2>2. Append(tree[p].kids, Len(tree) + 1) \in Seq(Nat)
    BY <1>2, <2>1 DEF Node
  <2> QED BY <2>1, <2>2 DEF Node
<1>5. old \in Seq(Node) /\ Len(old) = Len(tree)
  <2>1. old \in [1..Len(tree) -> Node]
    BY <1>3, <1>4 DEF Nodes
  <2> HIDE DEF old
  <2> QED BY <2>1, <1>2
<1>6. tree' = Append(old, new)
  OBVIOUS
<1> DEFINE Any == Node \cup {new}
<1>7. old \in Seq(Any) /\ new \in Any
  BY <1>5
<1> HIDE DEF old, Any
<1>8. /\ Len(Append(old, new)) = Len(old) + 1
      /\ \A n \in 1..Len(old) : Append(old, new)[n] = old[n]
      /\ Append(old, new)[Len(old) + 1] = new
  BY <1>7, AppendProperties
<1>9. new \in Node => Append(old, new) \in Seq(Node)
  BY <1>5
<1> QED BY <1>2, <1>3, <1>5, <1>6, <1>8, <1>9 DEF Nodes

(* The types of the nodes, and of what a grammar says of their kinds.        *)
LEMMA NodeTypes ==
  ASSUME TreeOK
  PROVE  /\ Len(tree) \in Nat \ {0}
         /\ Nodes = 1..Len(tree) /\ DOMAIN tree = Nodes
         /\ \A n \in Nodes :
              /\ tree[n] \in Node
              /\ tree[n].up \in Nat
              /\ tree[n].kids \in Seq(Nat) /\ Len(tree[n].kids) \in Nat
<1>1. Len(tree) \in Nat \ {0} /\ DOMAIN tree = Nodes /\ \A n \in Nodes : tree[n] \in Node
  BY DEF TreeOK, Nodes
<1>2. \A x \in Node : x.up \in Nat /\ x.kids \in Seq(Nat) /\ Len(x.kids) \in Nat
  BY DEF Node
<1> QED BY <1>1, <1>2 DEF Nodes

LEMMA TreeStarts == Init => TreeOK
<1> SUFFICES ASSUME Init PROVE TreeOK
  OBVIOUS
<1> DEFINE root == [kind |-> "program", form |-> "none", params |-> <<>>, up |-> 0, kids |-> <<>>]
<1>1. grammar \in DOMAIN Grammars /\ tree = <<root>>
  BY DEF Init
<1>2. root \in Node
  <2>1. "program" \in Kinds
    BY <1>1, GrammarsAssumption DEF Kinds
  <2>2. <<>> \in Seq(Parameter) /\ <<>> \in Seq(Nat)
    OBVIOUS
  <2> QED BY <2>1, <2>2 DEF Node
<1>3. Len(tree) = 1 /\ tree[1] = root /\ tree \in Seq(Node) /\ tree # <<>> /\ Nodes = {1}
  BY <1>1, <1>2 DEF Nodes
<1>4. Nested /\ Siblings /\ Adopted
  BY <1>3 DEF Nested, Siblings, Adopted
<1>5. Conforms
  BY <1>1, <1>3, GrammarsAssumption DEF Conforms
<1> QED BY <1>1, <1>3, <1>4, <1>5 DEF TreeOK

LEMMA TreeGrows ==
  ASSUME TreeOK, Grow
  PROVE  TreeOK'
<1> DEFINE N == Len(tree)
<1>1. PICK p \in RightmostPath : \E k \in At(p).holds :
        \E form \in Grammars[grammar].kinds[k].forms, ps \in Grammars[grammar].kinds[k].params :
          tree' = Append([tree EXCEPT ![p].kids = Append(@, N + 1)],
                         [kind |-> k, form |-> form, params |-> ps, up |-> p, kids |-> <<>>])
  BY DEF Grow, At
<1>0. PICK k \in At(p).holds : \E form \in Grammars[grammar].kinds[k].forms,
                                 ps \in Grammars[grammar].kinds[k].params :
        tree' = Append([tree EXCEPT ![p].kids = Append(@, N + 1)],
                       [kind |-> k, form |-> form, params |-> ps, up |-> p, kids |-> <<>>])
  BY <1>1
<1>2. PICK form \in Grammars[grammar].kinds[k].forms, ps \in Grammars[grammar].kinds[k].params :
        tree' = Append([tree EXCEPT ![p].kids = Append(@, N + 1)],
                       [kind |-> k, form |-> form, params |-> ps, up |-> p, kids |-> <<>>])
  BY <1>0
<1> DEFINE new == [kind |-> k, form |-> form, params |-> ps, up |-> p, kids |-> <<>>]
<1>3. /\ N \in Nat \ {0} /\ p \in 1..N
      /\ \A n \in 1..N : n > p => tree[n].up >= p
      /\ grammar' = grammar /\ grammar \in DOMAIN Grammars
  BY NodeTypes DEF RightmostPath, Grow, TreeOK, Nodes
<1>4. /\ Len(tree') = N + 1
      /\ tree'[N + 1] = new
      /\ new \in Node => tree' \in Seq(Node)
      /\ \A n \in 1..N :
           tree'[n] = IF n = p THEN [tree[n] EXCEPT !.kids = Append(@, N + 1)] ELSE tree[n]
  <2>1. tree' = Append([tree EXCEPT ![p].kids = Append(@, N + 1)], new)
    BY <1>2
  <2> HIDE DEF new
  <2> QED BY <2>1, <1>3, Grown DEF Nodes
<1>5. \A n \in 1..N : tree[n] \in Node /\ tree[n].up \in Nat
                      /\ tree[n].kids \in Seq(Nat) /\ Len(tree[n].kids) \in Nat
  BY NodeTypes
<1>6. \A n \in 1..N : /\ tree'[n].kind = tree[n].kind /\ tree'[n].form = tree[n].form
                      /\ tree'[n].params = tree[n].params /\ tree'[n].up = tree[n].up
                      /\ n # p => tree'[n].kids = tree[n].kids
  BY <1>4, <1>5 DEF Node
<1>7. /\ Len(tree'[p].kids) = Len(tree[p].kids) + 1
      /\ tree'[p].kids[Len(tree[p].kids) + 1] = N + 1
      /\ \A i \in 1..Len(tree[p].kids) : tree'[p].kids[i] = tree[p].kids[i]
  <2>1. tree'[p].kids = Append(tree[p].kids, N + 1)
    BY <1>3, <1>4, <1>5 DEF Node
  <2>2. tree[p].kids \in Seq(Nat) /\ N + 1 \in Nat
    BY <1>3, <1>5
  <2> QED BY <2>1, <2>2, AppendProperties
<1>8. Nodes' = 1..N + 1 /\ Nodes = 1..N
  BY <1>4 DEF Nodes
<1> HIDE DEF N
<1>n. \A n \in 2..N : /\ tree[n].up \in 1..n - 1
                      /\ \A b \in tree[n].up + 1..n - 1 : tree[b].up >= tree[n].up
  BY DEF N, TreeOK, Nested
<1>u. \A n \in 1..N : tree'[n].up = tree[n].up
  BY <1>6
<1>9. Nested'
  <2>2. ASSUME NEW n \in 2..N + 1
        PROVE  /\ tree'[n].up \in 1..n - 1
               /\ \A b \in tree'[n].up + 1..n - 1 : tree'[b].up >= tree'[n].up
    <3>1. CASE n = N + 1
      <4>1. tree'[n].up = p
        BY <3>1, <1>4
      <4> QED BY <3>1, <4>1, <1>3, <1>6
    <3>2. CASE n \in 2..N
      <4>1. n \in 1..N /\ tree'[n].up = tree[n].up /\ tree[n].up \in 1..n - 1
        BY <3>2, <1>n, <1>u, <1>3
      <4>2. \A b \in tree[n].up + 1..n - 1 : b \in 1..N /\ tree[b].up >= tree[n].up
        BY <3>2, <4>1, <1>n, <1>3
      <4> QED BY <4>1, <4>2, <1>u
    <3> QED BY <3>1, <3>2, <1>3
  <2> QED BY <2>2, <1>4 DEF Nested
<1>10. Siblings'
  <2>1. \A n \in 1..N : \A i \in 1..Len(tree[n].kids) :
          /\ tree[n].kids[i] \in n + 1..N
          /\ tree[tree[n].kids[i]].up = n
          /\ \A j \in 1..i - 1 : tree[n].kids[j] < tree[n].kids[i]
    BY DEF N, TreeOK, Siblings, Nodes
  <2> SUFFICES ASSUME NEW n \in 1..N + 1, NEW i \in 1..Len(tree'[n].kids)
               PROVE  /\ tree'[n].kids[i] \in n + 1..N + 1
                      /\ tree'[tree'[n].kids[i]].up = n
                      /\ \A j \in 1..i - 1 : tree'[n].kids[j] < tree'[n].kids[i]
    BY <1>4, <1>8 DEF Siblings
  <2>2. CASE n = N + 1
    <3>1. tree'[n].kids = <<>>
      BY <2>2, <1>4
    <3> QED BY <3>1
  <2>3. CASE n \in 1..N /\ n # p
    <3>1. tree'[n].kids = tree[n].kids /\ tree[n].kids[i] \in 1..N
      BY <2>1, <2>3, <1>3, <1>6
    <3>2. tree[n].kids[i] \in n + 1..N /\ tree[tree[n].kids[i]].up = n
          /\ \A j \in 1..i - 1 : tree[n].kids[j] < tree[n].kids[i]
      BY <3>1, <2>1, <2>3
    <3> QED BY <3>1, <3>2, <2>3, <1>3, <1>u
  <2>4. CASE n = p /\ i \in 1..Len(tree[p].kids)
    <3>1. tree[p].kids[i] \in p + 1..N /\ tree[p].kids[i] \in 1..N
      BY <2>1, <2>4, <1>3
    <3>2. \A j \in 1..i - 1 : j \in 1..Len(tree[p].kids)
      BY <2>4, <1>3, <1>5
    <3>3. tree'[p].kids[i] = tree[p].kids[i] /\ \A j \in 1..i - 1 : tree'[p].kids[j] = tree[p].kids[j]
      BY <3>2, <2>4, <1>7
    <3>4. tree[tree[p].kids[i]].up = p /\ \A j \in 1..i - 1 : tree[p].kids[j] < tree[p].kids[i]
      BY <2>1, <2>4, <1>3
    <3>5. tree'[p].kids[i] \in p + 1..N + 1
      BY <3>1, <3>3, <1>3
    <3>6. tree'[tree'[p].kids[i]].up = p
      BY <3>1, <3>3, <3>4, <1>u
    <3>7. \A j \in 1..i - 1 : tree'[p].kids[j] < tree'[p].kids[i]
      BY <3>3, <3>4
    <3> QED BY <3>5, <3>6, <3>7, <2>4
  <2>5. CASE n = p /\ i = Len(tree[p].kids) + 1
    <3>1. \A j \in 1..i - 1 : tree'[p].kids[j] = tree[p].kids[j] /\ tree[p].kids[j] \in p + 1..N
      <4>1. \A j \in 1..i - 1 : j \in 1..Len(tree[p].kids)
        BY <2>5, <1>3, <1>5
      <4> QED BY <4>1, <2>1, <1>3, <1>7
    <3>2. tree'[p].kids[i] = N + 1 /\ tree'[N + 1].up = p
      BY <2>5, <1>4, <1>7
    <3>3. \A j \in 1..i - 1 : tree'[p].kids[j] < tree'[p].kids[i]
      <4> SUFFICES ASSUME NEW j \in 1..i - 1
                   PROVE  tree'[p].kids[j] < tree'[p].kids[i]
        OBVIOUS
      <4>1. tree'[p].kids[j] \in p + 1..N
        BY <3>1
      <4> QED BY <4>1, <3>2, <1>3
    <3> QED BY <3>2, <3>3, <2>5, <1>3
  <2>6. n = p => i \in 1..Len(tree[p].kids) \/ i = Len(tree[p].kids) + 1
    BY <1>3, <1>5, <1>7
  <2> QED BY <2>2, <2>3, <2>4, <2>5, <2>6, <1>3
<1>11. Adopted'
  <2>1. \A n \in 2..N : \E i \in 1..Len(tree[tree[n].up].kids) : tree[tree[n].up].kids[i] = n
    BY DEF N, TreeOK, Adopted
  <2> SUFFICES ASSUME NEW n \in 2..N + 1
               PROVE  \E i \in 1..Len(tree'[tree'[n].up].kids) : tree'[tree'[n].up].kids[i] = n
    BY <1>4 DEF Adopted
  <2>2. CASE n = N + 1
    <3>1. tree'[n].up = p
      BY <2>2, <1>4
    <3>2. Len(tree[p].kids) + 1 \in 1..Len(tree'[p].kids)
      BY <1>3, <1>5, <1>7
    <3> QED BY <2>2, <3>1, <3>2, <1>7
  <2>3. CASE n \in 2..N
    <3>1. tree[n].up \in 1..N /\ tree'[n].up = tree[n].up
      BY <2>3, <1>3, <1>n, <1>u
    <3>2. PICK i \in 1..Len(tree[tree[n].up].kids) : tree[tree[n].up].kids[i] = n
      BY <2>1, <2>3
    <3>3. CASE tree[n].up # p
      BY <3>1, <3>2, <3>3, <1>6
    <3>4. CASE tree[n].up = p
      <4>1. i \in 1..Len(tree'[p].kids)
        BY <3>2, <3>4, <1>3, <1>5, <1>7
      <4> QED BY <4>1, <3>1, <3>2, <3>4, <1>7
    <3> QED BY <3>3, <3>4
  <2> QED BY <2>2, <2>3, <1>3
<1>12. k \in DOMAIN Grammars[grammar].kinds
  <2>1. tree[p].kind \in DOMAIN Grammars[grammar].kinds
    BY <1>3, <1>8 DEF TreeOK, Conforms
  <2> QED BY <2>1, <1>2, <1>3, GrammarsAssumption DEF At
<1>13. Conforms'
  <2>1. \A n \in 1..N : At(n)' = At(n)
    BY <1>3, <1>6 DEF At
  <2>2. /\ tree[1].kind = "program" /\ tree[1].form = "none" /\ tree[1].params = <<>>
        /\ \A n \in 1..N : tree[n].kind \in DOMAIN Grammars[grammar].kinds
        /\ \A n \in 2..N : /\ tree[n].up \in 1..N
                           /\ tree[n].kind \in At(tree[n].up).holds
                           /\ tree[n].form \in At(n).forms
                           /\ tree[n].params \in At(n).params
    BY <1>3, <1>8 DEF N, TreeOK, Conforms, Nested
  <2>3. tree'[1].kind = "program" /\ tree'[1].form = "none" /\ tree'[1].params = <<>>
    BY <2>2, <1>3, <1>6
  <2>4. \A n \in 1..N + 1 : tree'[n].kind \in DOMAIN Grammars[grammar'].kinds
    BY <2>2, <1>3, <1>4, <1>6, <1>12
  <2>5. ASSUME NEW n \in 2..N + 1
        PROVE  /\ tree'[n].kind \in Grammars[grammar'].kinds[tree'[tree'[n].up].kind].holds
               /\ tree'[n].form \in At(n)'.forms
               /\ tree'[n].params \in At(n)'.params
    <3>1. CASE n = N + 1
      <4>1. Grammars[grammar'].kinds[tree'[p].kind] = At(p) /\ tree'[n] = new
        BY <3>1, <1>3, <1>4, <1>6 DEF At
      <4>2. At(n)' = Grammars[grammar].kinds[k]
        BY <4>1, <1>3 DEF At
      <4>3. tree'[n].up = p /\ tree'[n].kind = k /\ tree'[n].form = form /\ tree'[n].params = ps
        BY <4>1
      <4> QED BY <4>1, <4>2, <4>3, <1>2
    <3>2. CASE n \in 2..N
      <4>1. tree'[n].up = tree[n].up /\ tree[n].up \in 1..N
        BY <3>2, <2>2, <1>3, <1>6
      <4>2. Grammars[grammar'].kinds[tree'[tree'[n].up].kind] = At(tree[n].up)
        BY <4>1, <1>6, <1>3 DEF At
      <4>3. At(n)' = At(n) /\ n \in 1..N
        BY <3>2, <2>1, <1>3
      <4> QED BY <3>2, <4>2, <4>3, <2>2, <1>6
    <3> QED BY <3>1, <3>2, <1>3
  <2> QED BY <2>3, <2>4, <2>5, <1>4, <1>8 DEF Conforms, At
<1>14. tree' \in Seq(Node)
  <2>1. k \in Kinds /\ form \in STRING /\ ps \in Seq(Parameter)
    BY <1>2, <1>3, <1>12, GrammarsAssumption DEF Kinds
  <2>2. new \in Node
    BY <2>1, <1>3 DEF Node
  <2> QED BY <2>2, <1>4
<1>15. tree' # <<>>
  BY <1>3, <1>4
<1> QED BY <1>3, <1>9, <1>10, <1>11, <1>13, <1>14, <1>15 DEF TreeOK

------------------------------------------------------------------------------
(* The tables.                                                               *)

(* What a row, and the rows of a table, may say: a few entries of some kinds. *)
Row(row, what, most) ==
  \A form \in DOMAIN row : row[form] \in Seq(what) /\ Len(row[form]) \in 0..most

Rows(records, what, most) == \A k \in DOMAIN records : Row(records[k], what, most)

LEMMA NamedRow ==
  ASSUME NEW what, NEW a \in what
  PROVE  Row(Named(a), what, 1)
<1> DEFINE entries == <<a>>
<1>1. entries \in Seq(what) /\ Len(entries) \in 0..1
  OBVIOUS
<1>2. \A form \in DOMAIN Named(a) : Named(a)[form] = entries
  BY DEF Named
<1> HIDE DEF entries
<1> QED BY <1>1, <1>2 DEF Row

LEMMA EachRows ==
  ASSUME NEW what, NEW most, NEW kinds, NEW row, Row(row, what, most)
  PROVE  Rows(Each(kinds, row), what, most)
BY DEF Rows, Each

LEMMA MergedRows ==
  ASSUME NEW what, NEW most, NEW f, NEW g, Rows(f, what, most), Rows(g, what, most)
  PROVE  Rows(Merge(f, g), what, most)
BY DEF Rows, Merge

LEMMA FunctionRow == Row(Functions, SymbolKind, 1)
BY NamedRow DEF Functions, SymbolKind

LEMMA TypescriptRows ==
  /\ Rows(TypescriptFunctionRows, SymbolKind, 1)
  /\ Rows(TypescriptTypeRows, SymbolKind, 1)
<1>1. Row([named |-> <<"function">>, anonymous |-> <<"function">>], SymbolKind, 1)
  <2> DEFINE row == [named |-> <<"function">>, anonymous |-> <<"function">>]
             entries == <<"function">>
  <2>1. entries \in Seq(SymbolKind) /\ Len(entries) \in 0..1
    BY DEF SymbolKind
  <2>2. \A form \in DOMAIN row : row[form] = entries
    OBVIOUS
  <2> HIDE DEF row, entries
  <2>3. Row(row, SymbolKind, 1)
    BY <2>1, <2>2 DEF Row
  <2> QED BY <2>3 DEF row
<1>2. Rows([call_signature |-> [named |-> <<"function">>, anonymous |-> <<"function">>]], SymbolKind, 1)
  BY <1>1 DEF Rows
<1>3. Rows(TypescriptFunctionRows, SymbolKind, 1)
  BY <1>2, FunctionRow, EachRows, MergedRows DEF TypescriptFunctionRows
<1>4. Rows(TypescriptTypeRows, SymbolKind, 1)
  <2>1. \A k \in DOMAIN TypescriptTypeKind : TypescriptTypeKind[k] \in SymbolKind
    BY DEF TypescriptTypeKind, SymbolKind
  <2> QED BY <2>1, NamedRow DEF TypescriptTypeRows, Rows
<1> QED BY <1>3, <1>4

LEMMA TypeRows ==
  /\ Rows(RustTypeRows, SymbolKind, 1)
  /\ Rows(JavaTypeRows, SymbolKind, 1)
  /\ Rows(RubyTypeRows, SymbolKind, 1)
  /\ Rows(CppTypeRows, SymbolKind, 1)
<1>1. \A a \in SymbolKind : Row(Named(a), SymbolKind, 1)
  BY NamedRow
<1>2. Rows(RustTypeRows, SymbolKind, 1)
  BY <1>1 DEF RustTypeRows, Rows, SymbolKind
<1>3. Rows(JavaTypeRows, SymbolKind, 1)
  BY <1>1 DEF JavaTypeRows, Rows, SymbolKind
<1>4. Rows(RubyTypeRows, SymbolKind, 1)
  BY <1>1 DEF RubyTypeRows, Rows, SymbolKind
<1>5. Rows(CppTypeRows, SymbolKind, 1)
  BY <1>1 DEF CppTypeRows, Rows, SymbolKind
<1> QED BY <1>2, <1>3, <1>4, <1>5

LEMMA CFunctionRow == Row(CFunction, SymbolKind, 1)
<1> DEFINE entries == <<"function">>
<1>1. entries \in Seq(SymbolKind) /\ Len(entries) \in 0..1
  BY DEF SymbolKind
<1>2. \A form \in DOMAIN CFunction : CFunction[form] = entries
  BY DEF CFunction
<1> HIDE DEF entries
<1> QED BY <1>1, <1>2 DEF Row

LEMMA GoTypeSpecRow == Row(GoTypeSpecKind, SymbolKind, 1)
<1> DEFINE entries(a) == <<a>>
<1>1. \A a \in SymbolKind : entries(a) \in Seq(SymbolKind) /\ Len(entries(a)) \in 0..1
  OBVIOUS
<1>2. \A form \in DOMAIN GoTypeSpecKind : \E a \in SymbolKind : GoTypeSpecKind[form] = entries(a)
  BY DEF GoTypeSpecKind, SymbolKind
<1> HIDE DEF entries
<1> QED BY <1>1, <1>2 DEF Row

(* The extractors of definitions report one symbol for a node, or none.      *)
LEMMA TypescriptDefinitionRows ==
  /\ Rows(TypescriptFunctions.records, SymbolKind, 1)
  /\ Rows(TypescriptExportedFunction.records, SymbolKind, 1)
  /\ Rows(TypescriptSpans.records, SymbolKind, 1)
  /\ Rows(TypescriptDeclarationSpan.records, SymbolKind, 1)
<1>1. Rows(TypescriptFunctions.records, SymbolKind, 1)
  BY TypescriptRows DEF TypescriptFunctions, Extractor
<1>2. Rows(TypescriptExportedFunction.records, SymbolKind, 1)
  <2>1. Rows([function_declaration |-> Functions], SymbolKind, 1)
    BY FunctionRow DEF Rows
  <2> QED BY <2>1 DEF TypescriptExportedFunction, Only, Extractor
<1>3. Rows(TypescriptSpans.records, SymbolKind, 1)
  BY TypescriptRows, MergedRows DEF TypescriptSpans, Extractor
<1>4. Rows(TypescriptDeclarationSpan.records, SymbolKind, 1)
  BY FunctionRow, TypescriptRows, EachRows, MergedRows DEF TypescriptDeclarationSpan, Only, Extractor
<1> QED BY <1>1, <1>2, <1>3, <1>4

LEMMA RustDefinitionRows ==
  /\ Rows(RustFunctions.records, SymbolKind, 1)
  /\ Rows(RustTraitMethods.records, SymbolKind, 1)
  /\ Rows(RustSpans.records, SymbolKind, 1)
  /\ Rows(RustTraitMethodSpans.records, SymbolKind, 1)
<1>1. Rows(RustFunctions.records, SymbolKind, 1)
  BY FunctionRow, EachRows DEF RustFunctions, Extractor
<1>2. Rows(RustTraitMethods.records, SymbolKind, 1)
  BY FunctionRow, EachRows DEF RustTraitMethods, Extractor
<1>3. Rows(RustSpans.records, SymbolKind, 1)
  BY FunctionRow, TypeRows, EachRows, MergedRows DEF RustSpans, Extractor
<1> QED BY <1>1, <1>2, <1>3 DEF RustTraitMethodSpans

LEMMA GoDefinitionRows ==
  /\ Rows(GoFunctions.records, SymbolKind, 1)
  /\ Rows(GoSpans.records, SymbolKind, 1)
  /\ Rows(GoTypeSpecs.records, SymbolKind, 1)
<1>1. Rows(GoFunctions.records, SymbolKind, 1) /\ Rows(GoSpans.records, SymbolKind, 1)
  BY FunctionRow, EachRows DEF GoFunctions, GoSpans, Extractor
<1>2. Rows([type_spec |-> GoTypeSpecKind], SymbolKind, 1)
  BY GoTypeSpecRow DEF Rows
<1> QED BY <1>1, <1>2 DEF GoTypeSpecs, Only, Extractor

LEMMA PythonBashDefinitionRows ==
  /\ Rows(PythonFunctions.records, SymbolKind, 1)
  /\ Rows(PythonSpans.records, SymbolKind, 1)
  /\ Rows(BashFunctions.records, SymbolKind, 1)
  /\ Rows(BashSpans.records, SymbolKind, 1)
<1>1. Rows([function_definition |-> Functions], SymbolKind, 1)
  BY FunctionRow DEF Rows
<1>2. Row(Named("class"), SymbolKind, 1)
  BY NamedRow DEF SymbolKind
<1>3. Rows([function_definition |-> Functions, class_definition |-> Named("class")], SymbolKind, 1)
  BY <1>2, FunctionRow DEF Rows
<1> QED BY <1>1, <1>3 DEF PythonFunctions, PythonSpans, BashFunctions, BashSpans, Extractor

LEMMA JavaRubyDefinitionRows ==
  /\ Rows(JavaFunctions.records, SymbolKind, 1)
  /\ Rows(JavaSpans.records, SymbolKind, 1)
  /\ Rows(RubyFunctions.records, SymbolKind, 1)
  /\ Rows(RubySpans.records, SymbolKind, 1)
<1>1. /\ Rows(Merge(Each(JavaLeaves, Functions), JavaTypeRows), SymbolKind, 1)
      /\ Rows(Merge(Each(RubyLeaves, Functions), RubyTypeRows), SymbolKind, 1)
  BY FunctionRow, TypeRows, EachRows, MergedRows
<1> QED BY <1>1 DEF JavaFunctions, JavaSpans, RubyFunctions, RubySpans, Extractor

LEMMA CDefinitionRows ==
  /\ Rows(CFunctions.records, SymbolKind, 1)
  /\ Rows(CSpans.records, SymbolKind, 1)
  /\ Rows(CppFunctions.records, SymbolKind, 1)
  /\ Rows(CppSpans.records, SymbolKind, 1)
<1>1. Rows([function_definition |-> CFunction], SymbolKind, 1)
  BY CFunctionRow DEF Rows
<1>2. Rows(Merge([function_definition |-> CFunction], CppTypeRows), SymbolKind, 1)
  BY <1>1, TypeRows, MergedRows
<1> QED BY <1>1, <1>2 DEF CFunctions, CSpans, CppFunctions, CppSpans, Extractor

Definers ==
  {"typescript_functions", "typescript_spans", "typescript_exported_function",
   "typescript_declaration_span", "rust_functions", "rust_trait_methods", "rust_spans",
   "rust_trait_method_spans", "python_functions", "python_spans", "go_functions", "go_spans",
   "go_type_specs", "bash_functions", "bash_spans", "java_functions", "java_spans",
   "c_functions", "c_spans", "ruby_functions", "ruby_spans", "cpp_functions", "cpp_spans"}

Importers ==
  {"typescript_imports", "rust_imports", "python_imports", "go_imports", "bash_imports",
   "java_imports", "c_imports", "ruby_imports", "cpp_imports"}

Exporters == {"typescript_exports", "rust_exports", "bash_exports", "none"}

(* The extractors of a walk, and the kinds of entries it reports.            *)
Staff == [functions |-> Definers, spans |-> Definers, imports |-> Importers, exports |-> Exporters]

KindsOf ==
  [functions |-> SymbolKind, spans |-> SymbolKind, imports |-> ImportKind, exports |-> ExportKind]

WalkNames == {"functions", "spans", "imports", "exports"}

LEMMA DefinerRows ==
  ASSUME NEW by \in Definers
  PROVE  Rows(Extractors[by].records, SymbolKind, 1)
BY TypescriptDefinitionRows, RustDefinitionRows, GoDefinitionRows, PythonBashDefinitionRows,
   JavaRubyDefinitionRows, CDefinitionRows DEF Definers, Extractors

LEMMA DefinerTurns ==
  ASSUME NEW by \in Definers
  PROVE  \A k \in DOMAIN Extractors[by].turns : Extractors[by].turns[k] \in Definers
<1>1. \A x : x.turns = NoTurns => \A k \in DOMAIN x.turns : x.turns[k] \in Definers
  BY DEF NoTurns, Each
<1>2. /\ TypescriptFunctions.turns = [export_statement |-> "typescript_exported_function"]
      /\ TypescriptSpans.turns = [export_statement |-> "typescript_declaration_span"]
      /\ TypescriptDeclarationSpan.turns = Each(DOMAIN TypescriptTypeKind, "typescript_spans")
      /\ RustFunctions.turns = [trait_item |-> "rust_trait_methods"]
      /\ RustSpans.turns = [trait_item |-> "rust_trait_method_spans"]
      /\ GoSpans.turns = [type_declaration |-> "go_type_specs"]
  BY DEF TypescriptFunctions, TypescriptSpans, TypescriptDeclarationSpan, RustFunctions, RustSpans,
         GoSpans, Extractor, Only
<1>3. /\ TypescriptExportedFunction.turns = NoTurns /\ RustTraitMethods.turns = NoTurns
      /\ RustTraitMethodSpans.turns = NoTurns /\ GoFunctions.turns = NoTurns
      /\ GoTypeSpecs.turns = NoTurns
      /\ PythonFunctions.turns = NoTurns /\ PythonSpans.turns = NoTurns
      /\ BashFunctions.turns = NoTurns /\ BashSpans.turns = NoTurns
      /\ JavaFunctions.turns = NoTurns /\ JavaSpans.turns = NoTurns
      /\ CFunctions.turns = NoTurns /\ CSpans.turns = NoTurns
      /\ RubyFunctions.turns = NoTurns /\ RubySpans.turns = NoTurns
      /\ CppFunctions.turns = NoTurns /\ CppSpans.turns = NoTurns
  BY DEF TypescriptExportedFunction, RustTraitMethods, RustTraitMethodSpans, GoFunctions,
         GoTypeSpecs, PythonFunctions, PythonSpans, BashFunctions, BashSpans, JavaFunctions,
         JavaSpans, CFunctions, CSpans, RubyFunctions, RubySpans, CppFunctions, CppSpans,
         Extractor, Only
<1>4. \A k \in DOMAIN TypescriptDeclarationSpan.turns :
        TypescriptDeclarationSpan.turns[k] = "typescript_spans"
  BY <1>2 DEF Each
<1>5. CASE by \in {"typescript_functions", "typescript_spans", "typescript_declaration_span",
                   "rust_functions", "rust_spans", "go_spans"}
  BY <1>2, <1>4, <1>5 DEF Extractors, Definers
<1>6. CASE by \notin {"typescript_functions", "typescript_spans", "typescript_declaration_span",
                      "rust_functions", "rust_spans", "go_spans"}
  <2>1. Extractors[by].turns = NoTurns
    BY <1>3, <1>6 DEF Extractors, Definers
  <2> QED BY <2>1, <1>1
<1> QED BY <1>5, <1>6

(* The importers and exporters report two entries for a node at most.        *)
LEMMA FewEntries ==
  ASSUME NEW what, NEW row,
         \A form \in DOMAIN row : \E a, b \in what : row[form] = <<a>> \/ row[form] = <<a, b>>
  PROVE  Row(row, what, 2)
<1> SUFFICES ASSUME NEW form \in DOMAIN row
             PROVE  row[form] \in Seq(what) /\ Len(row[form]) \in 0..2
  BY DEF Row
<1>1. PICK a \in what, b \in what : row[form] = <<a>> \/ row[form] = <<a, b>>
  OBVIOUS
<1> DEFINE one == <<a>>
           two == <<a, b>>
<1>2. /\ one \in Seq(what) /\ Len(one) \in 0..2
      /\ two \in Seq(what) /\ Len(two) \in 0..2
  OBVIOUS
<1>3. row[form] = one \/ row[form] = two
  BY <1>1
<1> HIDE DEF one, two
<1> QED BY <1>2, <1>3

LEMMA ImporterRows ==
  ASSUME NEW by \in Importers
  PROVE  /\ by \in DOMAIN Extractors
         /\ DOMAIN Extractors[by].turns = {}
         /\ Rows(Extractors[by].records, ImportKind, 2)
<1>1. by \in DOMAIN Extractors
  BY DEF Importers, Extractors
<1>2. /\ TypescriptImports.turns = NoTurns /\ RustImports.turns = NoTurns
      /\ PythonImports.turns = NoTurns /\ GoImports.turns = NoTurns
      /\ BashImports.turns = NoTurns /\ JavaImports.turns = NoTurns
      /\ CImports.turns = NoTurns /\ RubyImports.turns = NoTurns
  BY DEF TypescriptImports, RustImports, PythonImports, GoImports, BashImports, JavaImports,
         CImports, RubyImports, Extractor, LeavesRecorded
<1>3. Extractors[by].turns = NoTurns
  BY <1>2 DEF Importers, Extractors, CppImports
<1>4. /\ Row(Merge(TypescriptImportClause, [bare |-> <<"SideEffect">>]), ImportKind, 2)
      /\ Row(TypescriptRequire, ImportKind, 2)
      /\ Row(RustUse, ImportKind, 2)
      /\ Row(RustMod, ImportKind, 2)
      /\ Row([name |-> <<"SideEffect">>, alias |-> <<"Namespace">>,
              names |-> <<"SideEffect", "SideEffect">>], ImportKind, 2)
      /\ Row([names |-> <<"Named">>, star |-> <<"SideEffect">>], ImportKind, 2)
      /\ Row([plain |-> <<"SideEffect">>, alias |-> <<"Namespace">>], ImportKind, 2)
      /\ Row([source |-> <<"Require">>], ImportKind, 2)
      /\ Row([path |-> <<"Named">>], ImportKind, 2)
      /\ Row([system |-> <<"Require">>, local |-> <<"Require">>], ImportKind, 2)
      /\ Row([require |-> <<"Require">>], ImportKind, 2)
  <2>1. Row(Merge(TypescriptImportClause, [bare |-> <<"SideEffect">>]), ImportKind, 2)
    BY FewEntries DEF ImportKind, Merge, TypescriptImportClause
  <2>2. Row(TypescriptRequire, ImportKind, 2)
    BY FewEntries DEF ImportKind, TypescriptRequire
  <2>3. Row(RustUse, ImportKind, 2)
    BY FewEntries DEF ImportKind, RustUse
  <2>4. Row(RustMod, ImportKind, 2)
    BY FewEntries DEF ImportKind, RustMod
  <2>5. Row([name |-> <<"SideEffect">>, alias |-> <<"Namespace">>,
           names |-> <<"SideEffect", "SideEffect">>], ImportKind, 2)
    BY FewEntries DEF ImportKind
  <2>6. Row([names |-> <<"Named">>, star |-> <<"SideEffect">>], ImportKind, 2)
    BY FewEntries DEF ImportKind
  <2>7. Row([plain |-> <<"SideEffect">>, alias |-> <<"Namespace">>], ImportKind, 2)
    BY FewEntries DEF ImportKind
  <2>8. Row([source |-> <<"Require">>], ImportKind, 2)
    BY FewEntries DEF ImportKind
  <2>9. Row([path |-> <<"Named">>], ImportKind, 2)
    BY FewEntries DEF ImportKind
  <2>10. Row([system |-> <<"Require">>, local |-> <<"Require">>], ImportKind, 2)
    BY FewEntries DEF ImportKind
  <2>11. Row([require |-> <<"Require">>], ImportKind, 2)
    BY FewEntries DEF ImportKind
  <2> QED BY <2>1, <2>2, <2>3, <2>4, <2>5, <2>6, <2>7, <2>8, <2>9, <2>10, <2>11
<1>5. /\ Rows(TypescriptImports.records, ImportKind, 2)
      /\ Rows(RustImports.records, ImportKind, 2)
      /\ Rows(PythonImports.records, ImportKind, 2)
      /\ Rows(GoImports.records, ImportKind, 2)
      /\ Rows(BashImports.records, ImportKind, 2)
      /\ Rows(JavaImports.records, ImportKind, 2)
      /\ Rows(CImports.records, ImportKind, 2)
      /\ Rows(RubyImports.records, ImportKind, 2)
  <2>1. Rows(TypescriptImports.records, ImportKind, 2)
    BY <1>4 DEF TypescriptImports, Extractor, LeavesRecorded, Rows
  <2>2. Rows(RustImports.records, ImportKind, 2)
    BY <1>4 DEF RustImports, Extractor, LeavesRecorded, Rows
  <2>3. Rows(PythonImports.records, ImportKind, 2)
    BY <1>4 DEF PythonImports, Extractor, LeavesRecorded, Rows
  <2>4. Rows(GoImports.records, ImportKind, 2)
    BY <1>4 DEF GoImports, Extractor, LeavesRecorded, Rows
  <2>5. Rows(BashImports.records, ImportKind, 2)
    BY <1>4 DEF BashImports, Extractor, LeavesRecorded, Rows
  <2>6. Rows(JavaImports.records, ImportKind, 2)
    BY <1>4 DEF JavaImports, Extractor, LeavesRecorded, Rows
  <2>7. Rows(CImports.records, ImportKind, 2)
    BY <1>4 DEF CImports, Extractor, LeavesRecorded, Rows
  <2>8. Rows(RubyImports.records, ImportKind, 2)
    BY <1>4 DEF RubyImports, Extractor, LeavesRecorded, Rows
  <2> QED BY <2>1, <2>2, <2>3, <2>4, <2>5, <2>6, <2>7, <2>8
<1>6. Rows(Extractors[by].records, ImportKind, 2)
  BY <1>5 DEF Importers, Extractors, CppImports
<1> QED BY <1>1, <1>3, <1>6 DEF NoTurns, Each

LEMMA ExporterRows ==
  ASSUME NEW by \in Exporters
  PROVE  /\ by \in DOMAIN Extractors
         /\ DOMAIN Extractors[by].turns = {}
         /\ Rows(Extractors[by].records, ExportKind, 2)
<1>1. by \in DOMAIN Extractors
  BY DEF Exporters, Extractors
<1>2. /\ TypescriptExports.turns = NoTurns /\ RustExports.turns = NoTurns
      /\ BashExports.turns = NoTurns /\ None.turns = NoTurns
  BY DEF TypescriptExports, RustExports, BashExports, None, Extractor, Only
<1>3. Extractors[by].turns = NoTurns
  BY <1>2 DEF Exporters, Extractors
<1>4. /\ Row(TypescriptExport, ExportKind, 2)
      /\ Row(RustExport, ExportKind, 2)
      /\ Row([one |-> <<"Named">>, two |-> <<"Named", "Named">>], ExportKind, 2)
  BY FewEntries DEF ExportKind, TypescriptExport, RustExport
<1>5. /\ Rows(TypescriptExports.records, ExportKind, 2)
      /\ Rows(RustExports.records, ExportKind, 2)
      /\ Rows(BashExports.records, ExportKind, 2)
      /\ Rows(None.records, ExportKind, 2)
  BY <1>4 DEF TypescriptExports, RustExports, BashExports, None, Each, Only, Extractor, Rows
<1>6. Rows(Extractors[by].records, ExportKind, 2)
  BY <1>5 DEF Exporters, Extractors
<1> QED BY <1>1, <1>3, <1>6 DEF NoTurns, Each

(* Definers hand over to definers only, the others to no one.                *)
LEMMA Handover ==
  ASSUME NEW w \in WalkNames, NEW by \in Staff[w]
  PROVE  /\ by \in DOMAIN Extractors
         /\ \A k \in DOMAIN Extractors[by].turns : Extractors[by].turns[k] \in Staff[w]
<1>1. CASE w \in {"functions", "spans"}
  <2>1. by \in Definers /\ Staff[w] = Definers
    BY <1>1 DEF Staff
  <2>2. by \in DOMAIN Extractors
    BY <2>1 DEF Definers, Extractors
  <2>3. \A k \in DOMAIN Extractors[by].turns : Extractors[by].turns[k] \in Definers
    BY <2>1, DefinerTurns
  <2> QED BY <2>1, <2>2, <2>3
<1>2. CASE w = "imports"
  <2>1. by \in Importers
    BY <1>2 DEF Staff
  <2> QED BY <2>1, ImporterRows
<1>3. CASE w = "exports"
  <2>1. by \in Exporters
    BY <1>3 DEF Staff
  <2> QED BY <2>1, ExporterRows
<1> QED BY <1>1, <1>2, <1>3 DEF WalkNames

LEMMA FirstOfStaff ==
  ASSUME NEW w \in WalkNames, NEW language \in Languages
  PROVE  FirstExtractor[w][language] \in Staff[w]
<1>1. ParseSource[language] \in Definers /\ ParseSourceSpans[language] \in Definers
  BY DEF Languages, ParseSource, ParseSourceSpans, Definers
<1>2. ParseSourceImports[language] \in Importers
  BY DEF Languages, ParseSourceImports, Importers
<1>3. ParseSourceExports[language] \in Exporters
  BY DEF Languages, ParseSourceExports, Merge, Each, Exporters
<1> QED BY <1>1, <1>2, <1>3 DEF WalkNames, FirstExtractor, Staff

------------------------------------------------------------------------------
(* Parameters.                                                               *)

(* The parameters a grammar may write.                                       *)
Written(p) ==
  /\ p \in Parameter
  /\ p.name # Dropped
  /\ p.name = NoName => p.kind \in Unnamed /\ p.pattern # "identifier"

(* A parameter that is kept has a name.                                      *)
LEMMA ParamName ==
  ASSUME NEW language \in Languages, NEW p, Written(p), Param(language, p) # Dropped
  PROVE  Param(language, p) \in Name
<1>1. p.name \in STRING /\ p.name # Dropped
  BY DEF Written, Parameter
<1>2. p.name # NoName => p.name \in Name
  BY <1>1 DEF Name
<1>3. "self" \in Name /\ "_" \in Name
  BY DEF Name, NoName, Dropped
<1>4. CASE p.name # NoName
  <2>1. Param(language, p) \in {"self", "_", p.name, Dropped}
    BY DEF Param, TypescriptParam, RustParam, ExtractPatternName, PythonParam, GoParam, JavaParam,
           CParam, RubyParam, Languages
  <2> QED BY <2>1, <1>2, <1>3, <1>4
<1>5. CASE p.name = NoName
  <2>1. p.kind \in Unnamed /\ p.pattern # "identifier"
    BY <1>5 DEF Written
  <2>2. Param(language, p) \in {"_", Dropped}
    BY <2>1, <1>5 DEF Unnamed, Param, TypescriptParam, RustParam, ExtractPatternName, PythonParam,
           GoParam, JavaParam, CParam, RubyParam, Languages
  <2> QED BY <2>2, <1>3
<1> QED BY <1>4, <1>5

(* The loop over the parameters, one iteration at a time.                    *)
Loop(language, ps, kept) ==
  kept = [i \in 0..Len(ps) |->
            IF i = 0 THEN <<>>
            ELSE IF Param(language, ps[i]) = Dropped THEN kept[i - 1]
            ELSE Append(kept[i - 1], Param(language, ps[i]))]

LEMMA ParamsLoop ==
  ASSUME NEW language, NEW ps, Len(ps) \in Nat
  PROVE  \E kept : Loop(language, ps, kept) /\ Params(language, ps) = kept[Len(ps)]
<1> DEFINE Step(g, i) == IF i = 0 THEN <<>>
                         ELSE IF Param(language, ps[i]) = Dropped THEN g[i - 1]
                         ELSE Append(g[i - 1], Param(language, ps[i]))
           S == {m \in Nat : \E g : g = [i \in 0..m |-> Step(g, i)]}
<1>1. ASSUME NEW m \in Nat, \A l \in 0..m - 1 : l \in S
      PROVE  m \in S
  <2>1. CASE m = 0
    <3> DEFINE g == [i \in 0..0 |-> <<>>]
    <3>1. g = [i \in 0..0 |-> Step(g, i)]
      OBVIOUS
    <3> QED BY <3>1, <2>1
  <2>2. CASE m # 0
    <3>0. m - 1 \in 0..m - 1 /\ m - 1 \in Nat
      BY <2>2
    <3>1. PICK g : g = [i \in 0..m - 1 |-> Step(g, i)]
      BY <3>0, <1>1
    <3> DEFINE h == [i \in 0..m |-> IF i = m THEN Step(g, m) ELSE g[i]]
    <3>2. \A i \in 0..m - 1 : h[i] = g[i]
      OBVIOUS
    <3>3. \A i \in 0..m : h[i] = Step(h, i)
      <4> SUFFICES ASSUME NEW i \in 0..m PROVE h[i] = Step(h, i)
        OBVIOUS
      <4>1. i # 0 => h[i - 1] = g[i - 1]
        BY <3>2
      <4>2. CASE i = m
        BY <4>1, <4>2, <2>2
      <4>3. CASE i # m
        <5>1. g[i] = Step(g, i)
          <6>1. i \in 0..m - 1
            BY <4>3
          <6> HIDE DEF Step, h
          <6> QED BY <3>1, <6>1
        <5>2. h[i] = g[i]
          BY <3>2, <4>3
        <5> QED BY <5>1, <5>2, <4>1
      <4> QED BY <4>2, <4>3
    <3>4. h = [i \in 0..m |-> Step(h, i)]
      <4>1. DOMAIN h = 0..m /\ h = [i \in 0..m |-> h[i]]
        OBVIOUS
      <4> HIDE DEF h
      <4> QED BY <4>1, <3>3
    <3> HIDE DEF h
    <3> QED BY <3>4
  <2> QED BY <2>1, <2>2
<1>2. Nat \subseteq S
  <2> HIDE DEF S
  <2> QED BY <1>1, FromBelow
<1>3. \E kept : Loop(language, ps, kept)
  BY <1>2 DEF Loop
<1> DEFINE kept == CHOOSE kept : Loop(language, ps, kept)
<1>4. Loop(language, ps, kept)
  BY <1>3
<1>5. Params(language, ps) = kept[Len(ps)]
  BY DEF Params, Loop
<1> QED BY <1>4, <1>5

LEMMA Iteration ==
  ASSUME NEW language, NEW ps, Len(ps) \in Nat, NEW kept, Loop(language, ps, kept)
  PROVE  /\ kept[0] = <<>>
         /\ \A i \in 1..Len(ps) :
              kept[i] = IF Param(language, ps[i]) = Dropped THEN kept[i - 1]
                        ELSE Append(kept[i - 1], Param(language, ps[i]))
<1> DEFINE Step(i) == IF i = 0 THEN <<>>
                      ELSE IF Param(language, ps[i]) = Dropped THEN kept[i - 1]
                      ELSE Append(kept[i - 1], Param(language, ps[i]))
<1>1. kept = [i \in 0..Len(ps) |-> Step(i)]
  BY DEF Loop
<1>2. \A i \in 0..Len(ps) : kept[i] = Step(i)
  <2> HIDE DEF Step
  <2> QED BY <1>1
<1>3. 0 \in 0..Len(ps) /\ \A i \in 1..Len(ps) : i \in 0..Len(ps) /\ i # 0
  OBVIOUS
<1>4. kept[0] = Step(0) /\ \A i \in 1..Len(ps) : kept[i] = Step(i)
  <2> HIDE DEF Step
  <2> QED BY <1>2, <1>3
<1> QED BY <1>3, <1>4

(* What is kept are names.                                                   *)
LEMMA ParamsType ==
  ASSUME NEW language \in Languages, NEW ps, Len(ps) \in Nat, \A i \in 1..Len(ps) : Written(ps[i])
  PROVE  Params(language, ps) \in Seq(Name)
<1>1. PICK kept : Loop(language, ps, kept) /\ Params(language, ps) = kept[Len(ps)]
  BY ParamsLoop
<1>2. /\ kept[0] = <<>>
      /\ \A i \in 1..Len(ps) :
           kept[i] = IF Param(language, ps[i]) = Dropped THEN kept[i - 1]
                     ELSE Append(kept[i - 1], Param(language, ps[i]))
  BY <1>1, Iteration
<1> DEFINE S == {i \in Nat : i <= Len(ps) => kept[i] \in Seq(Name)}
<1>3. ASSUME NEW i \in Nat, \A l \in 0..i - 1 : l \in S
      PROVE  i \in S
  <2> SUFFICES ASSUME i <= Len(ps) PROVE kept[i] \in Seq(Name)
    OBVIOUS
  <2>1. CASE i = 0
    BY <2>1, <1>2
  <2>2. CASE i # 0
    <3>1. kept[i - 1] \in Seq(Name)
      BY <2>2, <1>3
    <3>2. Param(language, ps[i]) # Dropped => Param(language, ps[i]) \in Name
      BY <2>2, ParamName
    <3>3. Param(language, ps[i]) # Dropped => Append(kept[i - 1], Param(language, ps[i])) \in Seq(Name)
      BY <3>1, <3>2
    <3>4. kept[i] = IF Param(language, ps[i]) = Dropped THEN kept[i - 1]
                    ELSE Append(kept[i - 1], Param(language, ps[i]))
      BY <2>2, <1>2
    <3> QED BY <3>1, <3>3, <3>4
  <2> QED BY <2>1, <2>2
<1>4. Nat \subseteq S
  <2> HIDE DEF S
  <2> QED BY <1>3, FromBelow
<1> QED BY <1>1, <1>4

LEMMA LanguageKnown ==
  ASSUME grammar \in DOMAIN Grammars
  PROVE  Language \in Languages
<1>1. Grammars[grammar].ext \in DOMAIN DetectLanguage
  BY GrammarsAssumption
<1>2. \A e \in DOMAIN DetectLanguage : DetectLanguage[e] \in Languages
  BY DEF DetectLanguage, Languages
<1> QED BY <1>1, <1>2 DEF Language, LanguageOf

(* The parameters of a node are those of its grammar.                        *)
LEMMA ParamsWritten ==
  ASSUME TreeOK, NEW n \in Nodes
  PROVE  LET ps == tree[n].params IN
         /\ Len(ps) \in Nat /\ DOMAIN ps = 1..Len(ps)
         /\ ps # <<>> => Len(ps) # 0 /\ Head(ps) = ps[1]
         /\ \A i \in 1..Len(ps) : Written(ps[i])
<1>1. grammar \in DOMAIN Grammars
  BY DEF TreeOK
<1>2. tree[n].params \in Seq(Parameter)
  BY NodeTypes DEF Node
<1>3. /\ Len(tree[n].params) \in Nat /\ DOMAIN tree[n].params = 1..Len(tree[n].params)
      /\ tree[n].params # <<>> => Len(tree[n].params) # 0 /\ Head(tree[n].params) = tree[n].params[1]
  BY <1>2
<1>4. \A i \in 1..Len(tree[n].params) : Written(tree[n].params[i])
  <2>1. CASE n = 1
    BY <2>1 DEF TreeOK, Conforms
  <2>2. CASE n # 1
    <3>1. n \in 2..Len(tree)
      BY <2>2, NodeTypes
    <3>2. tree[n].params \in At(n).params /\ tree[n].kind \in DOMAIN Grammars[grammar].kinds
      BY <3>1 DEF TreeOK, Conforms
    <3>3. \A i \in 1..Len(tree[n].params) : tree[n].params[i] \in Parameter
      BY <1>2
    <3> QED BY <3>2, <3>3, <1>1, <1>3, ParametersAssumption DEF At, Written
  <2> QED BY <2>1, <2>2
<1> QED BY <1>3, <1>4

LEMMA SelfIsAName == "self" \in Name
BY DEF Name, NoName, Dropped

LEMMA SignatureType ==
  ASSUME TreeOK, NEW n \in Nodes
  PROVE  Signature(Language, tree[n]) \in Seq(Name)
<1>1. Language \in Languages
  BY LanguageKnown DEF TreeOK
<1>2. \A language \in Languages : Params(language, tree[n].params) \in Seq(Name)
  BY ParamsWritten, ParamsType
<1>3. GoParams(tree[n]) \in Seq(Name)
  <2>1. Params("Go", tree[n].params) \in Seq(Name)
    BY <1>2 DEF Languages
  <2>2. <<"self">> \in Seq(Name) /\ <<>> \in Seq(Name)
    BY SelfIsAName
  <2>3. <<"self">> \o Params("Go", tree[n].params) \in Seq(Name)
        /\ <<>> \o Params("Go", tree[n].params) \in Seq(Name)
    BY <2>1, <2>2
  <2> QED BY <2>3 DEF GoParams
<1> QED BY <1>1, <1>2, <1>3 DEF Signature

(* What an extractor has to say of a node.                                   *)
Says(x, kind, form) ==
  IF kind \in x.only /\ kind \in DOMAIN x.records /\ form \in DOMAIN x.records[kind]
  THEN x.records[kind][form] ELSE <<>>

Most(w) == IF w \in {"functions", "spans"} THEN 1 ELSE 2

(* It is the kinds its table lists for the node, or nothing.                 *)
LEMMA SaysRows ==
  ASSUME NEW x, NEW rows, x.records = rows, NEW kind, NEW form
  PROVE  \/ Says(x, kind, form) = <<>>
         \/ /\ kind \in DOMAIN rows /\ form \in DOMAIN rows[kind]
            /\ Says(x, kind, form) = rows[kind][form]
  BY DEF Says

LEMMA SaysType ==
  ASSUME NEW w \in WalkNames, NEW by \in Staff[w], NEW kind, NEW form
  PROVE  /\ Says(Extractors[by], kind, form) \in Seq(KindsOf[w])
         /\ Len(Says(Extractors[by], kind, form)) \in 0..Most(w)
<1> DEFINE x == Extractors[by]
           most == Most(w)
<1>1. Rows(x.records, KindsOf[w], Most(w))
  <2>1. CASE w \in {"functions", "spans"}
    BY <2>1, DefinerRows DEF Staff, KindsOf, Most
  <2>2. CASE w = "imports"
    BY <2>2, ImporterRows DEF Staff, KindsOf, Most
  <2>3. CASE w = "exports"
    BY <2>3, ExporterRows DEF Staff, KindsOf, Most
  <2> QED BY <2>1, <2>2, <2>3 DEF WalkNames
<1>2. Most(w) \in Nat
  BY DEF Most
<1>3. <<>> \in Seq(KindsOf[w]) /\ Len(<<>>) \in 0..Most(w)
  BY <1>2
<1>4. ASSUME kind \in DOMAIN x.records, form \in DOMAIN x.records[kind]
      PROVE  /\ x.records[kind][form] \in Seq(KindsOf[w])
             /\ Len(x.records[kind][form]) \in 0..Most(w)
  <2> HIDE DEF x
  <2> QED BY <1>4, <1>1 DEF Rows, Row
<1> HIDE DEF x
<1>5. Says(x, kind, form) \in Seq(KindsOf[w]) /\ Len(Says(x, kind, form)) \in 0..Most(w)
  BY <1>3, <1>4 DEF Says
<1> QED BY <1>5 DEF x

(* What it reports of it.                                                    *)
LEMMA EntriesSay ==
  ASSUME TreeOK, NEW w \in WalkNames, NEW by \in Staff[w], NEW n \in Nodes
  PROVE  LET said == Says(Extractors[by], tree[n].kind, tree[n].form)
             E    == Entries(Extractors[by], n)
         IN  /\ Len(E) = Len(said) /\ Len(E) \in 0..Most(w)
             /\ \A i \in 1..Len(E) :
                  /\ E[i].node = n /\ E[i].what = said[i]
                  /\ E[i].params = Signature(Language, tree[n])
             /\ E \in Seq(Entry(KindsOf[w]))
<1> DEFINE said == Says(Extractors[by], tree[n].kind, tree[n].form)
           E == Entries(Extractors[by], n)
           entry(i) == [node |-> n, what |-> said[i], params |-> Signature(Language, tree[n])]
<1>1. E = [i \in 1..Len(said) |-> entry(i)]
  BY DEF Entries, Says
<1>2. said \in Seq(KindsOf[w]) /\ Len(said) \in 0..Most(w) /\ Most(w) \in Nat
  BY SaysType DEF Most
<1>3. Signature(Language, tree[n]) \in Seq(Name) /\ n \in Nat
  BY SignatureType, NodeTypes
<1> HIDE DEF said, E
<1>4. \A i \in 1..Len(said) : entry(i) \in Entry(KindsOf[w])
  BY <1>2, <1>3 DEF Entry
<1>5. \A i \in 1..Len(said) : E[i] = entry(i)
  BY <1>1
<1>7. \A i : /\ entry(i).node = n /\ entry(i).what = said[i]
             /\ entry(i).params = Signature(Language, tree[n])
  OBVIOUS
<1> HIDE DEF entry
<1>6. E \in Seq(Entry(KindsOf[w])) /\ Len(E) = Len(said)
  <2>1. Len(said) \in Nat
    BY <1>2
  <2> QED BY <2>1, <1>1, <1>4
<1>8. \A i \in 1..Len(E) : /\ E[i].node = n /\ E[i].what = said[i]
                           /\ E[i].params = Signature(Language, tree[n])
  BY <1>5, <1>6, <1>7
<1> QED BY <1>2, <1>6, <1>8 DEF E, said

LEMMA EntriesType ==
  ASSUME TreeOK, NEW w \in WalkNames, NEW by \in Staff[w], NEW n \in Nodes
  PROVE  /\ Entries(Extractors[by], n) \in Seq(Entry(KindsOf[w]))
         /\ Len(Entries(Extractors[by], n)) \in Nat
         /\ \A i \in 1..Len(Entries(Extractors[by], n)) : Entries(Extractors[by], n)[i].node = n
<1> DEFINE E == Entries(Extractors[by], n)
<1>1. /\ E \in Seq(Entry(KindsOf[w])) /\ Len(E) \in 0..Most(w)
      /\ \A i \in 1..Len(E) : E[i].node = n
  BY EntriesSay
<1> QED BY <1>1 DEF Most

------------------------------------------------------------------------------
(* Ancestors, and where a walk gets to.                                      *)

LEMMA Parent ==
  ASSUME TreeOK, NEW n \in 2..Len(tree)
  PROVE  /\ tree[n].up \in Nodes /\ tree[n].up < n
         /\ Ancestors(n) = Ancestors(tree[n].up) \cup {tree[n].up}
<1> DEFINE p == tree[n].up
<1>1. Len(tree) \in Nat \ {0} /\ Nodes = 1..Len(tree) /\ \A m \in Nodes : tree[m].up \in Nat
  BY NodeTypes
<1>2. p \in 1..n - 1 /\ \A b \in p + 1..n - 1 : tree[b].up >= p
  BY DEF TreeOK, Nested
<1>3. ASSUME NEW a \in Ancestors(n)
      PROVE  a \in Ancestors(p) \cup {p}
  <2>1. a \in 1..n - 1 /\ \A m \in a + 1..n : tree[m].up >= a
    BY DEF Ancestors
  <2>2. p >= a
    BY <2>1
  <2>3. p # a => a \in 1..p - 1 /\ \A m \in a + 1..p : tree[m].up >= a
    BY <2>1, <2>2, <1>2
  <2> QED BY <2>3 DEF Ancestors
<1>4. ASSUME NEW a \in Ancestors(p)
      PROVE  a \in Ancestors(n)
  <2>1. a \in 1..p - 1 /\ \A m \in a + 1..p : tree[m].up >= a
    BY DEF Ancestors
  <2>2. ASSUME NEW m \in a + 1..n PROVE tree[m].up >= a
    <3>1. CASE m \in a + 1..p
      BY <3>1, <2>1
    <3>2. CASE m \in p + 1..n - 1
      <4>1. tree[m].up >= p /\ tree[m].up \in Nat
        BY <3>2, <1>1, <1>2
      <4> QED BY <4>1, <2>1, <1>2
    <3>3. CASE m = n
      BY <3>3, <2>1, <1>2
    <3> QED BY <3>1, <3>2, <3>3, <2>1, <1>2
  <2> QED BY <2>1, <2>2, <1>2 DEF Ancestors
<1>5. p \in Ancestors(n)
  <2>1. ASSUME NEW m \in p + 1..n PROVE tree[m].up >= p
    BY <1>2
  <2> QED BY <2>1, <1>2 DEF Ancestors
<1> QED BY <1>1, <1>2, <1>3, <1>4, <1>5

(* An ancestor of an ancestor is one.                                        *)
LEMMA AncestorsNest ==
  ASSUME TreeOK, NEW n \in Nodes, NEW k \in Ancestors(n), NEW a \in Ancestors(k)
  PROVE  a \in Ancestors(n)
<1>1. k \in 1..n - 1 /\ \A m \in k + 1..n : tree[m].up >= k
  BY DEF Ancestors
<1>2. a \in 1..k - 1 /\ \A m \in a + 1..k : tree[m].up >= a
  BY DEF Ancestors
<1>3. Len(tree) \in Nat /\ n \in 1..Len(tree) /\ \A m \in 1..Len(tree) : tree[m].up \in Nat
  BY NodeTypes
<1>4. ASSUME NEW m \in a + 1..n PROVE tree[m].up >= a
  <2>1. CASE m \in k + 1..n
    <3>1. tree[m].up >= k /\ tree[m].up \in Nat
      BY <2>1, <1>1, <1>3
    <3> QED BY <3>1, <1>1, <1>2
  <2>2. CASE m \in a + 1..k
    BY <2>2, <1>2
  <2> QED BY <2>1, <2>2, <1>1, <1>2
<1>5. a \in 1..n - 1
  BY <1>1, <1>2, <1>3
<1> QED BY <1>4, <1>5 DEF Ancestors

LEMMA AncestorsAreNodes ==
  ASSUME TreeOK, NEW n \in Nodes, NEW a \in Ancestors(n)
  PROVE  a \in Nodes /\ a < n
<1>1. a \in 1..n - 1 /\ Len(tree) \in Nat /\ Nodes = 1..Len(tree)
  BY NodeTypes DEF Ancestors
<1> QED BY <1>1

(* The root is above every other node.                                       *)
LEMMA RootAbove ==
  ASSUME TreeOK, NEW n \in Nodes, n # 1
  PROVE  1 \in Ancestors(n)
<1>1. Len(tree) \in Nat /\ n \in 2..Len(tree)
  BY NodeTypes
<1>2. \A m \in 2..n : tree[m].up \in 1..m - 1
  BY <1>1 DEF TreeOK, Nested
<1> QED BY <1>1, <1>2 DEF Ancestors

(* From a node down to one below it the way leads through a child.           *)
LEMMA ChildTowards ==
  ASSUME TreeOK, NEW a \in Nodes
  PROVE  \A n \in Nodes : a \in Ancestors(n) =>
           \E i \in 1..Len(tree[a].kids) : tree[a].kids[i] \in Ancestors(n) \cup {n}
<1> DEFINE Way(n) == \E i \in 1..Len(tree[a].kids) : tree[a].kids[i] \in Ancestors(n) \cup {n}
           S == {n \in Nat : n \in Nodes /\ a \in Ancestors(n) => Way(n)}
<1>1. ASSUME NEW n \in Nat, \A m \in 0..n - 1 : m \in S
      PROVE  n \in S
  <2> SUFFICES ASSUME n \in Nodes, a \in Ancestors(n)
               PROVE  Way(n)
    OBVIOUS
  <2>1. n \in 2..Len(tree)
    BY NodeTypes, AncestorsAreNodes
  <2>2. /\ tree[n].up \in Nodes /\ tree[n].up < n
        /\ Ancestors(n) = Ancestors(tree[n].up) \cup {tree[n].up}
    BY <2>1, Parent
  <2>3. CASE tree[n].up = a
    <3>1. PICK i \in 1..Len(tree[a].kids) : tree[a].kids[i] = n
      BY <2>1, <2>3 DEF TreeOK, Adopted
    <3> QED BY <3>1
  <2>4. CASE tree[n].up # a
    <3>1. a \in Ancestors(tree[n].up)
      BY <2>2, <2>4
    <3>2. tree[n].up \in 0..n - 1
      BY <2>2, NodeTypes
    <3>3. Way(tree[n].up)
      BY <3>1, <3>2, <2>2, <1>1
    <3> QED BY <3>3, <2>2
  <2> QED BY <2>3, <2>4
<1>2. Nat \subseteq S
  <2> HIDE DEF S
  <2> QED BY <1>1, FromBelow
<1>3. Nodes \subseteq Nat
  BY NodeTypes
<1> QED BY <1>2, <1>3

(* Which extractor visits a node is settled by the tree: the first has the   *)
(* root, a child goes to the one of its parent, or to the one it turns to,   *)
(* or to none.                                                               *)
Skipped == "skipped"

Follows(f, p) ==
  IF f[p] # Skipped /\ Descends(Extractors[f[p]], p) THEN Turn(f[p], p) ELSE Skipped

Route(f, first) == f[1] = first /\ \A n \in 2..Len(tree) : f[n] = Follows(f, tree[n].up)

LEMMA RouteExists ==
  ASSUME TreeOK, NEW first
  PROVE  \E f : Route(f, first)
<1> DEFINE Up(n) == tree[n].up
           S == {m \in Nat : \E f : /\ f[1] = first
                                    /\ \A n \in 2..m : n \in Nodes => f[n] = Follows(f, Up(n))}
<1>0. \A n \in 2..Len(tree) : Up(n) \in 1..n - 1
  BY DEF TreeOK, Nested
<1>1. Len(tree) \in Nat /\ Nodes = 1..Len(tree)
  BY NodeTypes
<1>2. ASSUME NEW m \in Nat, \A l \in 0..m - 1 : l \in S
      PROVE  m \in S
  <2>1. CASE m <= 1
    <3> DEFINE f == [n \in {1} |-> first]
    <3>1. f[1] = first /\ 2..m = {}
      BY <2>1
    <3> QED BY <3>1
  <2>2. CASE m > 1
    <3>1. m - 1 \in 0..m - 1 /\ m - 1 \in Nat
      BY <2>2
    <3>2. PICK g : g[1] = first /\ \A n \in 2..m - 1 : n \in Nodes => g[n] = Follows(g, Up(n))
      BY <3>1, <1>2
    <3> DEFINE f == [n \in 1..m |-> IF n = m THEN Follows(g, Up(m)) ELSE g[n]]
    <3>3. /\ \A n \in 1..m - 1 : f[n] = g[n]
          /\ f[m] = Follows(g, Up(m))
      BY <2>2
    <3> HIDE DEF f
    <3>4. ASSUME NEW n \in 2..m, n \in Nodes PROVE f[n] = Follows(f, Up(n))
      <4>1. Up(n) \in 1..m - 1
        BY <3>4, <1>0, <1>1
      <4>2. f[Up(n)] = g[Up(n)]
        BY <4>1, <3>3
      <4>3. Follows(f, Up(n)) = Follows(g, Up(n))
        BY <4>2 DEF Follows
      <4>4. f[n] = Follows(g, Up(n))
        <5>1. CASE n = m
          BY <5>1, <3>3
        <5>2. CASE n # m
          BY <5>2, <3>2, <3>3, <3>4
        <5> QED BY <5>1, <5>2
      <4> QED BY <4>3, <4>4
    <3>5. f[1] = first
      BY <2>2, <3>2, <3>3
    <3> QED BY <3>4, <3>5
  <2> QED BY <2>1, <2>2
<1>3. Nat \subseteq S
  <2> HIDE DEF S
  <2> QED BY <1>2, FromBelow
<1>4. PICK f : f[1] = first /\ \A n \in 2..Len(tree) : n \in Nodes => f[n] = Follows(f, Up(n))
  BY <1>1, <1>3
<1>5. Route(f, first)
  BY <1>1, <1>4 DEF Route
<1> QED BY <1>5

(* A route keeps to extractors that hand over to each other.                 *)
LEMMA RouteWithin ==
  ASSUME TreeOK, NEW Team, NEW first \in Team, NEW f, Route(f, first),
         \A by \in Team : \A k \in DOMAIN Extractors[by].turns : Extractors[by].turns[k] \in Team
  PROVE  \A n \in Nodes : f[n] \in Team \cup {Skipped}
<1> DEFINE S == {n \in Nat : n \in Nodes => f[n] \in Team \cup {Skipped}}
<1>1. ASSUME NEW n \in Nat, \A m \in 0..n - 1 : m \in S
      PROVE  n \in S
  <2> SUFFICES ASSUME n \in Nodes PROVE f[n] \in Team \cup {Skipped}
    OBVIOUS
  <2>1. CASE n = 1
    BY <2>1 DEF Route
  <2>2. CASE n # 1
    <3>1. n \in 2..Len(tree)
      BY <2>2, NodeTypes
    <3>2. tree[n].up \in Nodes /\ tree[n].up \in 0..n - 1
      BY <3>1, Parent, NodeTypes
    <3>3. f[tree[n].up] \in Team \cup {Skipped}
      BY <3>2, <1>1
    <3>4. f[n] = Follows(f, tree[n].up)
      BY <3>1 DEF Route
    <3>5. f[tree[n].up] \in Team => Turn(f[tree[n].up], tree[n].up) \in Team
      BY DEF Turn
    <3> QED BY <3>3, <3>4, <3>5 DEF Follows
  <2> QED BY <2>1, <2>2
<1>2. Nat \subseteq S
  <2> HIDE DEF S
  <2> QED BY <1>1, FromBelow
<1> QED BY <1>2, NodeTypes

(* It is one of those of the walk.                                           *)
LEMMA RouteType ==
  ASSUME TreeOK, NEW w \in WalkNames, NEW first \in Staff[w], NEW f, Route(f, first)
  PROVE  \A n \in Nodes : f[n] \in Staff[w] \cup {Skipped}
BY Handover, RouteWithin

(* What is below a node that is skipped, or not descended into, is skipped.  *)
LEMMA SkippedBelow ==
  ASSUME TreeOK, NEW first, NEW f, Route(f, first), NEW a \in Nodes,
         f[a] = Skipped \/ ~ Descends(Extractors[f[a]], a)
  PROVE  \A n \in Nodes : a \in Ancestors(n) => f[n] = Skipped
<1> DEFINE S == {n \in Nat : n \in Nodes /\ a \in Ancestors(n) => f[n] = Skipped}
<1>1. ASSUME NEW n \in Nat, \A m \in 0..n - 1 : m \in S
      PROVE  n \in S
  <2> SUFFICES ASSUME n \in Nodes, a \in Ancestors(n) PROVE f[n] = Skipped
    OBVIOUS
  <2>1. n \in 2..Len(tree)
    BY NodeTypes, AncestorsAreNodes
  <2>2. /\ tree[n].up \in Nodes /\ tree[n].up \in 0..n - 1
        /\ Ancestors(n) = Ancestors(tree[n].up) \cup {tree[n].up}
    BY <2>1, Parent, NodeTypes
  <2>3. f[n] = Follows(f, tree[n].up)
    BY <2>1 DEF Route
  <2>4. CASE tree[n].up = a
    BY <2>3, <2>4 DEF Follows
  <2>5. CASE tree[n].up # a
    <3>1. f[tree[n].up] = Skipped
      BY <2>2, <2>5, <1>1
    <3> QED BY <3>1, <2>3 DEF Follows
  <2> QED BY <2>4, <2>5
<1>2. Nat \subseteq S
  <2> HIDE DEF S
  <2> QED BY <1>1, FromBelow
<1> QED BY <1>2, NodeTypes

------------------------------------------------------------------------------
(* A walk.  T stands for what is left to do, F for what has been recorded,   *)
(* f for the route.                                                          *)

(* The nodes to visit lie beside each other, in document order, each with    *)
(* the extractor that the route gives it.                                    *)
Queue(f, T) ==
  /\ T \in Seq([by : DOMAIN Extractors, node : Nat])
  /\ \A i \in 1..Len(T) :
       /\ T[i].node \in Nodes /\ T[i].by = f[T[i].node]
       /\ \A j \in 1..Len(T) : i < j => T[i].node < T[j].node /\ tree[T[j].node].up < T[i].node

(* The nodes that may still be reached.                                      *)
Pending(T) == {n \in Nodes : \E i \in 1..Len(T) : T[i].node \in Ancestors(n) \cup {n}}

LEMMA QueueStarts ==
  ASSUME TreeOK, NEW first \in DOMAIN Extractors, NEW f, Route(f, first),
         NEW T, T = <<[by |-> first, node |-> 1]>>
  PROVE  Queue(f, T) /\ Pending(T) = Nodes
<1>1. 1 \in Nodes /\ Nodes = 1..Len(tree)
  BY NodeTypes
<1>2. /\ T \in Seq([by : DOMAIN Extractors, node : Nat])
      /\ Len(T) = 1 /\ T[1].node = 1 /\ T[1].by = first
  OBVIOUS
<1>3. Queue(f, T)
  BY <1>1, <1>2 DEF Queue, Route
<1>4. \A n \in Nodes : 1 \in Ancestors(n) \cup {n}
  BY RootAbove
<1> QED BY <1>2, <1>3, <1>4 DEF Pending

(* What is left after a visit: the children, and what was left before.       *)
Onward(by, kids, T) == [i \in 1..Len(kids) |-> [by |-> by, node |-> kids[i]]] \o Tail(T)

(* What Onward(by, kids, T) holds: the children, then the rest of the queue,   *)
(* each at its place.                                                         *)
OnwardIs(any, by, kids, T) ==
  LET U == Onward(by, kids, T) IN
  /\ Len(kids) \in Nat /\ Len(T) \in Nat \ {0} /\ Head(T) = T[1]
  /\ Len(U) = Len(kids) + Len(T) - 1
  /\ \A i \in 1..Len(kids) : U[i] = [by |-> by, node |-> kids[i]]
  /\ \A j \in 2..Len(T) : U[Len(kids) + j - 1] = T[j]
  /\ \A i \in 1..Len(U) : i \in 1..Len(kids) \/ \E j \in 2..Len(T) : i = Len(kids) + j - 1
  /\ (\A i \in 1..Len(kids) : [by |-> by, node |-> kids[i]] \in any) => U \in Seq(any)

LEMMA OnwardParts ==
  ASSUME NEW any, NEW T \in Seq(any), T # <<>>, NEW by, NEW kids \in Seq(Nat)
  PROVE  OnwardIs(any, by, kids, T)
<1> DEFINE K == [i \in 1..Len(kids) |-> [by |-> by, node |-> kids[i]]]
           R == Tail(T)
           U == Onward(by, kids, T)
           all == {K[i] : i \in 1..Len(kids)} \cup any
<1>1. Len(kids) \in Nat /\ Len(T) \in Nat \ {0} /\ Head(T) = T[1]
  OBVIOUS
<1>2. /\ R \in Seq(any) /\ Len(R) = Len(T) - 1
      /\ \A i \in 1..Len(R) : R[i] = T[i + 1]
  BY <1>1
<1>3. K \in Seq(all) /\ Len(K) = Len(kids)
  BY <1>1
<1>4. \A i \in 1..Len(kids) : K[i] = [by |-> by, node |-> kids[i]]
  OBVIOUS
<1>5. R \in Seq(all)
  BY <1>2
<1>6. U = K \o R
  BY DEF Onward
<1> HIDE DEF K, R, all, U
<1>7. /\ Len(U) = Len(K) + Len(R)
      /\ \A i \in 1..Len(U) : U[i] = IF i <= Len(K) THEN K[i] ELSE R[i - Len(K)]
  <2>1. /\ Len(K \o R) = Len(K) + Len(R)
        /\ \A i \in 1..Len(K) + Len(R) : (K \o R)[i] = IF i <= Len(K) THEN K[i] ELSE R[i - Len(K)]
    BY <1>3, <1>5, ConcatProperties
  <2> QED BY <2>1, <1>6
<1>8. ASSUME NEW j \in 2..Len(T)
      PROVE  U[Len(kids) + j - 1] = T[j]
  <2>1. /\ Len(kids) + j - 1 \in 1..Len(U) /\ ~ (Len(kids) + j - 1 <= Len(K))
        /\ (Len(kids) + j - 1) - Len(K) = j - 1 /\ j - 1 \in 1..Len(R) /\ (j - 1) + 1 = j
    BY <1>1, <1>2, <1>3, <1>7
  <2> QED BY <2>1, <1>2, <1>7
<1>9. ASSUME NEW i \in 1..Len(U), i \notin 1..Len(kids)
      PROVE  \E j \in 2..Len(T) : i = Len(kids) + j - 1
  <2>1. i - Len(kids) + 1 \in 2..Len(T) /\ i = Len(kids) + (i - Len(kids) + 1) - 1
    BY <1>1, <1>2, <1>3, <1>7, <1>9
  <2> QED BY <2>1
<1>10. \A i \in 1..Len(kids) : U[i] = [by |-> by, node |-> kids[i]]
  <2>1. \A i \in 1..Len(kids) : i \in 1..Len(U) /\ i <= Len(K)
    BY <1>1, <1>2, <1>3, <1>7
  <2> QED BY <2>1, <1>4, <1>7
<1>11. Len(U) = Len(kids) + Len(T) - 1
  BY <1>1, <1>2, <1>3, <1>7
<1>12. ASSUME \A i \in 1..Len(kids) : [by |-> by, node |-> kids[i]] \in any
       PROVE  U \in Seq(any)
  <2>1. K \in Seq(any)
    BY <1>1, <1>12 DEF K
  <2> QED BY <2>1, <1>2, <1>6
<1>13. OnwardIs(any, by, kids, T)
  <2> USE DEF U
  <2> QED BY <1>1, <1>8, <1>9, <1>10, <1>11, <1>12 DEF OnwardIs
<1> QED BY <1>13

LEMMA SkippedOutside ==
  ASSUME NEW w \in WalkNames
  PROVE  Skipped \notin Staff[w]
<1>1. Skipped \notin DOMAIN Extractors
  BY DEF Skipped, Extractors
<1> QED BY <1>1, Handover

(* The children that a visit goes on to, and what is left after it.          *)
Children(T) ==
  IF Descends(Extractors[T[1].by], T[1].node) THEN tree[T[1].node].kids ELSE <<>>

After(T) == Onward(Turn(T[1].by, T[1].node), Children(T), T)

(* A visit keeps the queue in order, and takes its node out of it; the other *)
(* nodes it takes out are skipped.                                           *)
LEMMA QueueMoves ==
  ASSUME TreeOK, NEW w \in WalkNames, NEW first \in Staff[w], NEW f, Route(f, first),
         NEW T, Queue(f, T), T # <<>>
  PROVE  /\ T[1].node \in Nodes /\ T[1].by = f[T[1].node] /\ T[1].by \in Staff[w]
         /\ Queue(f, After(T))
         /\ \A i \in 1..Len(After(T)) : T[1].node < After(T)[i].node
         /\ T[1].node \in Pending(T) /\ T[1].node \notin Pending(After(T))
         /\ Pending(After(T)) \subseteq Pending(T)
         /\ \A m \in Pending(T) \ Pending(After(T)) : m # T[1].node => f[m] = Skipped
<1> DEFINE n == T[1].node
           by == T[1].by
           kids == Children(T)
           U == After(T)
           any == [by : DOMAIN Extractors, node : Nat]
<1>1. /\ Nodes = 1..Len(tree) /\ Len(tree) \in Nat \ {0}
      /\ \A m \in Nodes : tree[m].up \in Nat /\ tree[m].kids \in Seq(Nat)
  BY NodeTypes
<1>2. T \in Seq(any) /\ Len(T) \in Nat \ {0} /\ 1 \in 1..Len(T) /\ T[1].by \in DOMAIN Extractors
  <2>1. T \in Seq(any)
    BY DEF Queue
  <2>2. Len(T) \in Nat \ {0} /\ T[1] \in any
    <3> HIDE DEF any
    <3> QED BY <2>1
  <2> QED BY <2>1, <2>2
<1>3. \A i \in 1..Len(T) :
        /\ T[i].node \in Nodes /\ T[i].by = f[T[i].node]
        /\ \A j \in 1..Len(T) : i < j => T[i].node < T[j].node /\ tree[T[j].node].up < T[i].node
  BY DEF Queue
<1>4. n \in Nodes /\ by = f[n] /\ by \in Staff[w]
  <2>1. n \in Nodes /\ by = f[n] /\ by \in DOMAIN Extractors
    <3> HIDE DEF any
    <3> QED BY <1>2, <1>3
  <2>2. f[n] \in Staff[w] \cup {Skipped}
    BY <2>1, RouteType
  <2> QED BY <2>1, <2>2 DEF Skipped, Extractors
<1> HIDE DEF n, by
<1>5. kids \in Seq(Nat) /\ Len(kids) \in Nat
      /\ \A i \in 1..Len(kids) : Descends(Extractors[by], n) /\ kids[i] = tree[n].kids[i]
                                 /\ i \in 1..Len(tree[n].kids)
  <2>1. tree[n].kids \in Seq(Nat)
    BY <1>1, <1>4
  <2>0. kids = IF Descends(Extractors[by], n) THEN tree[n].kids ELSE <<>>
    BY DEF Children, by, n
  <2> HIDE DEF kids
  <2>2. CASE Descends(Extractors[by], n)
    BY <2>0, <2>1, <2>2
  <2>3. CASE ~ Descends(Extractors[by], n)
    BY <2>0, <2>3
  <2> QED BY <2>2, <2>3
<1> HIDE DEF kids
<1>6. \A i \in 1..Len(kids) :
        /\ kids[i] \in n + 1..Len(tree) /\ tree[kids[i]].up = n
        /\ \A j \in 1..i - 1 : kids[j] < kids[i]
  <2> SUFFICES ASSUME NEW i \in 1..Len(kids)
               PROVE  /\ kids[i] \in n + 1..Len(tree) /\ tree[kids[i]].up = n
                      /\ \A j \in 1..i - 1 : kids[j] < kids[i]
    OBVIOUS
  <2>1. /\ tree[n].kids[i] \in n + 1..Len(tree) /\ tree[tree[n].kids[i]].up = n
        /\ \A j \in 1..i - 1 : tree[n].kids[j] < tree[n].kids[i]
    BY <1>4, <1>5 DEF TreeOK, Siblings
  <2>2. \A j \in 1..i - 1 : j \in 1..Len(kids)
    BY <1>5
  <2> QED BY <2>1, <2>2, <1>5
<1>7. /\ Len(U) = Len(kids) + Len(T) - 1
      /\ \A i \in 1..Len(kids) : U[i] = [by |-> Turn(by, n), node |-> kids[i]]
      /\ \A j \in 2..Len(T) : U[Len(kids) + j - 1] = T[j]
      /\ \A i \in 1..Len(U) : i \in 1..Len(kids) \/ \E j \in 2..Len(T) : i = Len(kids) + j - 1
      /\ (\A i \in 1..Len(kids) : [by |-> Turn(by, n), node |-> kids[i]] \in any) => U \in Seq(any)
  <2> DEFINE t == Turn(by, n)
  <2>1. U = Onward(t, kids, T)
    BY DEF After, kids, by, n
  <2> HIDE DEF any, U, t
  <2>2. T \in Seq(any) /\ kids \in Seq(Nat)
    BY <1>2, <1>5
  <2>3. OnwardIs(any, t, kids, T)
    BY <2>2, OnwardParts
  <2> QED BY <2>1, <2>3 DEF t, OnwardIs
<1>8. \A i \in 1..Len(kids) : kids[i] \in Nodes /\ f[kids[i]] = Turn(by, n) /\ Turn(by, n) \in Staff[w]
  <2> SUFFICES ASSUME NEW i \in 1..Len(kids)
               PROVE  kids[i] \in Nodes /\ f[kids[i]] = Turn(by, n) /\ Turn(by, n) \in Staff[w]
    OBVIOUS
  <2>1. kids[i] \in n + 1..Len(tree) /\ tree[kids[i]].up = n
    BY <1>6
  <2>2. kids[i] \in 2..Len(tree) /\ kids[i] \in Nodes
    <3>1. n \in 1..Len(tree)
      BY <1>1, <1>4
    <3> QED BY <2>1, <3>1, <1>1
  <2>3. f[kids[i]] = Follows(f, n)
    BY <2>1, <2>2 DEF Route
  <2>4. f[n] # Skipped /\ Descends(Extractors[f[n]], n)
    BY <1>4, <1>5, SkippedOutside
  <2>5. f[kids[i]] = Turn(by, n)
    BY <2>3, <2>4, <1>4 DEF Follows
  <2>6. Turn(by, n) \in Staff[w]
    BY <1>4, Handover DEF Turn
  <2> QED BY <2>2, <2>5, <2>6
<1> HIDE DEF U, any
<1>k. \A i \in 1..Len(kids) : U[i].node = kids[i] /\ U[i].by = Turn(by, n)
  <2> SUFFICES ASSUME NEW i \in 1..Len(kids) PROVE U[i].node = kids[i] /\ U[i].by = Turn(by, n)
    OBVIOUS
  <2>1. U[i] = [by |-> Turn(by, n), node |-> kids[i]]
    BY <1>7
  <2> QED BY <2>1
<1>t. \A j \in 2..Len(T) :
        /\ T[j].node \in Nodes /\ T[j].by = f[T[j].node] /\ T[j].by \in DOMAIN Extractors
        /\ n < T[j].node /\ tree[T[j].node].up < n
  <2>1. \A j \in 2..Len(T) : T[j] \in any /\ j \in 1..Len(T)
    BY <1>2
  <2> QED BY <2>1, <1>2, <1>3 DEF n, any
(* The child comes before what was left: that hangs off no descendant.       *)
<1>9. \A i \in 1..Len(kids), j \in 2..Len(T) : kids[i] < T[j].node /\ tree[T[j].node].up < kids[i]
  <2> SUFFICES ASSUME NEW i \in 1..Len(kids), NEW j \in 2..Len(T)
               PROVE  kids[i] < T[j].node /\ tree[T[j].node].up < kids[i]
    OBVIOUS
  <2> DEFINE m == kids[i]
             t == T[j].node
  <2>1. m \in n + 1..Len(tree) /\ tree[m].up = n /\ m \in 2..Len(tree)
    BY <1>1, <1>4, <1>6
  <2>2. t \in Nodes /\ n < t /\ tree[t].up < n /\ tree[t].up \in Nat
    BY <1>1, <1>t
  <2>3. \A b \in n + 1..m - 1 : tree[b].up >= n
    BY <2>1 DEF TreeOK, Nested
  <2> HIDE DEF m, t
  <2>4. t \in Nat /\ m \in Nat /\ n \in Nat
    BY <1>1, <1>4, <2>1, <2>2
  <2>5. ~ (t <= m)
    BY <2>1, <2>2, <2>3, <2>4
  <2>6. m < t /\ tree[t].up < m
    BY <2>1, <2>2, <2>4, <2>5
  <2> QED BY <2>6 DEF m, t
<1>10. Queue(f, U)
  <2>1. U \in Seq(any)
    <3>1. \A i \in 1..Len(kids) : [by |-> Turn(by, n), node |-> kids[i]] \in any
      <4>1. \A i \in 1..Len(kids) : Turn(by, n) \in DOMAIN Extractors /\ kids[i] \in Nat
        BY <1>1, <1>8, Handover
      <4> QED BY <4>1 DEF any
    <3> QED BY <3>1, <1>7
  <2>2. ASSUME NEW i \in 1..Len(U)
        PROVE  U[i].node \in Nodes /\ U[i].by = f[U[i].node] /\ n < U[i].node
    <3>1. CASE i \in 1..Len(kids)
      <4>1. n < kids[i]
        BY <3>1, <1>6, <1>1, <1>4
      <4> QED BY <3>1, <4>1, <1>k, <1>8
    <3>2. CASE i \notin 1..Len(kids)
      <4>1. PICK j \in 2..Len(T) : i = Len(kids) + j - 1
        BY <3>2, <1>7
      <4>2. U[i] = T[j]
        BY <4>1, <1>7
      <4> QED BY <4>2, <1>t
    <3> QED BY <3>1, <3>2
  <2>3. ASSUME NEW i \in 1..Len(U), NEW j \in 1..Len(U), i < j
        PROVE  U[i].node < U[j].node /\ tree[U[j].node].up < U[i].node
    <3>1. CASE i \in 1..Len(kids) /\ j \in 1..Len(kids)
      <4>1. kids[i] < kids[j] /\ tree[kids[j]].up = n /\ n < kids[i]
        BY <3>1, <2>3, <1>1, <1>4, <1>5, <1>6
      <4> QED BY <3>1, <4>1, <1>k
    <3>2. CASE i \in 1..Len(kids) /\ j \notin 1..Len(kids)
      <4>1. PICK k \in 2..Len(T) : j = Len(kids) + k - 1
        BY <3>2, <1>7
      <4>2. U[j] = T[k] /\ U[i].node = kids[i]
        BY <3>2, <4>1, <1>7, <1>k
      <4> QED BY <3>2, <4>2, <1>9
    <3>3. CASE i \notin 1..Len(kids) /\ j \notin 1..Len(kids)
      <4>1. PICK k \in 2..Len(T) : i = Len(kids) + k - 1
        BY <3>3, <1>7
      <4>2. PICK l \in 2..Len(T) : j = Len(kids) + l - 1
        BY <3>3, <1>7
      <4>3. U[i] = T[k] /\ U[j] = T[l]
        BY <4>1, <4>2, <1>7
      <4>4. k \in 1..Len(T) /\ l \in 1..Len(T) /\ k < l
        BY <4>1, <4>2, <2>3, <1>5, <1>2
      <4> QED BY <4>3, <4>4, <1>3
    <3>4. ~ (i \notin 1..Len(kids) /\ j \in 1..Len(kids))
      BY <2>3, <1>5, <1>7
    <3> QED BY <3>1, <3>2, <3>3, <3>4
  <2> QED BY <2>1, <2>2, <2>3 DEF Queue, any
<1>11. \A i \in 1..Len(U) : n < U[i].node
  <2> SUFFICES ASSUME NEW i \in 1..Len(U) PROVE n < U[i].node
    OBVIOUS
  <2>1. CASE i \in 1..Len(kids)
    <3>1. n < kids[i]
      BY <2>1, <1>6, <1>1, <1>4
    <3> QED BY <2>1, <3>1, <1>k
  <2>2. CASE i \notin 1..Len(kids)
    <3>1. PICK j \in 2..Len(T) : i = Len(kids) + j - 1
      BY <2>2, <1>7
    <3> QED BY <3>1, <1>7, <1>t
  <2> QED BY <2>1, <2>2
<1>12. n \in Pending(T) /\ n \notin Pending(U)
  <2>1. n \in Pending(T)
    BY <1>2, <1>4 DEF Pending, n
  <2>2. \A i \in 1..Len(U) : U[i].node \notin Ancestors(n) \cup {n}
    <3>1. \A a \in Ancestors(n) \cup {n} : ~ (n < a)
      BY <1>1, <1>4, AncestorsAreNodes
    <3> QED BY <3>1, <1>11
  <2> QED BY <2>1, <2>2 DEF Pending
<1>13. ASSUME NEW m \in Pending(U)
       PROVE  m \in Pending(T)
  <2>1. PICK i \in 1..Len(U) : U[i].node \in Ancestors(m) \cup {m}
    BY DEF Pending
  <2>2. m \in Nodes
    BY DEF Pending
  <2>3. CASE i \in 1..Len(kids)
    <3>1. kids[i] \in Ancestors(m) \cup {m} /\ kids[i] \in 2..Len(tree) /\ tree[kids[i]].up = n
      BY <2>1, <2>3, <1>1, <1>4, <1>6, <1>k
    <3>2. n \in Ancestors(kids[i])
      BY <3>1, Parent
    <3>3. n \in Ancestors(m)
      BY <3>1, <3>2, <2>2, AncestorsNest
    <3> QED BY <3>3, <2>2, <1>2 DEF Pending, n
  <2>4. CASE i \notin 1..Len(kids)
    <3>1. PICK j \in 2..Len(T) : i = Len(kids) + j - 1
      BY <2>4, <1>7
    <3>2. U[i] = T[j] /\ j \in 1..Len(T)
      BY <3>1, <1>2, <1>7
    <3> QED BY <3>2, <2>1, <2>2 DEF Pending
  <2> QED BY <2>3, <2>4
<1>14. ASSUME NEW m \in Pending(T), m \notin Pending(U), m # n
       PROVE  f[m] = Skipped
  <2>1. PICK i \in 1..Len(T) : T[i].node \in Ancestors(m) \cup {m}
    BY DEF Pending
  <2>2. m \in Nodes /\ \A l \in 1..Len(U) : U[l].node \notin Ancestors(m) \cup {m}
    BY <1>14 DEF Pending
  <2>3. i = 1
    <3> SUFFICES ASSUME i # 1 PROVE FALSE
      OBVIOUS
    <3>1. i \in 2..Len(T)
      BY <1>2
    <3>2. Len(kids) + i - 1 \in 1..Len(U) /\ U[Len(kids) + i - 1] = T[i]
      BY <3>1, <1>2, <1>5, <1>7
    <3> QED BY <3>2, <2>1, <2>2
  <2>4. n \in Ancestors(m)
    BY <2>1, <2>3, <1>14 DEF n
  <2>5. CASE Descends(Extractors[by], n)
    <3>1. kids = tree[n].kids
      BY <2>5 DEF kids, Children, by, n
    <3>2. PICK l \in 1..Len(kids) : kids[l] \in Ancestors(m) \cup {m}
      BY <3>1, <2>2, <2>4, <1>4, ChildTowards
    <3>3. l \in 1..Len(U) /\ U[l].node = kids[l]
      BY <3>2, <1>2, <1>5, <1>7, <1>k
    <3> QED BY <3>2, <3>3, <2>2
  <2>6. CASE ~ Descends(Extractors[by], n)
    BY <2>2, <2>4, <2>6, <1>4, SkippedBelow
  <2> QED BY <2>5, <2>6
<1> QED BY <1>4, <1>10, <1>11, <1>12, <1>13, <1>14 DEF n, by, U

(* Where a record has the entries of a node: in a row, and nowhere else.     *)
Positions(F, n) == {i \in 1..Len(F) : F[i].node = n}

Block(F, entries, n) ==
  \E b \in 0..Len(F) : /\ Positions(F, n) = b + 1..b + Len(entries)
                       /\ \A i \in 1..Len(entries) : F[b + i] = entries[i]

LEMMA BlockStays ==
  ASSUME NEW S, NEW F \in Seq(S), NEW E \in Seq(S), NEW n, NEW entries, Len(entries) \in Nat,
         Block(F, entries, n), \A i \in 1..Len(E) : E[i].node # n
  PROVE  Block(F \o E, entries, n)
<1> DEFINE G == F \o E
<1>1. Len(F) \in Nat /\ Len(E) \in Nat
  OBVIOUS
<1>2. /\ Len(G) = Len(F) + Len(E)
      /\ \A i \in 1..Len(F) + Len(E) : G[i] = IF i <= Len(F) THEN F[i] ELSE E[i - Len(F)]
  BY ConcatProperties
<1>3. PICK b \in 0..Len(F) : /\ Positions(F, n) = b + 1..b + Len(entries)
                             /\ \A i \in 1..Len(entries) : F[b + i] = entries[i]
  BY DEF Block
<1> HIDE DEF G
<1>4. ASSUME NEW i \in 1..Len(G), i \notin 1..Len(F)
      PROVE  G[i].node # n
  <2>1. i - Len(F) \in 1..Len(E) /\ ~ (i <= Len(F))
    BY <1>1, <1>2, <1>4
  <2> QED BY <2>1, <1>2
<1>5. \A i \in 1..Len(F) : i \in 1..Len(G) /\ G[i] = F[i]
  BY <1>1, <1>2
<1>6. Positions(G, n) = Positions(F, n)
  BY <1>4, <1>5 DEF Positions
<1>7. \A i \in 1..Len(entries) : b + i \in 1..Len(F)
  <2>1. \A i \in 1..Len(entries) : b + i \in b + 1..b + Len(entries)
    BY <1>3
  <2> QED BY <2>1, <1>3 DEF Positions
<1>8. b \in 0..Len(G)
  BY <1>1, <1>2
<1> QED BY <1>3, <1>5, <1>6, <1>7, <1>8 DEF Block, G

LEMMA BlockAdded ==
  ASSUME NEW S, NEW F \in Seq(S), NEW E \in Seq(S), NEW n,
         Positions(F, n) = {}, \A i \in 1..Len(E) : E[i].node = n
  PROVE  Block(F \o E, E, n)
<1> DEFINE G == F \o E
           b == Len(F)
<1>1. b \in Nat /\ Len(E) \in Nat
  OBVIOUS
<1>2. /\ Len(G) = b + Len(E)
      /\ \A i \in 1..b + Len(E) : G[i] = IF i <= b THEN F[i] ELSE E[i - b]
  BY ConcatProperties
<1>3. \A i \in 1..b : F[i].node # n
  BY DEF Positions
<1> HIDE DEF G, b
<1>4. \A i \in 1..Len(E) : b + i \in 1..Len(G) /\ G[b + i] = E[i]
  <2> SUFFICES ASSUME NEW i \in 1..Len(E) PROVE b + i \in 1..Len(G) /\ G[b + i] = E[i]
    OBVIOUS
  <2>1. b + i \in 1..b + Len(E) /\ ~ (b + i <= b) /\ (b + i) - b = i
    BY <1>1
  <2> QED BY <2>1, <1>2
<1>5. ASSUME NEW i \in 1..Len(G)
      PROVE  G[i].node = n <=> i \in b + 1..b + Len(E)
  <2>1. CASE i <= b
    <3>1. i \in 1..b /\ i \in 1..b + Len(E) /\ G[i] = F[i]
      BY <2>1, <1>1, <1>2
    <3> QED BY <3>1, <2>1, <1>1, <1>3
  <2>2. CASE ~ (i <= b)
    <3>1. i - b \in 1..Len(E) /\ i = b + (i - b) /\ i \in b + 1..b + Len(E)
      BY <2>2, <1>1, <1>2
    <3> QED BY <3>1, <1>4
  <2> QED BY <2>1, <2>2
<1>6. Positions(G, n) = b + 1..b + Len(E)
  <2>1. \A i \in b + 1..b + Len(E) : i \in 1..Len(G)
    BY <1>1, <1>2
  <2> QED BY <2>1, <1>5 DEF Positions
<1>7. b \in 0..Len(G)
  BY <1>1, <1>2
<1> QED BY <1>4, <1>6, <1>7 DEF Block, G

(* What the record holds of a node when T is left to do.                     *)
Expected(f, T, n) ==
  IF f[n] = Skipped \/ n \in Pending(T) THEN <<>> ELSE Entries(Extractors[f[n]], n)

Record(w, F, f, T) ==
  /\ F \in Seq(Entry(KindsOf[w]))
  /\ \A i \in 1..Len(F) :
       /\ F[i].node \in Nodes
       /\ \A j \in 1..Len(F) : i < j => F[i].node <= F[j].node
       /\ \A j \in 1..Len(T) : F[i].node < T[j].node
  /\ \A n \in Nodes : Block(F, Expected(f, T, n), n)

LEMMA RecordStarts ==
  ASSUME TreeOK, NEW w, NEW f, NEW T, Pending(T) = Nodes
  PROVE  Record(w, <<>>, f, T)
<1>1. \A n \in Nodes : Expected(f, T, n) = <<>>
  BY DEF Expected
<1>2. \A n \in Nodes : Block(<<>>, <<>>, n)
  BY DEF Block, Positions
<1> QED BY <1>1, <1>2 DEF Record

(* A visit puts the entries of its node behind those recorded before.        *)
LEMMA RecordGrows ==
  ASSUME TreeOK, NEW w \in WalkNames, NEW first \in Staff[w], NEW f, Route(f, first),
         NEW T, Queue(f, T), T # <<>>, NEW F, Record(w, F, f, T)
  PROVE  Record(w, F \o Entries(Extractors[T[1].by], T[1].node), f, After(T))
<1> DEFINE n == T[1].node
           E == Entries(Extractors[T[1].by], n)
           U == After(T)
           G == F \o E
           S == Entry(KindsOf[w])
<1>1. /\ n \in Nodes /\ T[1].by = f[n] /\ T[1].by \in Staff[w]
      /\ \A i \in 1..Len(U) : n < U[i].node
      /\ n \in Pending(T) /\ n \notin Pending(U)
      /\ Pending(U) \subseteq Pending(T)
      /\ \A m \in Pending(T) \ Pending(U) : m # n => f[m] = Skipped
  BY QueueMoves
<1>2. E \in Seq(S) /\ \A i \in 1..Len(E) : E[i].node = n
  BY <1>1, EntriesType
<1>3. f[n] # Skipped
  BY <1>1, SkippedOutside
<1>4. Nodes = 1..Len(tree) /\ Len(tree) \in Nat /\ n \in Nat
  BY <1>1, NodeTypes
<1>5. F \in Seq(S) /\ Len(F) \in Nat /\ Len(E) \in Nat /\ 1 \in 1..Len(T)
  BY <1>2 DEF Record, Queue
<1>6. \A i \in 1..Len(F) :
        /\ F[i].node \in Nodes /\ F[i].node < n
        /\ \A j \in 1..Len(F) : i < j => F[i].node <= F[j].node
  BY <1>5 DEF Record
<1>7. \A m \in Nodes : Block(F, Expected(f, T, m), m)
  BY DEF Record
<1>8. Expected(f, U, n) = E
  BY <1>1, <1>3 DEF Expected
<1>9. \A m \in Nodes : m # n => Expected(f, U, m) = Expected(f, T, m)
  BY <1>1 DEF Expected
<1> HIDE DEF n, E, U, S
<1>10. ASSUME NEW m \in Nodes, m # n
       PROVE  Block(G, Expected(f, U, m), m)
  <2>1. Len(Expected(f, T, m)) \in Nat
    <3>1. CASE f[m] = Skipped \/ m \in Pending(T)
      BY <3>1 DEF Expected
    <3>2. CASE ~ (f[m] = Skipped \/ m \in Pending(T))
      <4>1. f[m] \in Staff[w]
        BY <3>2, RouteType
      <4>2. Len(Entries(Extractors[f[m]], m)) \in Nat
        BY <4>1, EntriesType
      <4> QED BY <3>2, <4>2 DEF Expected
    <3> QED BY <3>1, <3>2
  <2>2. \A i \in 1..Len(E) : E[i].node # m
    BY <1>2, <1>10
  <2>3. Block(G, Expected(f, T, m), m)
    BY <2>1, <2>2, <1>2, <1>5, <1>7, BlockStays
  <2> QED BY <2>3, <1>9, <1>10
<1>11. Block(G, E, n)
  <2>1. Positions(F, n) = {}
    BY <1>4, <1>6 DEF Positions
  <2> QED BY <2>1, <1>2, <1>5, BlockAdded
<1>12. /\ G \in Seq(S) /\ Len(G) = Len(F) + Len(E)
       /\ \A i \in 1..Len(F) + Len(E) : G[i] = IF i <= Len(F) THEN F[i] ELSE E[i - Len(F)]
  BY <1>2, <1>5, ConcatProperties
<1> HIDE DEF G
<1>13. \A i \in 1..Len(F) : i \in 1..Len(G) /\ G[i] = F[i]
  BY <1>5, <1>12
<1>14. \A i \in 1..Len(G) : i \notin 1..Len(F) => G[i].node = n
  <2> SUFFICES ASSUME NEW i \in 1..Len(G), i \notin 1..Len(F) PROVE G[i].node = n
    OBVIOUS
  <2>1. i - Len(F) \in 1..Len(E) /\ ~ (i <= Len(F))
    BY <1>5, <1>12
  <2> QED BY <2>1, <1>2, <1>12
<1>15. ASSUME NEW i \in 1..Len(G)
       PROVE  /\ G[i].node \in Nodes /\ G[i].node <= n
              /\ \A j \in 1..Len(G) : i < j => G[i].node <= G[j].node
              /\ \A j \in 1..Len(U) : G[i].node < U[j].node
  <2>1. \A j \in 1..Len(G) : G[j].node \in Nodes /\ G[j].node <= n
    BY <1>1, <1>4, <1>6, <1>13, <1>14
  <2>2. ASSUME NEW j \in 1..Len(G), i < j
        PROVE  G[i].node <= G[j].node
    <3>1. CASE j \in 1..Len(F)
      <4>1. i \in 1..Len(F)
        BY <3>1, <2>2, <1>5
      <4> QED BY <3>1, <4>1, <2>2, <1>6, <1>13
    <3>2. CASE j \notin 1..Len(F)
      BY <3>2, <2>1, <1>14
    <3> QED BY <3>1, <3>2
  <2>3. ASSUME NEW j \in 1..Len(U)
        PROVE  G[i].node < U[j].node
    <3>1. Queue(f, U)
      BY QueueMoves DEF U
    <3>2. U[j].node \in Nodes
      BY <3>1 DEF Queue
    <3> QED BY <3>2, <2>1, <1>1, <1>4
  <2> QED BY <2>1, <2>2, <2>3
<1>16. \A m \in Nodes : Block(G, Expected(f, U, m), m)
  BY <1>8, <1>10, <1>11
<1>17. Record(w, G, f, U)
  BY <1>12, <1>15, <1>16 DEF Record, S
<1> QED BY <1>17 DEF G, E, n, U

------------------------------------------------------------------------------
(* The invariant: each walk has a route, and has recorded on it what is not  *)
(* left to do.                                                               *)

Left(i) == IF i = walk THEN todo ELSE <<>>

Walked(w, F, T) ==
  \E f : Route(f, FirstExtractor[w][Language]) /\ Queue(f, T) /\ Record(w, F, f, T)

WalksOK ==
  /\ walk \in 0..Len(Walks)
  /\ walk = 0 => todo = <<>>
  /\ found = [w \in WalkNames |-> found[w]]
  /\ \A i \in 1..walk : Walked(Walks[i], found[Walks[i]], Left(i))
  /\ \A i \in walk + 1..Len(Walks) : found[Walks[i]] = <<>>

IInv == TreeOK /\ WalksOK

LEMMA WalksList ==
  /\ Len(Walks) = 4
  /\ \A i \in 1..4 : Walks[i] \in WalkNames /\ \A j \in 1..4 : Walks[i] = Walks[j] => i = j
  /\ DOMAIN FirstExtractor = WalkNames
  /\ Walks[1] = "functions" /\ Walks[2] = "spans" /\ Walks[3] = "imports" /\ Walks[4] = "exports"
BY DEF Walks, WalkNames, FirstExtractor

(* What depends on the tree alone stays while the tree does.                 *)
LEMMA Same ==
  ASSUME UNCHANGED <<grammar, tree>>
  PROVE  /\ TreeOK' <=> TreeOK
         /\ Nodes' = Nodes /\ Language' = Language
         /\ \A n : Ancestors(n)' = Ancestors(n)
         /\ \A x, n : Entries(x, n)' = Entries(x, n)
         /\ \A x, n : Descends(x, n)' = Descends(x, n)
         /\ \A by, n : Turn(by, n)' = Turn(by, n)
<1>1. Nodes' = Nodes /\ Language' = Language
  BY DEF Nodes, Language, LanguageOf
<1>2. \A n : Ancestors(n)' = Ancestors(n)
  BY DEF Ancestors
<1>3. \A x, n : Entries(x, n)' = Entries(x, n)
  BY <1>1 DEF Entries
<1>4. \A x, n : Descends(x, n)' = Descends(x, n)
  BY <1>3 DEF Descends
<1>5. \A by, n : Turn(by, n)' = Turn(by, n)
  BY DEF Turn
<1>6. TreeOK' <=> TreeOK
  BY <1>1 DEF TreeOK, Nested, Siblings, Adopted, Conforms, At
<1> QED BY <1>1, <1>2, <1>3, <1>4, <1>5, <1>6

LEMMA SameWalk ==
  ASSUME UNCHANGED <<grammar, tree>>, NEW w, NEW F, NEW T
  PROVE  Walked(w, F, T)' <=> Walked(w, F, T)
<1>1. /\ Nodes' = Nodes /\ Language' = Language
      /\ \A n : Ancestors(n)' = Ancestors(n)
      /\ \A x, n : Entries(x, n)' = Entries(x, n)
      /\ \A x, n : Descends(x, n)' = Descends(x, n)
      /\ \A by, n : Turn(by, n)' = Turn(by, n)
  BY Same
<1>2. \A f, first : Route(f, first)' = Route(f, first)
  <2>1. \A f, n : Follows(f, n)' = Follows(f, n)
    BY <1>1 DEF Follows
  <2>2. \A f, n : Follows(f, tree[n].up)' = Follows(f, tree[n].up)
    BY <2>1
  <2> QED BY <2>1, <2>2 DEF Route
<1>3. \A f : Queue(f, T)' = Queue(f, T)
  BY <1>1 DEF Queue
<1>4. \A f : Record(w, F, f, T)' = Record(w, F, f, T)
  <2>1. Pending(T)' = Pending(T)
    BY <1>1 DEF Pending
  <2>2. \A f, n : Expected(f, T, n)' = Expected(f, T, n)
    BY <1>1, <2>1 DEF Expected
  <2> SUFFICES ASSUME NEW f PROVE Record(w, F, f, T)' = Record(w, F, f, T)
    OBVIOUS
  <2>3. ASSUME NEW n
        PROVE  Block(F, Expected(f, T, n), n)' = Block(F, Expected(f, T, n), n)
    <3>1. Expected(f, T, n)' = Expected(f, T, n)
      BY <2>2
    <3> QED BY <3>1 DEF Block
  <2> HIDE DEF Block
  <2> QED BY <1>1, <2>3 DEF Record
<1> QED BY <1>1, <1>2, <1>3, <1>4 DEF Walked

LEMMA Starts == Init => IInv
<1> SUFFICES ASSUME Init PROVE IInv
  OBVIOUS
<1>1. walk = 0 /\ todo = <<>> /\ found = [w \in DOMAIN FirstExtractor |-> <<>>]
  BY DEF Init
<1>2. WalksOK
  BY <1>1, WalksList DEF WalksOK
<1> QED BY <1>2, TreeStarts DEF IInv

LEMMA GrowKeeps ==
  ASSUME IInv, Grow
  PROVE  IInv'
<1>1. TreeOK'
  BY TreeGrows DEF IInv
<1>2. walk = 0 /\ walk' = 0 /\ todo' = todo /\ found' = found
  BY DEF Grow
<1>3. WalksOK'
  BY <1>2 DEF IInv, WalksOK
<1> QED BY <1>1, <1>3 DEF IInv

LEMMA BeginKeeps ==
  ASSUME IInv, Begin
  PROVE  IInv'
<1>1. /\ todo = <<>> /\ walk \in 0..3 /\ walk' = walk + 1
      /\ todo' = <<[by |-> FirstExtractor[Walks[walk + 1]][Language], node |-> 1]>>
      /\ UNCHANGED <<grammar, tree, found>>
  BY WalksList DEF Begin, IInv, WalksOK, Root
<1>2. TreeOK /\ grammar \in DOMAIN Grammars
  BY DEF IInv, TreeOK
<1>3. TreeOK'
  BY <1>1, <1>2, Same
<1> DEFINE w == Walks[walk + 1]
           first == FirstExtractor[w][Language]
<1>4. w \in WalkNames /\ first \in Staff[w] /\ first \in DOMAIN Extractors
  <2>1. w \in WalkNames /\ Language \in Languages
    BY <1>1, <1>2, WalksList, LanguageKnown
  <2>2. first \in Staff[w]
    BY <2>1, FirstOfStaff
  <2> QED BY <2>1, <2>2, Handover
<1>5. found[w] = <<>>
  BY <1>1, WalksList DEF IInv, WalksOK
<1>6. PICK f : Route(f, first)
  BY <1>2, RouteExists
<1>7. Walked(w, found'[w], todo')
  <2> DEFINE T == <<[by |-> first, node |-> 1]>>
  <2>1. T = <<[by |-> first, node |-> 1]>>
    OBVIOUS
  <2>2. todo' = T
    BY <1>1
  <2> HIDE DEF T, first
  <2>3. Queue(f, T) /\ Pending(T) = Nodes
    BY <2>1, <1>2, <1>4, <1>6, QueueStarts
  <2>4. Record(w, <<>>, f, T)
    BY <2>3, <1>2, RecordStarts
  <2>5. found'[w] = <<>>
    BY <1>1, <1>5
  <2> QED BY <2>2, <2>3, <2>4, <2>5, <1>6 DEF Walked, first
<1>8. \A i \in 1..walk : Walked(Walks[i], found'[Walks[i]], <<>>)
  BY <1>1 DEF IInv, WalksOK, Left
<1>9. \A i \in 1..walk + 1 : Walked(Walks[i], found[Walks[i]], Left(i))'
  <2> SUFFICES ASSUME NEW i \in 1..walk + 1
               PROVE  Walked(Walks[i], found[Walks[i]], Left(i))'
    OBVIOUS
  <2>1. Walked(Walks[i], found'[Walks[i]], Left(i)')
    <3>1. CASE i = walk + 1
      <4>1. Left(i)' = todo'
        BY <3>1, <1>1 DEF Left
      <4> QED BY <4>1, <3>1, <1>7
    <3>2. CASE i \in 1..walk
      <4>1. Left(i)' = <<>>
        BY <3>2, <1>1 DEF Left
      <4> QED BY <4>1, <3>2, <1>8
    <3> QED BY <3>1, <3>2, <1>1
  <2> QED BY <2>1, <1>1, SameWalk
<1>10. WalksOK'
  <2>1. \A i \in walk' + 1..4 : found'[Walks[i]] = <<>>
    BY <1>1, WalksList DEF IInv, WalksOK
  <2>2. walk' \in 0..4 /\ walk' # 0 /\ found' = [v \in WalkNames |-> found'[v]]
    BY <1>1 DEF IInv, WalksOK
  <2> QED BY <2>1, <2>2, <1>1, <1>9, WalksList DEF WalksOK
<1> QED BY <1>3, <1>10 DEF IInv

LEMMA VisitKeeps ==
  ASSUME IInv, Visit
  PROVE  IInv'
<1>1. /\ todo # <<>> /\ UNCHANGED <<grammar, tree, walk>>
      /\ walk \in 1..4 /\ DOMAIN found = WalkNames
  <2>1. todo # <<>> /\ UNCHANGED <<grammar, tree, walk>>
    BY DEF Visit
  <2> QED BY <2>1, WalksList DEF IInv, WalksOK
<1> DEFINE w == Walks[walk]
<1>2. TreeOK /\ grammar \in DOMAIN Grammars /\ TreeOK'
  BY <1>1, Same DEF IInv, TreeOK
<1>3. w \in WalkNames
  BY <1>1, WalksList
<1>4. PICK f : /\ Route(f, FirstExtractor[w][Language]) /\ Queue(f, todo)
               /\ Record(w, found[w], f, todo)
  <2>1. Walked(w, found[w], todo)
    BY <1>1 DEF IInv, WalksOK, Left
  <2> QED BY <2>1 DEF Walked
<1>5. FirstExtractor[w][Language] \in Staff[w]
  BY <1>2, <1>3, FirstOfStaff, LanguageKnown
<1>6. Head(todo) = todo[1]
  BY <1>1, <1>4 DEF Queue
<1>7. /\ todo' = After(todo)
      /\ found' = [found EXCEPT ![w] = @ \o Entries(Extractors[todo[1].by], todo[1].node)]
  <2>1. Children(todo) =
          IF Descends(Extractors[todo[1].by], todo[1].node) THEN tree[todo[1].node].kids ELSE <<>>
    BY DEF Children
  <2>2. todo' = After(todo)
    BY <1>6, <2>1 DEF Visit, After, Onward
  <2> QED BY <1>6, <2>2 DEF Visit
<1>8. Walked(w, found'[w], todo')
  <2>1. Queue(f, After(todo))
    BY <1>1, <1>2, <1>3, <1>4, <1>5, QueueMoves
  <2>2. Record(w, found[w] \o Entries(Extractors[todo[1].by], todo[1].node), f, After(todo))
    BY <1>1, <1>2, <1>3, <1>4, <1>5, RecordGrows
  <2>3. found'[w] = found[w] \o Entries(Extractors[todo[1].by], todo[1].node)
    BY <1>1, <1>3, <1>7
  <2> QED BY <2>1, <2>2, <2>3, <1>4, <1>7 DEF Walked
<1>9. \A i \in 1..4 : i # walk => found'[Walks[i]] = found[Walks[i]]
  BY <1>1, <1>7, WalksList
<1>10. \A i \in 1..walk : Walked(Walks[i], found[Walks[i]], Left(i))'
  <2> SUFFICES ASSUME NEW i \in 1..walk
               PROVE  Walked(Walks[i], found[Walks[i]], Left(i))'
    BY <1>1
  <2>1. Walked(Walks[i], found'[Walks[i]], Left(i)')
    <3>1. CASE i = walk
      <4>1. Left(i)' = todo'
        BY <3>1, <1>1 DEF Left
      <4> QED BY <4>1, <3>1, <1>8
    <3>2. CASE i # walk
      <4>1. Left(i)' = Left(i) /\ found'[Walks[i]] = found[Walks[i]]
        BY <3>2, <1>1, <1>9 DEF Left
      <4> QED BY <4>1 DEF IInv, WalksOK
    <3> QED BY <3>1, <3>2
  <2> QED BY <2>1, <1>1, SameWalk
<1>11. WalksOK'
  <2>1. \A i \in walk + 1..4 : found'[Walks[i]] = <<>>
    BY <1>1, <1>9, WalksList DEF IInv, WalksOK
  <2>2. found' = [v \in WalkNames |-> found'[v]]
    BY <1>1, <1>7 DEF IInv, WalksOK
  <2> QED BY <2>1, <2>2, <1>1, <1>10, WalksList DEF WalksOK
<1> QED BY <1>2, <1>11 DEF IInv

(* The tree is one of its grammar, and every walk follows a route.           *)
THEOREM Invariant == Spec => []IInv
<1>1. Init => IInv
  BY Starts
<1>2. IInv /\ [Next]_vars => IInv'
  <2> SUFFICES ASSUME IInv, [Next]_vars PROVE IInv'
    OBVIOUS
  <2>1. CASE Grow
    BY <2>1, GrowKeeps
  <2>2. CASE Begin
    BY <2>2, BeginKeeps
  <2>3. CASE Visit
    BY <2>3, VisitKeeps
  <2>4. CASE UNCHANGED vars
    <3>1. UNCHANGED <<grammar, tree, walk, todo, found>>
      BY <2>4 DEF vars
    <3>2. TreeOK'
      BY <3>1, Same DEF IInv
    <3>3. \A i \in 1..walk : Walked(Walks[i], found[Walks[i]], Left(i))'
      <4> SUFFICES ASSUME NEW i \in 1..walk
                   PROVE  Walked(Walks[i], found[Walks[i]], Left(i))'
        OBVIOUS
      <4>1. Left(i)' = Left(i) /\ found'[Walks[i]] = found[Walks[i]]
        BY <3>1 DEF Left
      <4>2. Walked(Walks[i], found'[Walks[i]], Left(i)')
        BY <4>1 DEF IInv, WalksOK
      <4> QED BY <4>2, <3>1, SameWalk
    <3>4. WalksOK'
      BY <3>1, <3>3 DEF IInv, WalksOK
    <3> QED BY <3>2, <3>4 DEF IInv
  <2> QED BY <2>1, <2>2, <2>3, <2>4 DEF Next
<1> QED BY <1>1, <1>2, PTL DEF Spec

------------------------------------------------------------------------------
(* What follows from the invariant.                                          *)

(* A walk that has begun has a route, and one that is done nothing left.     *)
LEMMA Recording ==
  ASSUME IInv, NEW w \in WalkNames
  PROVE  \/ found[w] = <<>> /\ ~ Done(w)
         \/ \E f, T : /\ Route(f, FirstExtractor[w][Language]) /\ Record(w, found[w], f, T)
                      /\ Done(w) => T = <<>>
<1>1. walk \in 0..4
  BY WalksList DEF IInv, WalksOK
<1>2. PICK i \in 1..4 : Walks[i] = w
  BY WalksList DEF WalkNames
<1>3. CASE i \in 1..walk
  <2>1. Done(w) => Left(i) = <<>>
    BY DEF Done, Left
  <2>2. Walked(w, found[w], Left(i))
    BY <1>2, <1>3 DEF IInv, WalksOK
  <2> QED BY <2>1, <2>2 DEF Walked
<1>4. CASE i \notin 1..walk
  <2>1. found[w] = <<>>
    BY <1>1, <1>2, <1>4, WalksList DEF IInv, WalksOK
  <2>2. \A j \in 1..walk : Walks[j] # w
    BY <1>1, <1>2, <1>4, WalksList
  <2> QED BY <2>1, <2>2 DEF Done
<1> QED BY <1>3, <1>4

(* The types of the state: what a parser keeps of a parameter is a name, and *)
(* every walk reports its own kinds of entries.                              *)
THEOREM TypeCorrect == Spec => []TypeOK
<1>1. ASSUME IInv PROVE TypeOK
  <2>1. grammar \in DOMAIN Grammars /\ tree \in Seq(Node) /\ tree # <<>> /\ walk \in 0..Len(Walks)
    BY <1>1 DEF IInv, TreeOK, WalksOK
  <2>2. todo \in Seq([by : DOMAIN Extractors, node : Nodes])
    <3>1. CASE walk = 0
      BY <1>1, <3>1 DEF IInv, WalksOK
    <3>2. CASE walk # 0
      <4>1. walk \in 1..walk /\ Left(walk) = todo
        BY <2>1, <3>2, WalksList DEF Left
      <4>2. PICK f : Queue(f, todo)
        BY <1>1, <4>1 DEF IInv, WalksOK, Walked
      <4> DEFINE any == [by : DOMAIN Extractors, node : Nat]
                 some == [by : DOMAIN Extractors, node : Nodes]
      <4>3. todo \in Seq(any) /\ \A i \in 1..Len(todo) : todo[i].node \in Nodes
        BY <4>2 DEF Queue
      <4>4. \A x \in any : x.node \in Nodes => x \in some
        OBVIOUS
      <4>5. todo \in Seq(some)
        <5> HIDE DEF any, some
        <5>1. \A i \in 1..Len(todo) : todo[i] \in any
          BY <4>3
        <5>2. \A i \in 1..Len(todo) : todo[i] \in some
          BY <4>3, <4>4, <5>1
        <5> QED BY <4>3, <5>2
      <4> QED BY <4>5
    <3> QED BY <3>1, <3>2
  <2>3. found \in ParseResult
    <3>1. \A w \in WalkNames : found[w] \in Seq(Entry(KindsOf[w]))
      <4> SUFFICES ASSUME NEW w \in WalkNames PROVE found[w] \in Seq(Entry(KindsOf[w]))
        OBVIOUS
      <4>1. CASE found[w] = <<>>
        BY <4>1
      <4>2. CASE found[w] # <<>>
        <5>1. PICK f, T : Record(w, found[w], f, T)
          BY <1>1, <4>2, Recording
        <5> QED BY <5>1 DEF Record
      <4> QED BY <4>1, <4>2
    <3>2. found = [w \in WalkNames |-> found[w]]
      BY <1>1 DEF IInv, WalksOK
    <3> QED BY <3>1, <3>2 DEF ParseResult, WalkNames, KindsOf
  <2> QED BY <2>1, <2>2, <2>3 DEF TypeOK
<1> QED BY <1>1, Invariant, PTL

(* A definition is reported once, after those that precede it: of two        *)
(* symbols that share lines, the chunker meets the outer one first.          *)
THEOREM DefinitionsInDocumentOrder == Spec => []DocumentOrder
<1>1. ASSUME IInv PROVE DocumentOrder
  <2> SUFFICES ASSUME NEW w \in {"functions", "spans"},
                      NEW i \in 1..Len(found[w]), NEW j \in 1..Len(found[w]), i < j
               PROVE  found[w][i].node < found[w][j].node
    BY DEF DocumentOrder
  <2>1. w \in WalkNames /\ TreeOK
    BY <1>1 DEF WalkNames, IInv
  <2>2. found[w] # <<>>
    OBVIOUS
  <2>3. PICK f, T : Route(f, FirstExtractor[w][Language]) /\ Record(w, found[w], f, T)
    BY <1>1, <2>1, <2>2, Recording
  <2> DEFINE n == found[w][i].node
  <2>4. n \in Nodes /\ found[w][j].node \in Nodes /\ n <= found[w][j].node
    BY <2>3 DEF Record
  <2>5. ASSUME found[w][j].node = n PROVE FALSE
    <3>1. Len(Expected(f, T, n)) \in 0..1
      <4>1. f[n] \in Staff[w] \cup {Skipped}
        BY <2>1, <2>3, <2>4, RouteType, FirstOfStaff, LanguageKnown DEF TreeOK
      <4>2. CASE f[n] \in Staff[w]
        <5>1. Len(Entries(Extractors[f[n]], n)) \in 0..1
          BY <2>1, <2>4, <4>2, EntriesSay DEF Most
        <5> QED BY <5>1 DEF Expected
      <4>3. CASE f[n] = Skipped
        BY <4>3 DEF Expected
      <4> QED BY <4>1, <4>2, <4>3
    <3>2. PICK b \in 0..Len(found[w]) : Positions(found[w], n) = b + 1..b + Len(Expected(f, T, n))
      BY <2>3, <2>4 DEF Record, Block
    <3>3. i \in Positions(found[w], n) /\ j \in Positions(found[w], n)
      BY <2>5 DEF Positions
    <3> DEFINE most == Len(Expected(f, T, n))
    <3>4. i \in b + 1..b + most /\ j \in b + 1..b + most /\ most \in 0..1
      BY <3>1, <3>2, <3>3
    <3> HIDE DEF most
    <3> QED BY <3>4
  <2> QED BY <2>1, <2>4, <2>5, NodeTypes
<1> QED BY <1>1, Invariant, PTL

------------------------------------------------------------------------------
(* A walk that is done.                                                      *)

(* It has recorded what the extractors of its route say, and nothing else.   *)
LEMMA Finished ==
  ASSUME IInv, NEW w \in WalkNames, Done(w)
  PROVE  \E f : /\ Route(f, FirstExtractor[w][Language])
                /\ \A n \in Nodes : f[n] \in Staff[w] \cup {Skipped}
                /\ \A n \in Nodes : f[n] = Skipped => Positions(found[w], n) = {}
                /\ \A n \in Nodes : f[n] # Skipped => Block(found[w], Entries(Extractors[f[n]], n), n)
                /\ \A i \in 1..Len(found[w]) : found[w][i].node \in Nodes
                /\ Record(w, found[w], f, <<>>)
<1>1. PICK f : Route(f, FirstExtractor[w][Language]) /\ Record(w, found[w], f, <<>>)
  BY Recording
<1>2. TreeOK /\ FirstExtractor[w][Language] \in Staff[w]
  BY FirstOfStaff, LanguageKnown DEF IInv, TreeOK
<1>3. \A n \in Nodes : f[n] \in Staff[w] \cup {Skipped}
  BY <1>1, <1>2, RouteType
<1>4. Pending(<<>>) = {}
  BY DEF Pending
<1>5. ASSUME NEW n \in Nodes, f[n] = Skipped
      PROVE  Positions(found[w], n) = {}
  <2>1. Block(found[w], <<>>, n)
    BY <1>1, <1>5 DEF Record, Expected
  <2>2. PICK b \in 0..Len(found[w]) : Positions(found[w], n) = b + 1..b + Len(<<>>)
    BY <2>1 DEF Block
  <2>3. Len(found[w]) \in Nat
    BY <1>1 DEF Record
  <2> QED BY <2>2, <2>3
<1>6. \A n \in Nodes : f[n] # Skipped => Block(found[w], Entries(Extractors[f[n]], n), n)
  BY <1>1, <1>4 DEF Record, Expected
<1> QED BY <1>1, <1>3, <1>5, <1>6 DEF Record

(* The walk comes by a node, or by one above it that hides it.               *)
LEMMA Hidden ==
  ASSUME TreeOK, NEW w \in WalkNames, NEW first \in Staff[w], NEW f, Route(f, first)
  PROVE  \A n \in Nodes : f[n] = Skipped =>
           \E a \in Ancestors(n) : f[a] # Skipped /\ ~ Descends(Extractors[f[a]], a)
<1> DEFINE By(n) == \E a \in Ancestors(n) : f[a] # Skipped /\ ~ Descends(Extractors[f[a]], a)
           S == {n \in Nat : n \in Nodes /\ f[n] = Skipped => By(n)}
<1>1. ASSUME NEW n \in Nat, \A m \in 0..n - 1 : m \in S
      PROVE  n \in S
  <2> SUFFICES ASSUME n \in Nodes, f[n] = Skipped PROVE By(n)
    OBVIOUS
  <2>1. n # 1
    BY SkippedOutside DEF Route
  <2>2. n \in 2..Len(tree)
    BY <2>1, NodeTypes
  <2>3. /\ tree[n].up \in Nodes /\ tree[n].up \in 0..n - 1
        /\ Ancestors(n) = Ancestors(tree[n].up) \cup {tree[n].up}
    BY <2>2, Parent, NodeTypes
  <2>4. f[n] = Follows(f, tree[n].up)
    BY <2>2 DEF Route
  <2>5. CASE f[tree[n].up] = Skipped
    <3>1. By(tree[n].up)
      BY <2>3, <2>5, <1>1
    <3> QED BY <3>1, <2>3
  <2>6. CASE f[tree[n].up] # Skipped /\ ~ Descends(Extractors[f[tree[n].up]], tree[n].up)
    BY <2>3, <2>6
  <2>7. CASE f[tree[n].up] # Skipped /\ Descends(Extractors[f[tree[n].up]], tree[n].up)
    <3>1. f[n] = Turn(f[tree[n].up], tree[n].up)
      BY <2>4, <2>7 DEF Follows
    <3>2. f[tree[n].up] \in Staff[w]
      BY <2>3, <2>7, RouteType
    <3>3. Turn(f[tree[n].up], tree[n].up) \in Staff[w]
      BY <3>2, Handover DEF Turn
    <3> QED BY <3>1, <3>3, SkippedOutside
  <2> QED BY <2>5, <2>6, <2>7
<1>2. Nat \subseteq S
  <2> HIDE DEF S
  <2> QED BY <1>1, FromBelow
<1> QED BY <1>2, NodeTypes

LEMMA SaysSomething ==
  ASSUME TreeOK, NEW w \in WalkNames, NEW by \in Staff[w], NEW n \in Nodes
  PROVE  Entries(Extractors[by], n) # <<>> <=> Says(Extractors[by], tree[n].kind, tree[n].form) # <<>>
<1> DEFINE E == Entries(Extractors[by], n)
           said == Says(Extractors[by], tree[n].kind, tree[n].form)
<1>1. E \in Seq(Entry(KindsOf[w])) /\ said \in Seq(KindsOf[w]) /\ Len(E) = Len(said)
  BY EntriesSay, SaysType
<1> HIDE DEF E, said
<1>2. E # <<>> <=> said # <<>>
  BY <1>1
<1> QED BY <1>2 DEF E, said

(* A walk reports a node when the extractor that it gets to says something.  *)
LEMMA ReportedWhen ==
  ASSUME TreeOK, NEW w \in WalkNames, NEW n \in Nodes, NEW by \in Staff[w],
         Block(found[w], Entries(Extractors[by], n), n),
         Entries(Extractors[by], n) # <<>>
  PROVE  n \in Reported(w)
<1> DEFINE E == Entries(Extractors[by], n)
<1>1. Len(E) \in Nat \ {0}
  <2>1. E \in Seq(Entry(KindsOf[w]))
    BY EntriesType
  <2> HIDE DEF E
  <2>2. E # <<>>
    BY DEF E
  <2> QED BY <2>1, <2>2
<1> HIDE DEF E
<1>2. PICK b \in 0..Len(found[w]) : Positions(found[w], n) = b + 1..b + Len(E)
  BY DEF Block, E
<1>3. b + 1 \in Positions(found[w], n)
  BY <1>1, <1>2
<1>4. b + 1 \in 1..Len(found[w]) /\ found[w][b + 1].node = n
  BY <1>3 DEF Positions
<1> QED BY <1>4 DEF Reported, EntrySet

------------------------------------------------------------------------------
(* Imports.                                                                  *)

(* The row of a table for a kind, with no form if it has none.               *)
RowOf(x, k) == IF k \in DOMAIN x.records THEN x.records[k] ELSE <<>>

(* A row gives as many entries for each form as it brings modules in, but    *)
(* none for those that are not read.                                         *)
Counted(row, brings, unread) ==
  \A form \in DOMAIN brings :
    IF form \in DOMAIN row
    THEN /\ form \notin unread
         /\ \E a, b \in ImportKind : \/ row[form] = <<a>> /\ brings[form] = 1
                                     \/ row[form] = <<a, b>> /\ brings[form] = 2
    ELSE form \in unread \/ brings[form] = 0

(* So do the rows of a table, and it does not look inside an import only     *)
(* where it has recorded it, or there is nothing.                            *)
ImportTable(x, brings, unread) ==
  /\ x.only = Kinds
  /\ \A k \in DOMAIN brings : Counted(RowOf(x, k), brings[k], unread)
  /\ \A k \in x.closed :
       /\ k \in DOMAIN brings
       /\ \/ k \in {"import_statement", "use_declaration"}
          \/ \A form \in DOMAIN brings[k] : brings[k][form] # 0 /\ form \notin unread

LEMMA TypescriptImportTable ==
  ImportTable(TypescriptImports, Brings["TypeScript"], Unread["TypeScript"])
<1> DEFINE clause == Merge(TypescriptImportClause, [bare |-> <<"SideEffect">>])
           records == [import_statement |-> clause, call_expression |-> TypescriptRequire]
           unread == {"import_require", "dynamic"}
<1>1. /\ TypescriptImports.records = records
      /\ TypescriptImports.only = Kinds /\ TypescriptImports.closed = {"import_statement"}
  BY DEF TypescriptImports, Extractor, LeavesRecorded
<1>2. Counted(clause, [default |-> 1, default_namespace |-> 1, namespace |-> 1, default_named |-> 1,
                       named |-> 1, empty |-> 1, bare |-> 1, import_require |-> 1], unread)
  BY DEF Counted, Merge, TypescriptImportClause, ImportKind
<1>3. Counted(TypescriptRequire, [require |-> 1, dynamic |-> 1, other |-> 0], unread)
  BY DEF Counted, TypescriptRequire, ImportKind
<1>4. /\ RowOf(TypescriptImports, "import_statement") = clause
      /\ RowOf(TypescriptImports, "call_expression") = TypescriptRequire
  <2> HIDE DEF clause
  <2> QED BY <1>1 DEF RowOf
<1> HIDE DEF clause
<1> QED BY <1>1, <1>2, <1>3, <1>4 DEF ImportTable, Brings, Unread

LEMMA RustImportTable == ImportTable(RustImports, Brings["Rust"], Unread["Rust"])
<1> DEFINE records == [use_declaration |-> RustUse, mod_item |-> RustMod]
           unread == {"group", "pub_group", "glob", "renamed", "extern"}
<1>1. /\ RustImports.records = records
      /\ RustImports.only = Kinds /\ RustImports.closed = {"use_declaration", "mod_item"}
  BY DEF RustImports, Extractor
<1>2. /\ RowOf(RustImports, "use_declaration") = RustUse /\ RowOf(RustImports, "mod_item") = RustMod
      /\ RowOf(RustImports, "extern_crate_declaration") = <<>>
  BY <1>1 DEF RowOf
<1>3. Counted(RustUse, [path |-> 1, pub_path |-> 1, group |-> 2, pub_group |-> 2, glob |-> 1,
                        renamed |-> 1], unread)
  BY DEF Counted, RustUse, ImportKind
<1>4. Counted(RustMod, [named |-> 1], unread) /\ Counted(<<>>, [extern |-> 1], unread)
  BY DEF Counted, RustMod, ImportKind
<1> QED BY <1>1, <1>2, <1>3, <1>4 DEF ImportTable, Brings, Unread

LEMMA PythonImportTable == ImportTable(PythonImports, Brings["Python"], Unread["Python"])
BY DEF ImportTable, RowOf, Counted, PythonImports, Brings, Unread, Extractor, ImportKind

LEMMA GoJavaImportTables ==
  /\ ImportTable(GoImports, Brings["Go"], Unread["Go"])
  /\ ImportTable(JavaImports, Brings["Java"], Unread["Java"])
BY DEF ImportTable, RowOf, Counted, GoImports, JavaImports, Brings, Unread, Extractor, ImportKind

LEMMA BashRubyImportTables ==
  /\ ImportTable(BashImports, Brings["Bash"], Unread["Bash"])
  /\ ImportTable(RubyImports, Brings["Ruby"], Unread["Ruby"])
BY DEF ImportTable, RowOf, Counted, BashImports, RubyImports, Brings, Unread, Extractor, ImportKind

LEMMA CImportTables ==
  /\ ImportTable(CImports, Brings["C"], Unread["C"])
  /\ ImportTable(CppImports, Brings["Cpp"], Unread["Cpp"])
BY DEF ImportTable, RowOf, Counted, CImports, CppImports, Brings, Unread, Extractor, ImportKind

LEMMA ImportTables ==
  ASSUME NEW language \in Languages
  PROVE  ImportTable(Extractors[ParseSourceImports[language]], Brings[language], Unread[language])
BY TypescriptImportTable, RustImportTable, PythonImportTable, GoJavaImportTables,
   BashRubyImportTables, CImportTables DEF Languages, Extractors, ParseSourceImports

LEMMA CountedLength ==
  ASSUME NEW row, NEW brings, NEW unread, Counted(row, brings, unread), NEW form \in DOMAIN brings
  PROVE  /\ form \in DOMAIN row => /\ form \notin unread
                                   /\ Len(row[form]) = brings[form] /\ brings[form] \in {1, 2}
         /\ form \notin DOMAIN row => form \in unread \/ brings[form] = 0
<1>1. CASE form \in DOMAIN row
  <2>1. PICK a \in ImportKind, b \in ImportKind :
          \/ row[form] = <<a>> /\ brings[form] = 1
          \/ row[form] = <<a, b>> /\ brings[form] = 2
    BY <1>1 DEF Counted
  <2> DEFINE one == <<a>>
             two == <<a, b>>
  <2>2. Len(one) = 1 /\ Len(two) = 2
    OBVIOUS
  <2>3. (row[form] = one /\ brings[form] = 1) \/ (row[form] = two /\ brings[form] = 2)
    BY <2>1
  <2>4. form \notin unread
    BY <1>1 DEF Counted
  <2> HIDE DEF one, two
  <2> QED BY <1>1, <2>2, <2>3, <2>4
<1>2. CASE form \notin DOMAIN row
  BY <1>2 DEF Counted
<1> QED BY <1>1, <1>2

(* What a node brings in is what is reported of it.                          *)
LEMMA ImportCounted ==
  ASSUME TreeOK, NEW n \in Nodes, tree[n].kind \in DOMAIN Brings[Language]
  PROVE  LET by == ParseSourceImports[Language]
             brings == Brings[Language][tree[n].kind]
         IN  /\ n \in 2..Len(tree)
             /\ tree[n].form \in DOMAIN brings
             /\ Len(Entries(Extractors[by], n)) =
                  IF tree[n].form \in Unread[Language] THEN 0 ELSE brings[tree[n].form]
<1> DEFINE k == tree[n].kind
           x == Extractors[ParseSourceImports[Language]]
           brings == Brings[Language][k]
           reads == IF tree[n].form \in Unread[Language] THEN 0 ELSE brings[tree[n].form]
<1>1. Language \in Languages /\ grammar \in DOMAIN Grammars
  BY LanguageKnown DEF TreeOK
<1>2. n # 1
  <2>1. \A l \in Languages : "program" \notin DOMAIN Brings[l]
    BY DEF Languages, Brings
  <2>2. tree[1].kind = "program"
    BY DEF TreeOK, Conforms
  <2> QED BY <2>1, <2>2, <1>1
<1>3. n \in 2..Len(tree)
  BY <1>2, NodeTypes
<1>4. tree[n].form \in DOMAIN brings
  <2>1. k \in DOMAIN Grammars[grammar].kinds /\ tree[n].form \in Grammars[grammar].kinds[k].forms
    BY <1>3 DEF TreeOK, Conforms, At
  <2> QED BY <2>1, <1>1, ImportsAssumption DEF Language
<1>5. x.only = Kinds /\ Counted(RowOf(x, k), brings, Unread[Language])
  BY <1>1, ImportTables DEF ImportTable
<1>6. k \in Kinds
  BY NodeTypes DEF Node
<1>7. Len(Says(x, k, tree[n].form)) = reads
  <2> HIDE DEF x, k, brings
  <2>1. CASE tree[n].form \in DOMAIN RowOf(x, k)
    <3>0. k \in DOMAIN x.records
      BY <2>1 DEF RowOf
    <3>1. Says(x, k, tree[n].form) = RowOf(x, k)[tree[n].form]
      BY <2>1, <3>0, <1>5, <1>6 DEF Says, RowOf
    <3> QED BY <3>1, <2>1, <1>4, <1>5, CountedLength
  <2>2. CASE tree[n].form \notin DOMAIN RowOf(x, k)
    <3>1. Says(x, k, tree[n].form) = <<>>
      BY <2>2 DEF Says, RowOf
    <3> QED BY <3>1, <2>2, <1>4, <1>5, CountedLength
  <2> QED BY <2>1, <2>2
<1>8. ParseSourceImports[Language] \in Importers /\ "imports" \in WalkNames
  BY <1>1 DEF Languages, ParseSourceImports, Importers, WalkNames
<1>9. Len(Entries(x, n)) = Len(Says(x, k, tree[n].form))
  BY <1>8, EntriesSay DEF Staff
<1> QED BY <1>3, <1>4, <1>7, <1>9

(* An import in a form that is read is recorded as many times as it brings   *)
(* modules in, at one place of the record; what hides one is another that    *)
(* was recorded.  In a form that is not read it is never recorded.           *)
THEOREM ImportsRecordedOnce == Spec => []ImportsOnce
<1>1. ASSUME IInv PROVE ImportsOnce
  <2> SUFFICES ASSUME Done("imports"), NEW n \in Nodes, tree[n].kind \in DOMAIN Brings[Language]
               PROVE  IF tree[n].form \in Unread[Language]
                      THEN RecordedAt("imports", n) = {}
                      ELSE \/ /\ RecordedAt("imports", n) = {}
                              /\ Ancestors(n) \cap Reported("imports") # {}
                           \/ \E i \in 0..Len(found.imports) :
                                RecordedAt("imports", n)
                                  = i + 1 .. i + Brings[Language][tree[n].kind][tree[n].form]
    BY DEF ImportsOnce
  <2> DEFINE w == "imports"
             first == ParseSourceImports[Language]
             x == Extractors[first]
  <2>1. TreeOK /\ Language \in Languages /\ w \in WalkNames
    BY <1>1, LanguageKnown DEF IInv, TreeOK, WalkNames
  <2>2. first = FirstExtractor[w][Language] /\ first \in Staff[w] /\ first \in Importers
    BY <2>1, FirstOfStaff DEF FirstExtractor, Staff
  <2>3. PICK f : /\ Route(f, first)
                 /\ \A m \in Nodes : f[m] \in Staff[w] \cup {Skipped}
                 /\ \A m \in Nodes : f[m] = Skipped => Positions(found[w], m) = {}
                 /\ \A m \in Nodes : f[m] # Skipped => Block(found[w], Entries(Extractors[f[m]], m), m)
    BY <1>1, <2>1, <2>2, Finished
  <2>4. \A m \in Nodes : RecordedAt(w, m) = Positions(found[w], m)
    BY DEF RecordedAt, Positions
  <2>5. \A m \in Nodes : f[m] \in {first, Skipped}
    <3> DEFINE S == {m \in Nat : m \in Nodes => f[m] \in {first, Skipped}}
    <3>1. ASSUME NEW m \in Nat, \A l \in 0..m - 1 : l \in S
          PROVE  m \in S
      <4> SUFFICES ASSUME m \in Nodes PROVE f[m] \in {first, Skipped}
        OBVIOUS
      <4>1. CASE m = 1
        BY <4>1, <2>3 DEF Route
      <4>2. CASE m # 1
        <5>1. m \in 2..Len(tree)
          BY <4>2, <2>1, NodeTypes
        <5>2. tree[m].up \in Nodes /\ tree[m].up \in 0..m - 1
          BY <5>1, <2>1, Parent, NodeTypes
        <5>3. f[tree[m].up] \in {first, Skipped} /\ f[m] = Follows(f, tree[m].up)
          BY <5>1, <5>2, <3>1, <2>3 DEF Route
        <5>4. Turn(first, tree[m].up) = first
          BY <2>2, ImporterRows DEF Turn
        <5> QED BY <5>3, <5>4 DEF Follows
      <4> QED BY <4>1, <4>2
    <3>2. Nat \subseteq S
      <4> HIDE DEF S
      <4> QED BY <3>1, FromBelow
    <3> QED BY <3>2, <2>1, NodeTypes
  <2>6. CASE f[n] # Skipped
    <3>1. Block(found[w], Entries(x, n), n)
      BY <2>3, <2>5, <2>6
    <3>2. Len(Entries(x, n)) = IF tree[n].form \in Unread[Language] THEN 0
                               ELSE Brings[Language][tree[n].kind][tree[n].form]
      BY <2>1, ImportCounted
    <3>3. PICK b \in 0..Len(found[w]) : Positions(found[w], n) = b + 1..b + Len(Entries(x, n))
      BY <3>1 DEF Block
    <3>4. b + 1..b + 0 = {}
      OBVIOUS
    <3> QED BY <3>2, <3>3, <3>4, <2>4
  <2>7. CASE f[n] = Skipped
    <3>1. PICK a \in Ancestors(n) : f[a] # Skipped /\ ~ Descends(Extractors[f[a]], a)
      BY <2>1, <2>2, <2>3, <2>7, Hidden
    <3>2. a \in Nodes /\ f[a] = first
      BY <3>1, <2>1, <2>5, AncestorsAreNodes
    <3>3. Block(found[w], Entries(x, a), a) /\ ~ Descends(x, a)
      BY <3>1, <3>2, <2>3
    <3>4. tree[a].kind \in Kinds
      BY <3>2, <2>1, NodeTypes DEF Node
    <3>5. ImportTable(x, Brings[Language], Unread[Language])
      BY <2>1, ImportTables
    <3>6. Entries(x, a) # <<>>
      <4> SUFFICES ASSUME Entries(x, a) = <<>> PROVE FALSE
        OBVIOUS
      <4>1. tree[a].kind \in x.closed
        BY <3>3, <3>4, <3>5 DEF Descends, ImportTable
      <4>2. tree[a].kind \notin {"import_statement", "use_declaration"}
        <5> SUFFICES ASSUME tree[a].kind \in {"import_statement", "use_declaration"} PROVE FALSE
          OBVIOUS
        <5>1. At(a).holds = {}
          BY <4>1, <3>2, <3>5, <2>1, ImportsAssumption
             DEF ImportTable, At, Language, TreeOK, Conforms
        <5>2. PICK i \in 1..Len(tree[a].kids) : tree[a].kids[i] \in Ancestors(n) \cup {n}
          BY <3>2, <2>1, ChildTowards
        <5>3. tree[a].kids[i] \in 2..Len(tree) /\ tree[tree[a].kids[i]].up = a
          <6>1. tree[a].kids[i] \in a + 1..Len(tree) /\ tree[tree[a].kids[i]].up = a
            BY <3>2, <2>1 DEF TreeOK, Siblings
          <6> QED BY <6>1, <3>2, <2>1, NodeTypes
        <5> QED BY <5>1, <5>3, <2>1 DEF TreeOK, Conforms
      <4>3. /\ tree[a].kind \in DOMAIN Brings[Language]
            /\ \A form \in DOMAIN Brings[Language][tree[a].kind] :
                 /\ Brings[Language][tree[a].kind][form] # 0
                 /\ form \notin Unread[Language]
        BY <4>1, <4>2, <3>5 DEF ImportTable
      <4>4. Len(Entries(x, a)) # 0
        BY <4>3, <3>2, <2>1, ImportCounted
      <4> QED BY <4>4
    <3>7. a \in Reported(w)
      BY <3>2, <3>3, <3>6, <2>1, <2>2, ReportedWhen
    <3> QED BY <3>1, <3>7, <2>3, <2>4, <2>7
  <2> QED BY <2>6, <2>7
<1> QED BY <1>1, Invariant, PTL

------------------------------------------------------------------------------
(* Methods.                                                                  *)

LEMMA HeadOfAppend ==
  ASSUME NEW S, NEW s \in Seq(S), NEW x \in S
  PROVE  /\ Append(s, x) \in Seq(S) /\ Append(s, x) # <<>>
         /\ Head(Append(s, x)) = IF s = <<>> THEN x ELSE Head(s)
<1> DEFINE t == Append(s, x)
<1>1. /\ t \in Seq(S) /\ Len(t) = Len(s) + 1 /\ Len(s) \in Nat
      /\ \A i \in 1..Len(s) : t[i] = s[i]
      /\ t[Len(s) + 1] = x
  BY AppendProperties
<1>2. s = <<>> <=> Len(s) = 0
  OBVIOUS
<1>3. s # <<>> => Head(s) = s[1]
  OBVIOUS
<1> HIDE DEF t
<1>4. t # <<>> /\ Head(t) = t[1]
  BY <1>1
<1>5. CASE s = <<>>
  BY <1>1, <1>2, <1>4, <1>5 DEF t
<1>6. CASE s # <<>>
  <2>1. 1 \in 1..Len(s)
    BY <1>1, <1>2, <1>6
  <2> QED BY <2>1, <1>1, <1>3, <1>4, <1>6 DEF t
<1> QED BY <1>5, <1>6

(* The first name kept is that of a parameter, and of the first one if that  *)
(* is kept.                                                                  *)
LEMMA FirstKept ==
  ASSUME NEW language \in Languages, NEW ps, Len(ps) \in Nat, \A i \in 1..Len(ps) : Written(ps[i])
  PROVE  LET kept == Params(language, ps) IN
         /\ kept # <<>> => \E j \in 1..Len(ps) : Head(kept) = Param(language, ps[j])
                                                 /\ Param(language, ps[j]) # Dropped
         /\ Len(ps) # 0 /\ Param(language, ps[1]) # Dropped =>
              kept # <<>> /\ Head(kept) = Param(language, ps[1])
<1>1. PICK kept : Loop(language, ps, kept) /\ Params(language, ps) = kept[Len(ps)]
  BY ParamsLoop
<1>2. /\ kept[0] = <<>>
      /\ \A i \in 1..Len(ps) :
           kept[i] = IF Param(language, ps[i]) = Dropped THEN kept[i - 1]
                     ELSE Append(kept[i - 1], Param(language, ps[i]))
  BY <1>1, Iteration
<1> DEFINE Kept(i) ==
             /\ kept[i] \in Seq(Name)
             /\ kept[i] # <<>> => \E j \in 1..i : Head(kept[i]) = Param(language, ps[j])
                                                  /\ Param(language, ps[j]) # Dropped
             /\ i # 0 /\ Param(language, ps[1]) # Dropped =>
                  kept[i] # <<>> /\ Head(kept[i]) = Param(language, ps[1])
           S == {i \in Nat : i <= Len(ps) => Kept(i)}
<1>3. ASSUME NEW i \in Nat, \A l \in 0..i - 1 : l \in S
      PROVE  i \in S
  <2> SUFFICES ASSUME i <= Len(ps) PROVE Kept(i)
    OBVIOUS
  <2>1. CASE i = 0
    BY <2>1, <1>2
  <2>2. CASE i # 0
    <3> DEFINE before == kept[i - 1]
               name == Param(language, ps[i])
    <3>1. i - 1 \in 0..i - 1 /\ i - 1 \in Nat /\ i \in 1..Len(ps)
      BY <2>2
    <3>2. Kept(i - 1)
      BY <3>1, <1>3
    <3>3. CASE name = Dropped
      <4>1. kept[i] = before
        BY <3>1, <3>3, <1>2
      <4>2. i - 1 = 0 => i = 1
        BY <2>2
      <4>3. \A j \in 1..i - 1 : j \in 1..i
        BY <3>1
      <4> QED BY <4>1, <4>2, <4>3, <3>2, <3>3, <1>2
    <3>4. CASE name # Dropped
      <4>1. kept[i] = Append(before, name)
        BY <3>1, <3>4, <1>2
      <4>2. name \in Name
        BY <3>1, <3>4, ParamName
      <4>3. before \in Seq(Name)
        BY <3>2
      <4> HIDE DEF before, name
      <4>4. /\ Append(before, name) \in Seq(Name) /\ Append(before, name) # <<>>
            /\ Head(Append(before, name)) = IF before = <<>> THEN name ELSE Head(before)
        BY <4>2, <4>3, HeadOfAppend
      <4>5. CASE before = <<>>
        <5>1. i - 1 = 0 \/ Param(language, ps[1]) = Dropped
          BY <4>5, <3>2 DEF before
        <5>2. Param(language, ps[1]) # Dropped => i = 1
          BY <5>1, <2>2
        <5>3. Head(kept[i]) = name /\ i \in 1..i
          BY <4>1, <4>4, <4>5, <3>1
        <5> QED BY <5>2, <5>3, <4>1, <4>4, <3>4 DEF name
      <4>6. CASE before # <<>>
        <5>1. Head(kept[i]) = Head(before)
          BY <4>1, <4>4, <4>6
        <5>2. \A j \in 1..i - 1 : j \in 1..i
          BY <3>1
        <5>3. \E j \in 1..i - 1 :
                Head(before) = Param(language, ps[j]) /\ Param(language, ps[j]) # Dropped
          BY <4>6, <3>2 DEF before
        <5>4. i - 1 = 0 => before = <<>>
          BY <1>2 DEF before
        <5>5. Param(language, ps[1]) # Dropped => Head(before) = Param(language, ps[1])
          BY <5>4, <4>6, <3>2 DEF before
        <5> QED BY <5>1, <5>2, <5>3, <5>5, <4>1, <4>4
      <4> QED BY <4>5, <4>6
    <3> QED BY <3>3, <3>4
  <2> QED BY <2>1, <2>2
<1>4. Nat \subseteq S
  <2> HIDE DEF S
  <2> QED BY <1>3, FromBelow
<1>5. Kept(Len(ps))
  BY <1>4
<1> QED BY <1>1, <1>5

Receives(n) == GoReceiver(n) \/ RustReceiver(n) \/ PythonReceiver(n)

(* A receiver is what makes a function a method, if it is not a typed one.   *)
LEMMA SignatureTags ==
  ASSUME TreeOK, NEW n \in Nodes
  PROVE  LET params == Signature(Language, tree[n]) IN
         /\ Receives(n) => IsMethod(params)
         /\ RustTypedReceiver(n) => ~ IsMethod(params)
         /\ IsMethod(params) =>
              Receives(n) \/ \E i \in DOMAIN tree[n].params : NamesSelf(tree[n].params[i])
<1> DEFINE ps == tree[n].params
           kept(language) == Params(language, ps)
<1>1. Language \in Languages
  BY LanguageKnown DEF TreeOK
<1>2. Len(ps) \in Nat /\ DOMAIN ps = 1..Len(ps) /\ (ps # <<>> => Len(ps) # 0 /\ Head(ps) = ps[1])
      /\ \A i \in 1..Len(ps) : Written(ps[i])
  BY ParamsWritten
<1> HIDE DEF ps
<1>3. \A language \in Languages :
        /\ kept(language) # <<>> =>
             \E j \in 1..Len(ps) : Head(kept(language)) = Param(language, ps[j])
        /\ Len(ps) # 0 /\ Param(language, ps[1]) # Dropped =>
             kept(language) # <<>> /\ Head(kept(language)) = Param(language, ps[1])
  BY <1>2, FirstKept
<1>4. \A language \in Languages : \A p : Param(language, p) = "self" => NamesSelf(p)
  BY DEF Param, TypescriptParam, RustParam, ExtractPatternName, PythonParam, GoParam, JavaParam,
         CParam, RubyParam, Languages, NamesSelf, Dropped
<1>5. \A language \in Languages :
        IsMethod(kept(language)) => \E i \in DOMAIN ps : NamesSelf(ps[i])
  BY <1>2, <1>3, <1>4 DEF IsMethod
<1>6. CASE Language = "Go"
  <2>1. Signature(Language, tree[n]) =
          (IF tree[n].kind = "method_declaration" THEN <<"self">> ELSE <<>>) \o kept("Go")
    BY <1>6 DEF Signature, GoParams, ps
  <2>2. kept("Go") \in Seq(Name)
    BY <1>1, <1>2, <1>6, ParamsType
  <2>3. CASE tree[n].kind = "method_declaration"
    <3>1. <<"self">> \o kept("Go") # <<>> /\ Head(<<"self">> \o kept("Go")) = "self"
      <4>1. <<"self">> \in Seq(Name)
        BY SelfIsAName
      <4> QED BY <4>1, <2>2
    <3> QED BY <2>1, <2>3, <3>1, <1>6 DEF IsMethod, Receives, GoReceiver, RustTypedReceiver
  <2>4. CASE tree[n].kind # "method_declaration"
    <3>1. Signature(Language, tree[n]) = kept("Go")
      BY <2>1, <2>2, <2>4
    <3> QED BY <2>4, <3>1, <1>1, <1>5, <1>6
         DEF Receives, GoReceiver, RustReceiver, PythonReceiver, RustTypedReceiver, ps
  <2> QED BY <2>3, <2>4
<1>7. CASE Language # "Go"
  <2>1. Signature(Language, tree[n]) = kept(Language)
    BY <1>7 DEF Signature, ps
  <2>2. ASSUME Receives(n) PROVE IsMethod(kept(Language))
    <3>1. /\ Len(ps) # 0 /\ 1 \in 1..Len(ps)
          /\ \/ Language = "Rust" /\ ps[1].kind = "self_parameter"
             \/ /\ Language = "Python" /\ ps[1].kind \in {"identifier", "typed_parameter"}
                /\ ps[1].name = "self"
      BY <2>2, <1>2, <1>7 DEF Receives, GoReceiver, RustReceiver, PythonReceiver, FirstParam, ps
    <3>2. Param(Language, ps[1]) = "self" /\ "self" # Dropped
      BY <3>1 DEF Param, RustParam, PythonParam, Dropped
    <3> QED BY <3>1, <3>2, <1>1, <1>3 DEF IsMethod
  <2>3. ASSUME RustTypedReceiver(n) PROVE ~ IsMethod(kept(Language))
    <3>1. /\ Len(ps) # 0 /\ Language = "Rust"
          /\ ps[1].kind = "parameter" /\ ps[1].pattern = "self"
      BY <2>3, <1>2 DEF RustTypedReceiver, FirstParam, ps
    <3>2. Param(Language, ps[1]) = "_" /\ "_" # Dropped
      BY <3>1 DEF Param, RustParam, ExtractPatternName, Dropped
    <3> QED BY <3>1, <3>2, <1>1, <1>3 DEF IsMethod
  <2> QED BY <2>1, <2>2, <2>3, <1>1, <1>5 DEF ps
<1> QED BY <1>6, <1>7

(* An entry says what its table says of the node.                            *)
LEMMA EntrySays ==
  ASSUME TreeOK, NEW w \in WalkNames, NEW by \in Staff[w], NEW n \in Nodes,
         NEW i \in 1..Len(Entries(Extractors[by], n))
  PROVE  /\ i \in 1..Len(Says(Extractors[by], tree[n].kind, tree[n].form))
         /\ Entries(Extractors[by], n)[i].what = Says(Extractors[by], tree[n].kind, tree[n].form)[i]
         /\ Entries(Extractors[by], n)[i].params = Signature(Language, tree[n])
BY EntriesSay

(* An entry is one of those that an extractor has for its node.              *)
SaidBy(e, by) ==
  \E i \in 1..Len(Says(Extractors[by], tree[e.node].kind, tree[e.node].form)) :
    /\ e = Entries(Extractors[by], e.node)[i]
    /\ e.what = Says(Extractors[by], tree[e.node].kind, tree[e.node].form)[i]

LEMMA EntryFrom ==
  ASSUME TreeOK, NEW w \in WalkNames, NEW first \in Staff[w], NEW f, Route(f, first),
         NEW T, Record(w, found[w], f, T), NEW e \in EntrySet(w)
  PROVE  /\ e.node \in Nodes /\ f[e.node] \in Staff[w]
         /\ e.params = Signature(Language, tree[e.node])
         /\ SaidBy(e, f[e.node])
<1>1. PICK p \in 1..Len(found[w]) : e = found[w][p]
  BY DEF EntrySet
<1> DEFINE n == e.node
           E == Expected(f, T, n)
<1>2. n \in Nodes
  BY <1>1 DEF Record
<1>3. PICK b \in 0..Len(found[w]) : /\ Positions(found[w], n) = b + 1..b + Len(E)
                                    /\ \A i \in 1..Len(E) : found[w][b + i] = E[i]
  BY <1>2 DEF Record, Block
<1>4. p \in b + 1..b + Len(E)
  BY <1>1, <1>3 DEF Positions
<1>5. f[n] \in Staff[w] \cup {Skipped}
  BY <1>2, RouteType
<1>6. ~ (f[n] = Skipped \/ n \in Pending(T))
  <2> SUFFICES ASSUME f[n] = Skipped \/ n \in Pending(T) PROVE FALSE
    OBVIOUS
  <2>1. E = <<>>
    BY DEF Expected
  <2>2. b + Len(<<>>) = b
    OBVIOUS
  <2> HIDE DEF E
  <2> QED BY <2>1, <2>2, <1>4
<1>7. E = Entries(Extractors[f[n]], n) /\ f[n] \in Staff[w]
  BY <1>5, <1>6 DEF Expected
<1>8. Len(E) \in Nat
  BY <1>2, <1>7, EntriesType
<1>9. p - b \in 1..Len(E) /\ b + (p - b) = p
  <2> HIDE DEF E
  <2> QED BY <1>1, <1>3, <1>4, <1>8
<1>10. e = E[p - b]
  <2> HIDE DEF E
  <2> QED BY <1>1, <1>3, <1>9
<1> DEFINE by == f[n]
           said == Says(Extractors[by], tree[n].kind, tree[n].form)
<1>11. /\ p - b \in 1..Len(said)
       /\ E[p - b].what = said[p - b] /\ E[p - b].params = Signature(Language, tree[n])
  <2>1. by \in Staff[w] /\ E = Entries(Extractors[by], n)
    BY <1>7
  <2> HIDE DEF E
  <2>2. p - b \in 1..Len(Entries(Extractors[by], n))
    BY <2>1, <1>9
  <2> HIDE DEF by, n
  <2> QED BY <1>2, <2>1, <2>2, EntrySays
<1>12. e.what = said[p - b] /\ e.params = Signature(Language, tree[n]) 
  <2> HIDE DEF said, E, n
  <2> QED BY <1>10, <1>11
<1>13. SaidBy(e, f[e.node])
  <2>1. e = Entries(Extractors[by], n)[p - b]
    BY <1>7, <1>10
  <2> HIDE DEF E
  <2> QED BY <2>1, <1>11, <1>12 DEF SaidBy
<1> QED BY <1>2, <1>7, <1>12, <1>13

(* A function with a receiver is tagged a method unless it is a typed one of *)
(* Rust, and without one only if one of its parameters is called self.       *)
THEOREM TagsFollowReceivers == Spec => []MethodsTagged
<1>1. ASSUME IInv PROVE MethodsTagged
  <2> SUFFICES ASSUME NEW e \in EntrySet("spans")
               PROVE  /\ Receives(e.node) => IsMethod(e.params)
                      /\ RustTypedReceiver(e.node) => ~ IsMethod(e.params)
                      /\ IsMethod(e.params) =>
                           \/ Receives(e.node)
                           \/ \E i \in DOMAIN tree[e.node].params : NamesSelf(tree[e.node].params[i])
    BY DEF MethodsTagged, FunctionEntries, Receives
  <2>1. TreeOK /\ "spans" \in WalkNames
    BY <1>1 DEF IInv, WalkNames
  <2>2. FirstExtractor["spans"][Language] \in Staff["spans"]
    BY <2>1, FirstOfStaff, LanguageKnown DEF TreeOK
  <2>3. found["spans"] # <<>>
    BY DEF EntrySet
  <2>4. PICK f, T : Route(f, FirstExtractor["spans"][Language]) /\ Record("spans", found["spans"], f, T)
    BY <1>1, <2>1, <2>3, Recording
  <2>5. e.node \in Nodes /\ e.params = Signature(Language, tree[e.node])
    <3> DEFINE w == "spans"
    <3>1. /\ w \in WalkNames /\ FirstExtractor[w][Language] \in Staff[w] /\ e \in EntrySet(w)
          /\ Route(f, FirstExtractor[w][Language]) /\ Record(w, found[w], f, T)
      BY <2>1, <2>2, <2>4
    <3> HIDE DEF w
    <3> QED BY <2>1, <3>1, EntryFrom
  <2> QED BY <2>1, <2>5, SignatureTags
<1> QED BY <1>1, Invariant, PTL

------------------------------------------------------------------------------
(* What the two walks for definitions have in common.                        *)

(* Below a node where it took over from another, an extractor is at work.    *)
LEMMA TookOver ==
  ASSUME TreeOK, NEW f, NEW first, Route(f, first), NEW by, by # first, by # Skipped
  PROVE  \A n \in Nodes : f[n] = by =>
           \E a \in Ancestors(n) : f[a] \notin {by, Skipped} /\ Turn(f[a], a) = by
<1> DEFINE From(n) == \E a \in Ancestors(n) : f[a] \notin {by, Skipped} /\ Turn(f[a], a) = by
           S == {n \in Nat : n \in Nodes /\ f[n] = by => From(n)}
<1>1. ASSUME NEW n \in Nat, \A m \in 0..n - 1 : m \in S
      PROVE  n \in S
  <2> SUFFICES ASSUME n \in Nodes, f[n] = by PROVE From(n)
    OBVIOUS
  <2> DEFINE p == tree[n].up
  <2>1. n # 1
    BY DEF Route
  <2>2. n \in 2..Len(tree)
    BY <2>1, NodeTypes
  <2>3. p \in Nodes /\ p \in 0..n - 1 /\ Ancestors(n) = Ancestors(p) \cup {p}
    BY <2>2, Parent, NodeTypes
  <2>4. f[n] = Follows(f, p)
    BY <2>2 DEF Route
  <2>5. f[p] # Skipped /\ by = Turn(f[p], p)
    BY <2>4 DEF Follows
  <2> HIDE DEF p
  <2>6. CASE f[p] = by
    BY <2>3, <2>6, <1>1
  <2>7. CASE f[p] # by
    BY <2>3, <2>5, <2>7
  <2> QED BY <2>6, <2>7
<1>2. Nat \subseteq S
  <2> HIDE DEF S
  <2> QED BY <1>1, FromBelow
<1> QED BY <1>2, NodeTypes

(* The extractors of parse_source_spans that stand beside those of           *)
(* parse_source.                                                             *)
SpansTwin ==
  [typescript_functions |-> "typescript_spans",
   typescript_exported_function |-> "typescript_declaration_span",
   rust_functions |-> "rust_spans", rust_trait_methods |-> "rust_trait_method_spans",
   python_functions |-> "python_spans", go_functions |-> "go_spans",
   bash_functions |-> "bash_spans", java_functions |-> "java_spans", c_functions |-> "c_spans",
   ruby_functions |-> "ruby_spans", cpp_functions |-> "cpp_spans"]

(* And the other way round, where the two agree on functions.                *)
FunctionsTwin ==
  [rust_spans |-> "rust_functions", rust_trait_method_spans |-> "rust_trait_methods",
   python_spans |-> "python_functions", go_spans |-> "go_functions",
   bash_spans |-> "bash_functions", c_spans |-> "c_functions", ruby_spans |-> "ruby_functions",
   cpp_spans |-> "cpp_functions"]

(* What an extractor looks into, and who looks there.                        *)
Open(by)        == Extractors[by].only \ Extractors[by].closed
TurnsTo(by, k)  == IF k \in DOMAIN Extractors[by].turns THEN Extractors[by].turns[k] ELSE by

(* The kinds below which twins go apart: a Rust type that only one of them   *)
(* looks into, and a Go type declaration, which only one of them hands over. *)
RustTypes == {"struct_item", "union_item", "enum_item", "type_item"}

Parts(by) ==
  CASE by = "rust_functions"               -> RustTypes
    [] by \in {"go_functions", "go_spans"} -> {"type_declaration"}
    [] OTHER                               -> {}

(* a looks into no kind that b does not, and hands over as b does.           *)
Accompanied(a, b, Twin) ==
  \A k \in Open(a) \ Parts(a) :
    k \in Open(b) /\ TurnsTo(a, k) \in DOMAIN Twin /\ TurnsTo(b, k) = Twin[TurnsTo(a, k)]

LEMMA OpenWhere ==
  ASSUME NEW by \in Definers, NEW n \in Nodes
  PROVE  /\ Descends(Extractors[by], n) <=> tree[n].kind \in Open(by)
         /\ Turn(by, n) = TurnsTo(by, tree[n].kind)
<1>1. \A records, closed, turns : Extractor(records, closed, turns).leaves = {}
  BY DEF Extractor
<1>2. \A x, only : x.leaves = {} /\ DOMAIN x = {"records", "closed", "leaves", "turns", "only"}
                     => Only(x, only).leaves = {}
  BY DEF Only
<1>3. Extractors[by].leaves = {}
  BY <1>1, <1>2
     DEF Definers, Extractors, TypescriptFunctions, TypescriptSpans, TypescriptExportedFunction,
         TypescriptDeclarationSpan, RustFunctions, RustTraitMethods, RustSpans,
         RustTraitMethodSpans, PythonFunctions, PythonSpans, GoFunctions, GoSpans, GoTypeSpecs,
         BashFunctions, BashSpans, JavaFunctions, JavaSpans, CFunctions, CSpans, RubyFunctions,
         RubySpans, CppFunctions, CppSpans, Extractor, Only
<1> QED BY <1>3 DEF Descends, Open, Turn, TurnsTo

LEMMA SpansAccompany ==
  ASSUME NEW a \in DOMAIN SpansTwin
  PROVE  Accompanied(a, SpansTwin[a], SpansTwin)
<1>1. CASE a \in {"typescript_functions", "typescript_exported_function"}
  <2>1. /\ Open("typescript_functions") = Open("typescript_spans")
        /\ Open("typescript_exported_function") = {}
    BY DEF Open, Extractors, TypescriptFunctions, TypescriptSpans, TypescriptExportedFunction,
           Extractor, Only
  <2>2. \A k : /\ TurnsTo("typescript_functions", k) =
                    IF k = "export_statement" THEN "typescript_exported_function"
                    ELSE "typescript_functions"
               /\ TurnsTo("typescript_spans", k) =
                    IF k = "export_statement" THEN "typescript_declaration_span"
                    ELSE "typescript_spans"
    BY DEF TurnsTo, Extractors, TypescriptFunctions, TypescriptSpans, Extractor
  <2> QED BY <1>1, <2>1, <2>2 DEF Accompanied, SpansTwin
<1>2. CASE a \in {"rust_functions", "rust_trait_methods"}
  <2>1. /\ Open("rust_functions") \ RustTypes \subseteq Open("rust_spans")
        /\ Open("rust_trait_methods") = Open("rust_trait_method_spans")
    BY DEF Open, Extractors, RustFunctions, RustSpans, RustTraitMethodSpans, RustTypes, Extractor
  <2>2. \A k : /\ TurnsTo("rust_functions", k) =
                    IF k = "trait_item" THEN "rust_trait_methods" ELSE "rust_functions"
               /\ TurnsTo("rust_spans", k) =
                    IF k = "trait_item" THEN "rust_trait_method_spans" ELSE "rust_spans"
    BY DEF TurnsTo, Extractors, RustFunctions, RustSpans, Extractor
  <2>3. \A k : /\ TurnsTo("rust_trait_methods", k) = "rust_trait_methods"
               /\ TurnsTo("rust_trait_method_spans", k) = "rust_trait_method_spans"
    BY DEF TurnsTo, Extractors, RustTraitMethods, RustTraitMethodSpans, Extractor, NoTurns, Each
  <2> QED BY <1>2, <2>1, <2>2, <2>3 DEF Accompanied, SpansTwin, Parts
<1>3. CASE a = "go_functions"
  <2>1. Open("go_functions") = Open("go_spans")
    BY DEF Open, Extractors, GoFunctions, GoSpans, Extractor
  <2>2. \A k : k # "type_declaration" =>
                 TurnsTo("go_functions", k) = "go_functions" /\ TurnsTo("go_spans", k) = "go_spans"
    BY DEF TurnsTo, Extractors, GoFunctions, GoSpans, Extractor, NoTurns, Each
  <2> QED BY <1>3, <2>1, <2>2 DEF Accompanied, SpansTwin, Parts
<1>4. CASE a \in {"python_functions", "bash_functions", "java_functions", "c_functions",
                  "ruby_functions", "cpp_functions"}
  <2>1. Open(a) \subseteq Open(SpansTwin[a])
    BY <1>4 DEF Open, SpansTwin, Extractors, PythonFunctions, PythonSpans, BashFunctions, BashSpans,
                JavaFunctions, JavaSpans, CFunctions, CSpans, RubyFunctions, RubySpans,
                CppFunctions, CppSpans, Extractor
  <2>2. \A k : TurnsTo(a, k) = a /\ TurnsTo(SpansTwin[a], k) = SpansTwin[a]
    BY <1>4 DEF TurnsTo, SpansTwin, Extractors, PythonFunctions, PythonSpans, BashFunctions,
                BashSpans, JavaFunctions, JavaSpans, CFunctions, CSpans, RubyFunctions, RubySpans,
                CppFunctions, CppSpans, Extractor, NoTurns, Each
  <2> QED BY <2>1, <2>2 DEF Accompanied
<1> QED BY <1>1, <1>2, <1>3, <1>4 DEF SpansTwin

LEMMA FunctionsAccompany ==
  ASSUME NEW b \in DOMAIN FunctionsTwin
  PROVE  Accompanied(b, FunctionsTwin[b], FunctionsTwin)
<1>1. CASE b \in {"rust_spans", "rust_trait_method_spans"}
  <2>1. /\ Open("rust_spans") \subseteq Open("rust_functions")
        /\ Open("rust_trait_method_spans") = Open("rust_trait_methods")
    BY DEF Open, Extractors, RustFunctions, RustSpans, RustTraitMethodSpans, Extractor
  <2>2. \A k : /\ TurnsTo("rust_functions", k) =
                    IF k = "trait_item" THEN "rust_trait_methods" ELSE "rust_functions"
               /\ TurnsTo("rust_spans", k) =
                    IF k = "trait_item" THEN "rust_trait_method_spans" ELSE "rust_spans"
    BY DEF TurnsTo, Extractors, RustFunctions, RustSpans, Extractor
  <2>3. \A k : /\ TurnsTo("rust_trait_methods", k) = "rust_trait_methods"
               /\ TurnsTo("rust_trait_method_spans", k) = "rust_trait_method_spans"
    BY DEF TurnsTo, Extractors, RustTraitMethods, RustTraitMethodSpans, Extractor, NoTurns, Each
  <2> QED BY <1>1, <2>1, <2>2, <2>3 DEF Accompanied, FunctionsTwin
<1>2. CASE b = "go_spans"
  <2>1. Open("go_functions") = Open("go_spans")
    BY DEF Open, Extractors, GoFunctions, GoSpans, Extractor
  <2>2. \A k : k # "type_declaration" =>
                 TurnsTo("go_functions", k) = "go_functions" /\ TurnsTo("go_spans", k) = "go_spans"
    BY DEF TurnsTo, Extractors, GoFunctions, GoSpans, Extractor, NoTurns, Each
  <2> QED BY <1>2, <2>1, <2>2 DEF Accompanied, FunctionsTwin, Parts
<1>3. CASE b \in {"python_spans", "bash_spans", "c_spans", "ruby_spans", "cpp_spans"}
  <2>1. Open(b) = Open(FunctionsTwin[b])
    BY <1>3 DEF Open, FunctionsTwin, Extractors, PythonFunctions, PythonSpans, BashFunctions,
                BashSpans, CFunctions, CSpans, RubyFunctions, RubySpans, CppFunctions, CppSpans,
                Extractor
  <2>2. \A k : TurnsTo(b, k) = b /\ TurnsTo(FunctionsTwin[b], k) = FunctionsTwin[b]
    BY <1>3 DEF TurnsTo, FunctionsTwin, Extractors, PythonFunctions, PythonSpans, BashFunctions,
                BashSpans, CFunctions, CSpans, RubyFunctions, RubySpans, CppFunctions, CppSpans,
                Extractor, NoTurns, Each
  <2> QED BY <2>1, <2>2 DEF Accompanied
<1> QED BY <1>1, <1>2, <1>3 DEF FunctionsTwin

(* Twins say the same of a kind: the one's rows are among the other's.       *)
Among(rows, more) == \A k \in DOMAIN rows : k \in DOMAIN more /\ more[k] = rows[k]

LEMMA MoreRows ==
  ASSUME NEW f, NEW g
  PROVE  Among(f, Merge(f, g))
BY DEF Among, Merge

LEMMA SaysMore ==
  ASSUME NEW x, NEW y, x.only \subseteq y.only, Among(x.records, y.records), NEW k, NEW form,
         Says(x, k, form) # <<>>
  PROVE  Says(y, k, form) = Says(x, k, form)
<1>1. k \in x.only /\ k \in DOMAIN x.records /\ form \in DOMAIN x.records[k]
  BY DEF Says
<1>2. k \in y.only /\ k \in DOMAIN y.records /\ y.records[k] = x.records[k]
  BY <1>1 DEF Among
<1> QED BY <1>1, <1>2 DEF Says

LEMMA SpansSayMore ==
  ASSUME NEW a \in DOMAIN SpansTwin
  PROVE  /\ Extractors[a].only \subseteq Extractors[SpansTwin[a]].only
         /\ Among(Extractors[a].records, Extractors[SpansTwin[a]].records)
<1>1. \A rows : Among(rows, rows)
  BY DEF Among
<1>2. CASE a = "typescript_functions"
  <2>1. /\ TypescriptFunctions.records = TypescriptFunctionRows
        /\ TypescriptSpans.records = Merge(TypescriptFunctionRows, TypescriptTypeRows)
        /\ TypescriptFunctions.only = TypescriptSpans.only
    BY DEF TypescriptFunctions, TypescriptSpans, Extractor
  <2> QED BY <1>2, <2>1, MoreRows DEF Extractors, SpansTwin
<1>3. CASE a = "typescript_exported_function"
  <2> DEFINE declared == Each({"function_declaration", "function_signature"}, Functions)
  <2>1. /\ TypescriptExportedFunction.records = [function_declaration |-> Functions]
        /\ TypescriptDeclarationSpan.records = Merge(declared, TypescriptTypeRows)
        /\ TypescriptExportedFunction.only \subseteq TypescriptDeclarationSpan.only
    BY DEF TypescriptExportedFunction, TypescriptDeclarationSpan, Extractor, Only
  <2>2. Among([function_declaration |-> Functions], declared)
    BY DEF Among, Each
  <2>3. Among([function_declaration |-> Functions], Merge(declared, TypescriptTypeRows))
    <3> HIDE DEF declared
    <3> QED BY <2>2, MoreRows DEF Among
  <2> QED BY <1>3, <2>1, <2>3 DEF Extractors, SpansTwin
<1>4. CASE a \in {"rust_functions", "rust_trait_methods"}
  <2>1. /\ RustFunctions.records = Each(RustLeaves, Functions)
        /\ RustSpans.records = Merge(Each(RustLeaves, Functions), RustTypeRows)
        /\ RustFunctions.only = RustSpans.only
        /\ RustTraitMethodSpans = RustTraitMethods
    BY DEF RustFunctions, RustSpans, RustTraitMethodSpans, Extractor
  <2> QED BY <1>1, <1>4, <2>1, MoreRows DEF Extractors, SpansTwin
<1>5. CASE a = "python_functions"
  <2>1. /\ Among(PythonFunctions.records, PythonSpans.records)
        /\ PythonFunctions.only = PythonSpans.only
    BY DEF PythonFunctions, PythonSpans, Extractor, Among
  <2> QED BY <1>5, <2>1 DEF Extractors, SpansTwin
<1>6. CASE a \in {"go_functions", "bash_functions", "java_functions", "c_functions",
                  "ruby_functions", "cpp_functions"}
  <2>1. /\ Extractors[a].records = Extractors[SpansTwin[a]].records
        /\ Extractors[a].only = Extractors[SpansTwin[a]].only
    BY <1>6 DEF SpansTwin, Extractors, GoFunctions, GoSpans, BashFunctions, BashSpans,
                JavaFunctions, JavaSpans, CFunctions, CSpans, RubyFunctions, RubySpans,
                CppFunctions, CppSpans, Extractor
  <2> QED BY <2>1, <1>1
<1> QED BY <1>2, <1>3, <1>4, <1>5, <1>6 DEF SpansTwin

(* What parse_source_spans adds are types.                                   *)
LEMMA FunctionsSaySame ==
  ASSUME NEW b \in DOMAIN FunctionsTwin, NEW k, NEW form,
         NEW i \in 1..Len(Says(Extractors[b], k, form)),
         Says(Extractors[b], k, form)[i] = "function"
  PROVE  Says(Extractors[FunctionsTwin[b]], k, form) = Says(Extractors[b], k, form)
<1>1. CASE b \in {"rust_trait_method_spans", "go_spans", "bash_spans", "c_spans", "ruby_spans",
                  "cpp_spans"}
  <2>1. /\ Extractors[b].records = Extractors[FunctionsTwin[b]].records
        /\ Extractors[b].only = Extractors[FunctionsTwin[b]].only
    BY <1>1 DEF FunctionsTwin, Extractors, RustTraitMethodSpans, GoFunctions, GoSpans,
                BashFunctions, BashSpans, CFunctions, CSpans, RubyFunctions, RubySpans,
                CppFunctions, CppSpans, Extractor
  <2> QED BY <2>1 DEF Says
<1>2. \A what : \A f \in DOMAIN Named(what) :
        Len(Named(what)[f]) = 1 /\ Named(what)[f][1] = what
  <2> SUFFICES ASSUME NEW what, NEW f \in DOMAIN Named(what)
               PROVE  Len(Named(what)[f]) = 1 /\ Named(what)[f][1] = what
    OBVIOUS
  <2> DEFINE one == <<what>>
  <2>1. Len(one) = 1 /\ one[1] = what
    OBVIOUS
  <2>2. Named(what)[f] = one
    BY DEF Named
  <2> QED BY <2>1, <2>2
<1>3. ASSUME NEW what, what # "function", NEW rows, k \in DOMAIN rows, rows[k] = Named(what),
             Extractors[b].records = rows
      PROVE  FALSE
  <2>1. /\ form \in DOMAIN Named(what)
        /\ Says(Extractors[b], k, form) = Named(what)[form]
    <3>1. Says(Extractors[b], k, form) # <<>>
      OBVIOUS
    <3> QED BY <3>1, <1>3 DEF Says
  <2> QED BY <2>1, <1>2, <1>3
<1>4. CASE b = "rust_spans"
  <2>1. /\ Extractors["rust_functions"].records = Each(RustLeaves, Functions)
        /\ Extractors["rust_spans"].records = Merge(Each(RustLeaves, Functions), RustTypeRows)
        /\ Extractors["rust_functions"].only = Extractors["rust_spans"].only
    BY DEF Extractors, RustFunctions, RustSpans, Extractor
  <2> DEFINE rows == Merge(Each(RustLeaves, Functions), RustTypeRows)
  <2>2. k \in DOMAIN Extractors["rust_spans"].records
    <3>1. Says(Extractors[b], k, form) # <<>>
      OBVIOUS
    <3> QED BY <3>1, <1>4 DEF Says
  <2>3. CASE k \in RustLeaves
    <3>1. rows[k] = Each(RustLeaves, Functions)[k] /\ k \in DOMAIN Each(RustLeaves, Functions)
          /\ k \in DOMAIN rows
      BY <2>3 DEF Merge, Each
    <3> QED BY <1>4, <2>1, <3>1 DEF Says, FunctionsTwin
  <2>4. CASE k \notin RustLeaves
    <3>1. k \in DOMAIN RustTypeRows /\ rows[k] = RustTypeRows[k] /\ k \in DOMAIN rows
      BY <2>1, <2>2, <2>4 DEF Merge, Each
    <3>2. \E what : what # "function" /\ RustTypeRows[k] = Named(what)
      BY <3>1 DEF RustTypeRows
    <3> HIDE DEF rows
    <3> QED BY <1>3, <1>4, <2>1, <3>1, <3>2 DEF rows
  <2> QED BY <2>3, <2>4
<1>5. CASE b = "python_spans"
  <2> DEFINE rows == [function_definition |-> Functions, class_definition |-> Named("class")]
  <2>1. /\ Extractors["python_functions"].records = [function_definition |-> Functions]
        /\ Extractors["python_spans"].records = rows
        /\ Extractors["python_functions"].only = Extractors["python_spans"].only
    BY DEF Extractors, PythonFunctions, PythonSpans, Extractor
  <2>2. k \in DOMAIN rows
    <3>1. Says(Extractors[b], k, form) # <<>>
      OBVIOUS
    <3> QED BY <3>1, <1>5, <2>1 DEF Says
  <2>3. CASE k = "function_definition"
    BY <1>5, <2>1, <2>3 DEF Says, FunctionsTwin
  <2>4. CASE k = "class_definition"
    <3>1. rows[k] = Named("class") /\ "class" # "function"
      BY <2>4
    <3> HIDE DEF rows
    <3> QED BY <1>3, <1>5, <2>1, <2>2, <3>1
  <2> QED BY <2>2, <2>3, <2>4
<1> QED BY <1>1, <1>4, <1>5 DEF FunctionsTwin

(* The extractors of definitions of a language.                              *)
FunctionsTeam ==
  [TypeScript |-> {"typescript_functions", "typescript_exported_function"},
   Rust |-> {"rust_functions", "rust_trait_methods"}, Python |-> {"python_functions"},
   Go |-> {"go_functions"}, Bash |-> {"bash_functions"}, Java |-> {"java_functions"},
   C |-> {"c_functions"}, Ruby |-> {"ruby_functions"}, Cpp |-> {"cpp_functions"}]

SpansTeam ==
  [TypeScript |-> {"typescript_spans", "typescript_declaration_span"},
   Rust |-> {"rust_spans", "rust_trait_method_spans"}, Python |-> {"python_spans"},
   Go |-> {"go_spans", "go_type_specs"}, Bash |-> {"bash_spans"}, Java |-> {"java_spans"},
   C |-> {"c_spans"}, Ruby |-> {"ruby_spans"}, Cpp |-> {"cpp_spans"}]

LEMMA TeamsKeep ==
  ASSUME NEW language \in Languages, NEW Team,
         Team = FunctionsTeam[language] \/ Team = SpansTeam[language], NEW by \in Team
  PROVE  \A k \in DOMAIN Extractors[by].turns : Extractors[by].turns[k] \in Team
<1>1. /\ TypescriptFunctions.turns = [export_statement |-> "typescript_exported_function"]
      /\ TypescriptSpans.turns = [export_statement |-> "typescript_declaration_span"]
      /\ \A k \in DOMAIN TypescriptDeclarationSpan.turns :
           TypescriptDeclarationSpan.turns[k] = "typescript_spans"
      /\ RustFunctions.turns = [trait_item |-> "rust_trait_methods"]
      /\ RustSpans.turns = [trait_item |-> "rust_trait_method_spans"]
      /\ GoSpans.turns = [type_declaration |-> "go_type_specs"]
  BY DEF TypescriptFunctions, TypescriptSpans, TypescriptDeclarationSpan, RustFunctions, RustSpans,
         GoSpans, Extractor, Only, Each
<1>2. CASE language = "TypeScript"
  <2>1. TypescriptExportedFunction.turns = Each({}, "")
    BY DEF TypescriptExportedFunction, Extractor, Only, NoTurns
  <2> QED BY <1>1, <1>2, <2>1 DEF FunctionsTeam, SpansTeam, Extractors, Each
<1>3. CASE language = "Rust"
  <2>1. RustTraitMethods.turns = Each({}, "") /\ RustTraitMethodSpans.turns = Each({}, "")
    BY DEF RustTraitMethods, RustTraitMethodSpans, Extractor, NoTurns
  <2> QED BY <1>1, <1>3, <2>1 DEF FunctionsTeam, SpansTeam, Extractors, Each
<1>4. CASE language = "Go"
  <2>1. GoFunctions.turns = Each({}, "") /\ GoTypeSpecs.turns = Each({}, "")
    BY DEF GoFunctions, GoTypeSpecs, Extractor, Only, NoTurns
  <2> QED BY <1>1, <1>4, <2>1 DEF FunctionsTeam, SpansTeam, Extractors, Each
<1>5. CASE language \in Languages \ {"TypeScript", "Rust", "Go"}
  <2>1. by \in {"python_functions", "python_spans", "bash_functions", "bash_spans",
                "java_functions", "java_spans", "c_functions", "c_spans", "ruby_functions",
                "ruby_spans", "cpp_functions", "cpp_spans"}
    BY <1>5 DEF Languages, FunctionsTeam, SpansTeam
  <2>2. Extractors[by].turns = NoTurns
    BY <2>1 DEF Extractors, PythonFunctions, PythonSpans, BashFunctions, BashSpans, JavaFunctions,
                JavaSpans, CFunctions, CSpans, RubyFunctions, RubySpans, CppFunctions, CppSpans,
                Extractor
  <2> QED BY <2>2 DEF NoTurns, Each
<1> QED BY <1>2, <1>3, <1>4, <1>5

LEMMA TeamsFirst ==
  ASSUME NEW language \in Languages
  PROVE  /\ FirstExtractor["functions"][language] \in FunctionsTeam[language]
         /\ FirstExtractor["spans"][language] \in SpansTeam[language]
         /\ FirstExtractor["functions"][language] \in DOMAIN SpansTwin
         /\ FirstExtractor["spans"][language] = SpansTwin[FirstExtractor["functions"][language]]
         /\ language \notin {"TypeScript", "Java"} =>
              /\ FirstExtractor["spans"][language] \in DOMAIN FunctionsTwin
              /\ FirstExtractor["functions"][language] =
                   FunctionsTwin[FirstExtractor["spans"][language]]
BY DEF Languages, FirstExtractor, ParseSource, ParseSourceSpans, FunctionsTeam, SpansTeam,
       SpansTwin, FunctionsTwin

LEMMA TeamsDefine ==
  ASSUME NEW language \in Languages
  PROVE  FunctionsTeam[language] \subseteq Definers /\ SpansTeam[language] \subseteq Definers
BY DEF Languages, FunctionsTeam, SpansTeam, Definers

(* A Go function has only the root above it.                                 *)
LEMMA GoTopLevel ==
  ASSUME TreeOK, Language = "Go", NEW n \in Nodes, tree[n].kind \in GoLeaves
  PROVE  \A a \in Ancestors(n) : tree[a].kind = "program"
<1> DEFINE p == tree[n].up
<1>1. n # 1
  BY DEF TreeOK, Conforms, GoLeaves
<1>2. n \in 2..Len(tree)
  BY <1>1, NodeTypes
<1>3. p \in Nodes /\ Ancestors(n) = Ancestors(p) \cup {p}
  BY <1>2, Parent
<1>4. tree[n].kind \in At(p).holds
  BY <1>2 DEF TreeOK, Conforms
<1> HIDE DEF p
<1>5. /\ grammar \in DOMAIN Grammars /\ LanguageOf(grammar) = "Go"
      /\ \A m \in Nodes : tree[m].kind \in DOMAIN Grammars[grammar].kinds
      /\ \A m \in 2..Len(tree) : tree[m].up \in Nodes /\ tree[m].kind \in At(tree[m].up).holds
  BY Parent DEF TreeOK, Conforms, Language
<1>6. \A k \in DOMAIN Grammars[grammar].kinds :
        /\ "program" \notin Grammars[grammar].kinds[k].holds
        /\ k # "program" => Grammars[grammar].kinds[k].holds \cap GoLeaves = {}
  BY <1>5, GoAssumption
<1>7. tree[p].kind = "program"
  BY <1>3, <1>4, <1>5, <1>6 DEF At
<1>8. p = 1
  <2> SUFFICES ASSUME p # 1 PROVE FALSE
    OBVIOUS
  <2>1. p \in 2..Len(tree)
    BY <1>3, NodeTypes
  <2> QED BY <2>1, <1>5, <1>6, <1>7 DEF At
<1>9. Ancestors(1) = {}
  BY DEF Ancestors
<1> QED BY <1>3, <1>7, <1>8, <1>9

(* A node says what its kind and its form say.                               *)
LEMMA SaysOfEntries ==
  ASSUME TreeOK, NEW a \in Definers, NEW b \in Definers, NEW n \in Nodes,
         Says(Extractors[b], tree[n].kind, tree[n].form) =
           Says(Extractors[a], tree[n].kind, tree[n].form)
  PROVE  Entries(Extractors[b], n) = Entries(Extractors[a], n)
<1> DEFINE listed(said) ==
      [i \in 1..Len(said) |-> [node |-> n, what |-> said[i], params |-> Signature(Language, tree[n])]]
<1>1. \A x : Entries(x, n) = listed(Says(x, tree[n].kind, tree[n].form))
  BY DEF Entries, Says
<1> HIDE DEF listed
<1> QED BY <1>1

(* An entry that an extractor has for a node is recorded when the walk has   *)
(* come by it.                                                               *)
LEMMA RecordedEntry ==
  ASSUME TreeOK, NEW w \in WalkNames, NEW n \in Nodes, NEW by \in Staff[w],
         Block(found[w], Entries(Extractors[by], n), n),
         NEW i \in 1..Len(Entries(Extractors[by], n))
  PROVE  Entries(Extractors[by], n)[i] \in EntrySet(w)
<1> DEFINE E == Entries(Extractors[by], n)
<1>1. Len(E) \in Nat
  BY EntriesType
<1>2. PICK b \in 0..Len(found[w]) : /\ Positions(found[w], n) = b + 1..b + Len(E)
                                    /\ \A j \in 1..Len(E) : found[w][b + j] = E[j]
  BY DEF Block
<1> HIDE DEF E
<1>3. i \in 1..Len(E)
  BY DEF E
<1>4. b + i \in Positions(found[w], n)
  BY <1>1, <1>2, <1>3
<1>5. b + i \in 1..Len(found[w])
  BY <1>4 DEF Positions
<1>6. found[w][b + i] = E[i]
  BY <1>2, <1>3
<1> QED BY <1>5, <1>6 DEF EntrySet, E

(* What the twin of an extractor says as well is recorded, where the twin    *)
(* came by.                                                                  *)
LEMMA TwinEntry ==
  ASSUME TreeOK, NEW v \in {"functions", "spans"}, NEW w \in {"functions", "spans"},
         NEW first \in Definers, NEW f, Route(f, first), NEW T, Record(v, found[v], f, T),
         NEW e \in EntrySet(v), NEW b \in Definers,
         Block(found[w], Entries(Extractors[b], e.node), e.node),
         Says(Extractors[b], tree[e.node].kind, tree[e.node].form) =
           Says(Extractors[f[e.node]], tree[e.node].kind, tree[e.node].form)
  PROVE  e \in EntrySet(w)
<1> DEFINE n == e.node
           a == f[n]
<1>1. /\ v \in WalkNames /\ w \in WalkNames /\ Staff[v] = Definers /\ Staff[w] = Definers
  BY DEF WalkNames, Staff
<1>2. n \in Nodes /\ a \in Definers /\ SaidBy(e, a)
  BY <1>1, EntryFrom
<1>3. PICK i \in 1..Len(Says(Extractors[a], tree[n].kind, tree[n].form)) :
             e = Entries(Extractors[a], n)[i]
  <2> HIDE DEF a
  <2> QED BY <1>2 DEF SaidBy
<1> HIDE DEF n, a
<1>4. Entries(Extractors[b], n) = Entries(Extractors[a], n)
  BY <1>2, SaysOfEntries DEF n, a
<1>5. Len(Entries(Extractors[a], n)) = Len(Says(Extractors[a], tree[n].kind, tree[n].form))
  BY <1>1, <1>2, EntriesSay
<1>6. i \in 1..Len(Entries(Extractors[b], n))
  BY <1>3, <1>4, <1>5
<1>7. Block(found[w], Entries(Extractors[b], n), n)
  BY DEF n
<1>8. Entries(Extractors[b], n)[i] \in EntrySet(w)
  BY <1>1, <1>2, <1>6, <1>7, RecordedEntry
<1> QED BY <1>3, <1>4, <1>8

(* The nodes below which the routes may part.                                *)
Apart(f, g, Twin) ==
  {p \in Nodes : f[p] \in DOMAIN Twin /\ g[p] = Twin[f[p]] /\ tree[p].kind \in Parts(f[p])}

(* Two routes on which an extractor of the one meets its twin on the other   *)
(* stay together, but for what is below those nodes.                         *)
LEMMA TwinsTogether ==
  ASSUME TreeOK, NEW f, NEW g, NEW Twin, NEW first, first \in DOMAIN Twin,
         Route(f, first), Route(g, Twin[first]),
         \A a \in DOMAIN Twin : /\ a \in Definers /\ Twin[a] \in Definers
                                /\ Accompanied(a, Twin[a], Twin)
  PROVE  \A n \in Nodes : f[n] # Skipped =>
           \/ f[n] \in DOMAIN Twin /\ g[n] = Twin[f[n]]
           \/ Ancestors(n) \cap Apart(f, g, Twin) # {}
<1> DEFINE apart == Apart(f, g, Twin)
           Met(n) == f[n] \in DOMAIN Twin /\ g[n] = Twin[f[n]]
           S == {n \in Nat : n \in Nodes /\ f[n] # Skipped => Met(n) \/ Ancestors(n) \cap apart # {}}
<1>1. ASSUME NEW p \in Nodes \ apart, Met(p), Descends(Extractors[f[p]], p)
      PROVE  /\ g[p] # Skipped /\ Descends(Extractors[g[p]], p)
             /\ Turn(f[p], p) \in DOMAIN Twin /\ Turn(g[p], p) = Twin[Turn(f[p], p)]
  <2>1. f[p] \in Definers /\ g[p] \in Definers /\ Accompanied(f[p], g[p], Twin)
    BY <1>1
  <2>2. tree[p].kind \in Open(f[p]) \ Parts(f[p])
    BY <1>1, <2>1, OpenWhere DEF Apart
  <2>3. /\ tree[p].kind \in Open(g[p])
        /\ TurnsTo(f[p], tree[p].kind) \in DOMAIN Twin
        /\ TurnsTo(g[p], tree[p].kind) = Twin[TurnsTo(f[p], tree[p].kind)]
    BY <2>1, <2>2 DEF Accompanied
  <2>4. g[p] # Skipped
    BY <2>1, SkippedOutside DEF Staff, WalkNames
  <2> QED BY <2>1, <2>3, <2>4, OpenWhere
<1> HIDE DEF apart
<1>2. ASSUME NEW n \in Nat, \A m \in 0..n - 1 : m \in S
      PROVE  n \in S
  <2> SUFFICES ASSUME n \in Nodes, f[n] # Skipped PROVE Met(n) \/ Ancestors(n) \cap apart # {}
    OBVIOUS
  <2>1. CASE n = 1
    BY <2>1 DEF Route
  <2>2. CASE n # 1
    <3> DEFINE p == tree[n].up
    <3>1. n \in 2..Len(tree)
      BY <2>2, NodeTypes
    <3>2. p \in Nodes /\ p \in 0..n - 1 /\ Ancestors(n) = Ancestors(p) \cup {p}
      BY <3>1, Parent, NodeTypes
    <3>3. f[n] = Follows(f, p) /\ g[n] = Follows(g, p)
      BY <3>1 DEF Route
    <3>4. f[p] # Skipped /\ Descends(Extractors[f[p]], p) /\ f[n] = Turn(f[p], p)
      BY <3>3 DEF Follows
    <3> HIDE DEF p
    <3>5. Met(p) \/ Ancestors(p) \cap apart # {}
      BY <3>2, <3>4, <1>2
    <3>6. CASE Met(p) /\ p \notin apart
      BY <3>2, <3>3, <3>4, <3>6, <1>1 DEF Follows
    <3>7. CASE p \in apart \/ Ancestors(p) \cap apart # {}
      BY <3>2, <3>7
    <3> QED BY <3>5, <3>6, <3>7
  <2> QED BY <2>1, <2>2
<1>3. Nat \subseteq S
  <2> HIDE DEF S
  <2> QED BY <1>2, FromBelow
<1> QED BY <1>3, NodeTypes DEF apart

LEMMA TwinsOf ==
  /\ \A a \in DOMAIN SpansTwin : a \in Definers /\ SpansTwin[a] \in Definers
  /\ \A b \in DOMAIN FunctionsTwin : b \in Definers /\ FunctionsTwin[b] \in Definers
BY DEF SpansTwin, FunctionsTwin, Definers

(* The name of a definition can be read, in the languages in which it has to *)
(* be there.                                                                 *)
LEMMA FormsReadable ==
  ASSUME TreeOK, Language \notin {"C", "Cpp"}, NEW n \in Nodes,
         tree[n].kind \in Definitions[Language]
  PROVE  tree[n].form \in Readable(Language, tree[n].kind)
<1>1. "program" \notin Definitions[Language]
  BY LanguageKnown DEF Definitions, Languages, TreeOK
<1>2. n # 1
  BY <1>1 DEF TreeOK, Conforms
<1>3. n \in 2..Len(tree)
  BY <1>2, NodeTypes
<1>4. /\ grammar \in DOMAIN Grammars /\ tree[n].kind \in DOMAIN Grammars[grammar].kinds
      /\ tree[n].form \in At(n).forms
  BY <1>3 DEF TreeOK, Conforms
<1>5. At(n).forms \subseteq Readable(Language, tree[n].kind)
  BY <1>4, NamesAssumption DEF At, Language
<1> QED BY <1>4, <1>5

LEMMA KindsKnown ==
  ASSUME TreeOK, NEW n \in Nodes
  PROVE  tree[n].kind \in Kinds
BY DEF Kinds, TreeOK, Conforms

(* The rows have an entry for this form of this kind.                        *)
Told(rows, kind, form) ==
  kind \in DOMAIN rows /\ form \in DOMAIN rows[kind] /\ rows[kind][form] # <<>>

LEMMA NamedTold ==
  ASSUME NEW what
  PROVE  "named" \in DOMAIN Named(what) /\ Named(what)["named"] # <<>>
BY DEF Named

LEMMA EachTold ==
  ASSUME NEW kinds, NEW kind \in kinds
  PROVE  Told(Each(kinds, Functions), kind, "named")
<1>1. kind \in DOMAIN Each(kinds, Functions) /\ Each(kinds, Functions)[kind] = Named("function")
  BY DEF Each, Functions
<1> QED BY <1>1, NamedTold DEF Told

LEMMA MergeTold ==
  ASSUME NEW f, NEW g, NEW kind, NEW form, Told(f, kind, form) \/ (Told(g, kind, form) /\ kind \notin DOMAIN f)
  PROVE  Told(Merge(f, g), kind, form)
<1>1. CASE Told(f, kind, form)
  <2>1. kind \in DOMAIN Merge(f, g) /\ Merge(f, g)[kind] = f[kind]
    BY <1>1 DEF Told, Merge
  <2> QED BY <1>1, <2>1 DEF Told
<1>2. CASE Told(g, kind, form) /\ kind \notin DOMAIN f
  <2>1. kind \in DOMAIN Merge(f, g) /\ Merge(f, g)[kind] = g[kind]
    BY <1>2 DEF Told, Merge
  <2> QED BY <1>2, <2>1 DEF Told
<1> QED BY <1>1, <1>2

LEMMA TypeTold ==
  ASSUME NEW rows \in {TypescriptTypeRows, RustTypeRows, JavaTypeRows, RubyTypeRows, CppTypeRows},
         NEW kind \in DOMAIN rows
  PROVE  Told(rows, kind, "named")
<1>1. \E what : rows[kind] = Named(what)
  BY DEF TypescriptTypeRows, RustTypeRows, JavaTypeRows, RubyTypeRows, CppTypeRows
<1> QED BY <1>1, NamedTold DEF Told

(* The definitions that the extractors of parse_source_spans report.         *)
Tells ==
  [typescript_spans |-> Definitions["TypeScript"],
   rust_spans |-> RustLeaves \cup DOMAIN RustTypeRows,
   rust_trait_method_spans |-> RustLeaves \cup {"function_signature_item"},
   python_spans |-> {"function_definition", "class_definition"},
   go_spans |-> GoLeaves, go_type_specs |-> {"type_spec"},
   bash_spans |-> {"function_definition"}, java_spans |-> JavaLeaves \cup DOMAIN JavaTypeRows,
   c_spans |-> {"function_definition"}, ruby_spans |-> RubyLeaves \cup DOMAIN RubyTypeRows,
   cpp_spans |-> {"function_definition"} \cup DOMAIN CppTypeRows]

LEMMA TypescriptTold ==
  ASSUME NEW kind \in Definitions["TypeScript"], NEW form \in Readable("TypeScript", kind)
  PROVE  Told(Extractors["typescript_spans"].records, kind, form)
<1>1. Extractors["typescript_spans"].records = Merge(TypescriptFunctionRows, TypescriptTypeRows)
  BY DEF Extractors, TypescriptSpans, Extractor
<1>2. CASE kind \in TypescriptLeaves \ {"call_signature"}
  <2>1. form = "named"
    BY <1>2 DEF Readable, TypescriptLeaves
  <2>2. Told(Each(TypescriptLeaves \ {"call_signature"}, Functions), kind, form)
    BY <1>2, <2>1, EachTold
  <2> QED BY <1>1, <2>2, MergeTold DEF TypescriptFunctionRows
<1>3. CASE kind = "call_signature"
  <2> DEFINE rows == [call_signature |-> [named |-> <<"function">>, anonymous |-> <<"function">>]]
  <2>1. form \in {"named", "anonymous"}
    BY <1>3 DEF Readable
  <2>2. Told(rows, kind, form)
    <3>1. /\ kind \in DOMAIN rows /\ form \in DOMAIN rows[kind]
          /\ rows[kind][form] = <<"function">>
      BY <1>3, <2>1
    <3> HIDE DEF rows
    <3> QED BY <3>1 DEF Told
  <2>3. kind \notin DOMAIN Each(TypescriptLeaves \ {"call_signature"}, Functions)
    BY <1>3 DEF Each
  <2>4. Told(TypescriptFunctionRows, kind, form)
    <3> HIDE DEF rows
    <3>1. Told(Merge(Each(TypescriptLeaves \ {"call_signature"}, Functions), rows), kind, form)
      BY <2>2, <2>3, MergeTold
    <3> QED BY <3>1 DEF TypescriptFunctionRows, rows
  <2> QED BY <1>1, <2>4, MergeTold
<1>4. CASE kind \in DOMAIN TypescriptTypeRows
  <2>1. form = "named" /\ kind \notin TypescriptLeaves
    BY <1>4 DEF Readable, TypescriptTypeRows, TypescriptTypeKind, TypescriptLeaves
  <2>2. kind \notin DOMAIN TypescriptFunctionRows
    BY <2>1 DEF TypescriptFunctionRows, Merge, Each, TypescriptLeaves
  <2>3. Told(TypescriptTypeRows, kind, form)
    BY <1>4, <2>1, TypeTold
  <2> QED BY <1>1, <2>2, <2>3, MergeTold
<1>5. kind \in TypescriptLeaves \cup DOMAIN TypescriptTypeRows
  BY DEF Definitions, TypescriptLeaves, TypescriptTypeRows, TypescriptTypeKind
<1> QED BY <1>2, <1>3, <1>4, <1>5

(* Functions by their kind, and types, all of them named.                    *)
LEMMA NamedRowsTold ==
  ASSUME NEW leaves, NEW rows \in {RustTypeRows, JavaTypeRows, RubyTypeRows},
         NEW kind \in leaves \cup DOMAIN rows
  PROVE  Told(Merge(Each(leaves, Functions), rows), kind, "named")
<1>1. CASE kind \in leaves
  BY <1>1, EachTold, MergeTold
<1>2. CASE kind \notin leaves
  <2>1. kind \notin DOMAIN Each(leaves, Functions)
    BY <1>2 DEF Each
  <2>2. Told(rows, kind, "named")
    BY <1>2, TypeTold
  <2> QED BY <2>1, <2>2, MergeTold
<1> QED BY <1>1, <1>2

LEMMA SpansTold ==
  ASSUME NEW language \in Languages, NEW by \in SpansTeam[language] \ {"typescript_declaration_span"},
         NEW kind \in Tells[by], NEW form \in Readable(language, kind)
  PROVE  Told(Extractors[by].records, kind, form)
<1>1. CASE language = "TypeScript"
  BY <1>1, TypescriptTold DEF SpansTeam, Tells
<1>2. CASE language \in {"Rust", "Java", "Ruby"}
  <2>1. form = "named"
    BY <1>2 DEF Readable, SpansTeam, Tells, RustLeaves, RustTypeRows, JavaLeaves, JavaTypeRows,
                RubyLeaves, RubyTypeRows
  <2>2. /\ Extractors["rust_spans"].records = Merge(Each(RustLeaves, Functions), RustTypeRows)
        /\ Extractors["rust_trait_method_spans"].records =
             Each(RustLeaves \cup {"function_signature_item"}, Functions)
        /\ Extractors["java_spans"].records = Merge(Each(JavaLeaves, Functions), JavaTypeRows)
        /\ Extractors["ruby_spans"].records = Merge(Each(RubyLeaves, Functions), RubyTypeRows)
    BY DEF Extractors, RustSpans, RustTraitMethodSpans, RustTraitMethods, JavaSpans, RubySpans,
           Extractor
  <2> QED BY <1>2, <2>1, <2>2, NamedRowsTold, EachTold DEF SpansTeam, Tells
<1>3. CASE language = "Go"
  <2>1. CASE by = "go_spans"
    <3>1. form = "named"
      BY <1>3, <2>1 DEF Readable, Tells, GoLeaves
    <3>2. Extractors["go_spans"].records = Each(GoLeaves, Functions)
      BY DEF Extractors, GoSpans, Extractor
    <3> QED BY <2>1, <3>1, <3>2, EachTold DEF Tells
  <2>2. CASE by = "go_type_specs"
    <3>1. kind = "type_spec" /\ form \in {"struct", "interface", "other"}
      BY <2>2 DEF Readable, Tells
    <3>2. Extractors["go_type_specs"].records = [type_spec |-> GoTypeSpecKind]
      BY DEF Extractors, GoTypeSpecs, Extractor, Only
    <3>3. Told([type_spec |-> GoTypeSpecKind], kind, form)
      BY <3>1 DEF Told, GoTypeSpecKind
    <3> QED BY <2>2, <3>2, <3>3
  <2> QED BY <1>3, <2>1, <2>2 DEF SpansTeam
<1>4. CASE language \in {"Python", "Bash"}
  <2>1. form = "named"
    BY <1>4 DEF Readable, SpansTeam, Tells
  <2>2. /\ Extractors["python_spans"].records =
             [function_definition |-> Functions, class_definition |-> Named("class")]
        /\ Extractors["bash_spans"].records = [function_definition |-> Functions]
    BY DEF Extractors, PythonSpans, BashSpans, Extractor
  <2>3. \A k \in {"function_definition", "class_definition"} :
          Told([function_definition |-> Functions, class_definition |-> Named("class")], k, "named")
    BY NamedTold DEF Told, Functions
  <2>4. Told([function_definition |-> Functions], "function_definition", "named")
    BY NamedTold DEF Told, Functions
  <2> QED BY <1>4, <2>1, <2>2, <2>3, <2>4 DEF SpansTeam, Tells
<1>5. CASE language \in {"C", "Cpp"}
  <2> DEFINE rows == [function_definition |-> CFunction]
  <2>1. /\ Extractors["c_spans"].records = rows
        /\ Extractors["cpp_spans"].records = Merge(rows, CppTypeRows)
    BY DEF Extractors, CSpans, CppSpans, Extractor
  <2>2. CASE kind = "function_definition"
    <3>1. form \in {"identifier", "field_identifier"}
      BY <1>5, <2>2 DEF Readable
    <3>2. Told(rows, kind, form)
      BY <2>2, <3>1 DEF Told, CFunction
    <3> HIDE DEF rows
    <3> QED BY <1>5, <2>1, <3>2, MergeTold DEF SpansTeam
  <2>3. CASE kind # "function_definition"
    <3>1. by = "cpp_spans" /\ kind \in DOMAIN CppTypeRows
      BY <1>5, <2>3 DEF SpansTeam, Tells
    <3>2. form = "named"
      BY <3>1 DEF Readable, CppTypeRows
    <3>3. Told(CppTypeRows, kind, form)
      BY <3>1, <3>2, TypeTold
    <3>4. kind \notin DOMAIN rows
      BY <2>3
    <3> HIDE DEF rows
    <3> QED BY <2>1, <3>1, <3>3, <3>4, MergeTold
  <2> QED BY <2>2, <2>3
<1> QED BY <1>1, <1>2, <1>3, <1>4, <1>5 DEF Languages

LEMMA SpansSay ==
  ASSUME TreeOK, NEW by \in SpansTeam[Language] \ {"typescript_declaration_span"},
         NEW n \in Nodes, tree[n].kind \in Tells[by], tree[n].form \in Readable(Language, tree[n].kind)
  PROVE  Entries(Extractors[by], n) # <<>>
<1>1. Language \in Languages
  BY LanguageKnown DEF TreeOK
<1>2. Told(Extractors[by].records, tree[n].kind, tree[n].form)
  BY <1>1, SpansTold
<1>3. by \in {"typescript_spans", "rust_spans", "rust_trait_method_spans", "python_spans",
              "go_spans", "go_type_specs", "bash_spans", "java_spans", "c_spans", "ruby_spans",
              "cpp_spans"}
  BY <1>1 DEF Languages, SpansTeam
<1>4. tree[n].kind \in Extractors[by].only
  <2>1. CASE by = "go_type_specs"
    <3>1. Extractors["go_type_specs"].only = {"type_spec"}
      BY DEF Extractors, GoTypeSpecs, Extractor, Only
    <3> QED BY <2>1, <3>1 DEF Tells
  <2>2. CASE by # "go_type_specs"
    <3>1. Extractors[by].only = Kinds
      BY <1>3, <2>2 DEF Extractors, TypescriptSpans, RustSpans, RustTraitMethodSpans,
                        RustTraitMethods, PythonSpans, GoSpans, BashSpans, JavaSpans, CSpans,
                        RubySpans, CppSpans, Extractor
    <3> QED BY <3>1, KindsKnown
  <2> QED BY <2>1, <2>2
<1>5. Says(Extractors[by], tree[n].kind, tree[n].form) # <<>>
  BY <1>2, <1>4 DEF Told, Says
<1>6. by \in Staff["spans"] /\ "spans" \in WalkNames
  BY <1>1, TeamsDefine DEF Staff, WalkNames
<1> QED BY <1>5, <1>6, SaysSomething

(* A walk for definitions that is over.                                      *)
Toured(w, f, team) ==
  /\ Route(f, FirstExtractor[w][Language])
  /\ \A n \in Nodes : f[n] \in team \cup {Skipped}
  /\ \A n \in Nodes : f[n] # Skipped => Block(found[w], Entries(Extractors[f[n]], n), n)
  /\ Record(w, found[w], f, <<>>)

LEMMA Tours ==
  ASSUME IInv, Done("spans")
  PROVE  /\ \E f : Toured("functions", f, FunctionsTeam[Language])
         /\ \E g : Toured("spans", g, SpansTeam[Language])
<1>1. TreeOK /\ Language \in Languages /\ "functions" \in WalkNames /\ "spans" \in WalkNames
  BY LanguageKnown DEF IInv, TreeOK, WalkNames
<1>2. Done("functions")
  <2>1. PICK i \in 1..walk : Walks[i] = "spans"
    BY DEF Done
  <2>2. walk \in 0..4 /\ i \in 1..4
    BY <2>1, WalksList DEF IInv, WalksOK
  <2>3. 1 \in 1..walk
    BY <2>1, <2>2
  <2> QED BY <2>3, WalksList DEF Done
<1>3. ASSUME NEW w \in {"functions", "spans"}, Done(w), NEW team,
             FirstExtractor[w][Language] \in team,
             \A by \in team : \A k \in DOMAIN Extractors[by].turns : Extractors[by].turns[k] \in team
      PROVE  \E f : Toured(w, f, team)
  <2>1. PICK f : /\ Route(f, FirstExtractor[w][Language])
                 /\ \A n \in Nodes :
                      f[n] # Skipped => Block(found[w], Entries(Extractors[f[n]], n), n)
                 /\ Record(w, found[w], f, <<>>)
    BY <1>1, <1>3, Finished
  <2>2. \A n \in Nodes : f[n] \in team \cup {Skipped}
    BY <1>1, <1>3, <2>1, RouteWithin
  <2> QED BY <2>1, <2>2 DEF Toured
<1>4. \E f : Toured("functions", f, FunctionsTeam[Language])
  BY <1>1, <1>2, <1>3, TeamsKeep, TeamsFirst
<1>5. \E g : Toured("spans", g, SpansTeam[Language])
  BY <1>1, <1>3, TeamsKeep, TeamsFirst
<1> QED BY <1>4, <1>5

LEMMA TouredEntry ==
  ASSUME TreeOK, NEW w \in {"functions", "spans"}, NEW team \in SUBSET Definers, NEW f,
         Toured(w, f, team), NEW e \in EntrySet(w)
  PROVE  e.node \in Nodes /\ f[e.node] \in team /\ f[e.node] # Skipped /\ SaidBy(e, f[e.node])
<1>1. w \in WalkNames /\ Language \in Languages /\ Skipped \notin Definers /\ Staff[w] = Definers
  BY LanguageKnown, SkippedOutside DEF WalkNames, TreeOK, Staff
<1>2. FirstExtractor[w][Language] \in Staff[w]
  BY <1>1, FirstOfStaff
<1>3. e.node \in Nodes /\ f[e.node] \in Staff[w] /\ SaidBy(e, f[e.node])
  BY <1>1, <1>2, EntryFrom DEF Toured
<1> QED BY <1>1, <1>3 DEF Toured

LEMMA FunctionsMirrored ==
  ASSUME TreeOK, NEW f, NEW g, Toured("functions", f, FunctionsTeam[Language]),
         Toured("spans", g, SpansTeam[Language]), NEW e \in EntrySet("functions")
  PROVE  e \in EntrySet("spans") \/ Ancestors(e.node) \cap Reported("spans") # {}
<1> DEFINE n == e.node
<1>1. /\ Language \in Languages
      /\ FunctionsTeam[Language] \in SUBSET Definers /\ SpansTeam[Language] \in SUBSET Definers
  BY LanguageKnown, TeamsDefine DEF TreeOK
<1>2. n \in Nodes /\ f[n] \in FunctionsTeam[Language] /\ f[n] # Skipped /\ SaidBy(e, f[n])
  BY <1>1, TouredEntry
<1>3. /\ FirstExtractor["functions"][Language] \in DOMAIN SpansTwin
      /\ Route(f, FirstExtractor["functions"][Language])
      /\ Route(g, SpansTwin[FirstExtractor["functions"][Language]])
  BY <1>1, TeamsFirst DEF Toured
<1>4. \/ f[n] \in DOMAIN SpansTwin /\ g[n] = SpansTwin[f[n]]
      \/ Ancestors(n) \cap Apart(f, g, SpansTwin) # {}
  BY <1>2, <1>3, TwinsTogether, TwinsOf, SpansAccompany
<1>5. Says(Extractors[f[n]], tree[n].kind, tree[n].form) # <<>>
  <2>1. Len(<<>>) = 0
    OBVIOUS
  <2> QED BY <1>2, <2>1 DEF SaidBy
<1>6. CASE f[n] \in DOMAIN SpansTwin /\ g[n] = SpansTwin[f[n]]
  <2>1. g[n] \in Definers /\ g[n] # Skipped /\ FirstExtractor["functions"][Language] \in Definers
    BY <1>1, <1>6, TwinsOf, TeamsFirst, SkippedOutside DEF Staff, WalkNames
  <2>2. Says(Extractors[g[n]], tree[n].kind, tree[n].form) =
          Says(Extractors[f[n]], tree[n].kind, tree[n].form)
    BY <1>5, <1>6, SpansSayMore, SaysMore
  <2>3. Block(found["spans"], Entries(Extractors[g[n]], n), n)
    BY <1>2, <2>1 DEF Toured
  <2>4. Record("functions", found["functions"], f, <<>>)
    BY DEF Toured
  <2> DEFINE b == g[n]
             v == "functions"
             w == "spans"
  <2>5. /\ v \in {"functions", "spans"} /\ w \in {"functions", "spans"}
        /\ Record(v, found[v], f, <<>>) /\ e \in EntrySet(v)
        /\ Block(found[w], Entries(Extractors[b], e.node), e.node)
    BY <2>3, <2>4
  <2> HIDE DEF b, v, w
  <2>6. e \in EntrySet(w)
    BY <1>3, <2>1, <2>2, <2>5, TwinEntry DEF b
  <2> QED BY <2>6 DEF w
<1>7. CASE Ancestors(n) \cap Apart(f, g, SpansTwin) # {}
  <2>1. PICK p \in Ancestors(n) : p \in Apart(f, g, SpansTwin)
    BY <1>7
  <2>2. /\ p \in Nodes /\ f[p] \in FunctionsTeam[Language] /\ g[p] = SpansTwin[f[p]]
        /\ tree[p].kind \in Parts(f[p])
    BY <1>1, <2>1, TwinsOf, SkippedOutside DEF Apart, Toured, Staff, WalkNames
  <2>3. CASE Language = "Go"
    <3>1. f[n] = "go_functions" /\ f[p] = "go_functions"
      BY <1>2, <2>2, <2>3 DEF FunctionsTeam
    <3>2. Extractors["go_functions"].records = Each(GoLeaves, Functions)
      BY DEF Extractors, GoFunctions, Extractor
    <3>3. tree[n].kind \in GoLeaves
      BY <1>5, <3>1, <3>2 DEF Says, Each
    <3>4. tree[p].kind = "program"
      BY <1>2, <2>1, <2>3, <3>3, GoTopLevel
    <3> QED BY <2>2, <3>1, <3>4 DEF Parts
  <2>4. CASE Language = "Rust"
    <3>1. f[p] = "rust_functions" /\ tree[p].kind \in RustTypes /\ g[p] = "rust_spans"
      BY <2>2, <2>4 DEF FunctionsTeam, Parts, SpansTwin
    <3>2. tree[p].form \in Readable(Language, tree[p].kind)
      BY <2>2, <2>4, <3>1, FormsReadable DEF Definitions, RustTypes
    <3>3. Entries(Extractors[g[p]], p) # <<>>
      BY <2>2, <2>4, <3>1, <3>2, SpansSay DEF SpansTeam, Tells, RustTypes, RustTypeRows
    <3>4. Block(found["spans"], Entries(Extractors[g[p]], p), p)
      BY <2>2, <3>1 DEF Toured, Skipped
    <3>5. p \in Reported("spans")
      BY <2>2, <3>1, <3>3, <3>4, ReportedWhen DEF Staff, Definers, WalkNames
    <3> QED BY <2>1, <3>5
  <2>5. CASE Language \notin {"Go", "Rust"}
    BY <1>1, <2>2, <2>5 DEF FunctionsTeam, Parts, Languages
  <2> QED BY <2>3, <2>4, <2>5
<1> QED BY <1>4, <1>6, <1>7

LEMMA SpansMirrored ==
  ASSUME TreeOK, NEW f, NEW g, Toured("functions", f, FunctionsTeam[Language]),
         Toured("spans", g, SpansTeam[Language]), Language \notin {"TypeScript", "Java"},
         NEW e \in EntrySet("spans"), e.what = "function"
  PROVE  e \in EntrySet("functions")
<1> DEFINE n == e.node
<1>1. /\ Language \in Languages
      /\ FunctionsTeam[Language] \in SUBSET Definers /\ SpansTeam[Language] \in SUBSET Definers
  BY LanguageKnown, TeamsDefine DEF TreeOK
<1>2. n \in Nodes /\ g[n] \in SpansTeam[Language] /\ g[n] # Skipped /\ SaidBy(e, g[n])
  BY <1>1, TouredEntry
<1>3. /\ FirstExtractor["spans"][Language] \in DOMAIN FunctionsTwin
      /\ Route(g, FirstExtractor["spans"][Language])
      /\ Route(f, FunctionsTwin[FirstExtractor["spans"][Language]])
  BY <1>1, TeamsFirst DEF Toured
<1>4. \/ g[n] \in DOMAIN FunctionsTwin /\ f[n] = FunctionsTwin[g[n]]
      \/ Ancestors(n) \cap Apart(g, f, FunctionsTwin) # {}
  BY <1>2, <1>3, TwinsTogether, TwinsOf, FunctionsAccompany
<1>5. PICK i \in 1..Len(Says(Extractors[g[n]], tree[n].kind, tree[n].form)) :
             Says(Extractors[g[n]], tree[n].kind, tree[n].form)[i] = "function"
  BY <1>2 DEF SaidBy
<1>6. CASE g[n] \in DOMAIN FunctionsTwin /\ f[n] = FunctionsTwin[g[n]]
  <2>1. f[n] \in Definers /\ f[n] # Skipped /\ FirstExtractor["spans"][Language] \in Definers
    BY <1>1, <1>6, TwinsOf, TeamsFirst, SkippedOutside DEF Staff, WalkNames
  <2>2. Says(Extractors[f[n]], tree[n].kind, tree[n].form) =
          Says(Extractors[g[n]], tree[n].kind, tree[n].form)
    BY <1>5, <1>6, FunctionsSaySame
  <2>3. Block(found["functions"], Entries(Extractors[f[n]], n), n)
    BY <1>2, <2>1 DEF Toured
  <2>4. Record("spans", found["spans"], g, <<>>)
    BY DEF Toured
  <2> DEFINE b == f[n]
             v == "spans"
             w == "functions"
  <2>5. /\ v \in {"functions", "spans"} /\ w \in {"functions", "spans"}
        /\ Record(v, found[v], g, <<>>) /\ e \in EntrySet(v)
        /\ Block(found[w], Entries(Extractors[b], e.node), e.node)
    BY <2>3, <2>4
  <2> HIDE DEF b, v, w
  <2>6. e \in EntrySet(w)
    BY <1>3, <2>1, <2>2, <2>5, TwinEntry DEF b
  <2> QED BY <2>6 DEF w
<1>7. CASE Ancestors(n) \cap Apart(g, f, FunctionsTwin) # {}
  <2>1. PICK p \in Ancestors(n) : p \in Apart(g, f, FunctionsTwin)
    BY <1>7
  <2>2. p \in Nodes /\ g[p] \in SpansTeam[Language] /\ tree[p].kind \in Parts(g[p])
    BY <1>1, <2>1, TwinsOf, SkippedOutside DEF Apart, Toured, Staff, WalkNames
  <2>3. Language = "Go" /\ tree[p].kind = "type_declaration"
    BY <1>1, <2>2 DEF SpansTeam, Parts, Languages
  <2>4. g[n] \in {"go_spans", "go_type_specs"}
    BY <1>2, <2>3 DEF SpansTeam
  <2>5. tree[n].kind \in GoLeaves
    <3>1. CASE g[n] = "go_spans"
      <4>1. Extractors["go_spans"].records = Each(GoLeaves, Functions)
        BY DEF Extractors, GoSpans, Extractor
      <4>2. Says(Extractors["go_spans"], tree[n].kind, tree[n].form) # <<>>
        BY <1>5, <3>1
      <4> QED BY <4>1, <4>2 DEF Says, Each
    <3>2. CASE g[n] = "go_type_specs"
      <4> DEFINE said == Says(Extractors["go_type_specs"], tree[n].kind, tree[n].form)
      <4>1. Extractors["go_type_specs"].records = [type_spec |-> GoTypeSpecKind]
        BY DEF Extractors, GoTypeSpecs, Extractor, Only
      <4>2. said = <<>> \/ \E form \in DOMAIN GoTypeSpecKind : said = GoTypeSpecKind[form]
        <5> DEFINE rows == [type_spec |-> GoTypeSpecKind]
        <5>1. DOMAIN rows = {"type_spec"} /\ rows["type_spec"] = GoTypeSpecKind
          OBVIOUS
        <5> HIDE DEF rows
        <5>2. \/ said = <<>>
              \/ /\ tree[n].kind \in DOMAIN rows /\ tree[n].form \in DOMAIN rows[tree[n].kind]
                 /\ said = rows[tree[n].kind][tree[n].form]
          BY <4>1, SaysRows DEF rows
        <5> QED BY <5>1, <5>2
      <4>3. \A form \in DOMAIN GoTypeSpecKind : \A j \in 1..Len(GoTypeSpecKind[form]) :
              GoTypeSpecKind[form][j] # "function"
        <5> DEFINE row(what) == <<what>>
        <5>1. \A what : Len(row(what)) = 1 /\ row(what)[1] = what
          OBVIOUS
        <5>2. \A form \in DOMAIN GoTypeSpecKind :
                \E what \in {"struct", "interface", "type"} : GoTypeSpecKind[form] = row(what)
          BY DEF GoTypeSpecKind
        <5> HIDE DEF row
        <5> QED BY <5>1, <5>2
      <4>4. i \in 1..Len(said) /\ said[i] = "function"
        BY <1>5, <3>2
      <4> HIDE DEF said
      <4>5. said # <<>>
        BY <4>4
      <4> QED BY <4>2, <4>3, <4>4, <4>5
    <3> QED BY <2>4, <3>1, <3>2
  <2>6. tree[p].kind = "program"
    BY <1>2, <2>1, <2>3, <2>5, GoTopLevel
  <2> QED BY <2>3, <2>6
<1> QED BY <1>4, <1>6, <1>7

(* The two walks for definitions agree on functions, but for what a type that *)
(* is reported hides from the second.                                         *)
THEOREM SpansMirrorFunctions == Spec => []MirrorsFunctions
<1>1. ASSUME IInv PROVE MirrorsFunctions
  <2> SUFFICES ASSUME Done("spans")
               PROVE  /\ \A e \in EntrySet("functions") :
                           e \in EntrySet("spans") \/ Ancestors(e.node) \cap Reported("spans") # {}
                      /\ Language \notin {"TypeScript", "Java"} =>
                           FunctionEntries("spans") \subseteq FunctionEntries("functions")
    BY DEF MirrorsFunctions
  <2>1. TreeOK
    BY <1>1 DEF IInv
  <2>2. PICK f : Toured("functions", f, FunctionsTeam[Language])
    BY <1>1, Tours
  <2>3. PICK g : Toured("spans", g, SpansTeam[Language])
    BY <1>1, Tours
  <2>4. \A e \in EntrySet("functions") :
          e \in EntrySet("spans") \/ Ancestors(e.node) \cap Reported("spans") # {}
    BY <2>1, <2>2, <2>3, FunctionsMirrored
  <2>5. ASSUME Language \notin {"TypeScript", "Java"}
        PROVE  FunctionEntries("spans") \subseteq FunctionEntries("functions")
    BY <2>1, <2>2, <2>3, <2>5, SpansMirrored DEF FunctionEntries
  <2> QED BY <2>4, <2>5
<1> QED BY <1>1, Invariant, PTL

------------------------------------------------------------------------------
(* What has no symbol of its own.                                            *)

LEMMA ToldReported ==
  ASSUME TreeOK, NEW g, Toured("spans", g, SpansTeam[Language]), NEW n \in Nodes,
         g[n] \in SpansTeam[Language] \ {"typescript_declaration_span"},
         tree[n].kind \in Tells[g[n]], tree[n].form \in Readable(Language, tree[n].kind)
  PROVE  n \in Reported("spans")
<1>1. "spans" \in WalkNames /\ g[n] \in Staff["spans"] /\ g[n] # Skipped
  BY LanguageKnown, TeamsDefine, SkippedOutside DEF WalkNames, TreeOK, Staff
<1>2. Entries(Extractors[g[n]], n) # <<>>
  BY SpansSay
<1>3. Block(found["spans"], Entries(Extractors[g[n]], n), n)
  BY <1>1 DEF Toured
<1> QED BY <1>1, <1>2, <1>3, ReportedWhen

(* A node that the walk does not come by is below one that it does not look  *)
(* into.                                                                     *)
LEMMA HiddenBelow ==
  ASSUME TreeOK, NEW g, Toured("spans", g, SpansTeam[Language]), NEW n \in Nodes, g[n] = Skipped
  PROVE  \E a \in Ancestors(n) :
           a \in Nodes /\ g[a] \in SpansTeam[Language] /\ tree[a].kind \notin Open(g[a])
<1>1. "spans" \in WalkNames /\ Language \in Languages /\ Staff["spans"] = Definers
  BY LanguageKnown DEF WalkNames, TreeOK, Staff
<1>2. FirstExtractor["spans"][Language] \in Staff["spans"] /\ Route(g, FirstExtractor["spans"][Language])
  BY <1>1, FirstOfStaff DEF Toured
<1>3. PICK a \in Ancestors(n) : g[a] # Skipped /\ ~ Descends(Extractors[g[a]], a)
  BY <1>1, <1>2, Hidden
<1>4. a \in Nodes
  BY AncestorsAreNodes
<1>5. g[a] \in SpansTeam[Language] /\ g[a] \in Definers
  BY <1>1, <1>3, <1>4, TeamsDefine DEF Toured
<1> QED BY <1>3, <1>4, <1>5, OpenWhere

LEMMA TypescriptLost ==
  ASSUME TreeOK, Language = "TypeScript", NEW g, Toured("spans", g, SpansTeam[Language]),
         NEW n \in Nodes, tree[n].kind \in Definitions[Language],
         tree[n].form \in Readable(Language, tree[n].kind)
  PROVE  \/ n \in Reported("spans")
         \/ \E a \in Ancestors(n) : a \in Reported("spans") \/ tree[a].kind \in Overlooked
<1>1. /\ Route(g, "typescript_spans")
      /\ \A m \in Nodes : g[m] \in {"typescript_spans", "typescript_declaration_span", Skipped}
  BY DEF Toured, FirstExtractor, ParseSourceSpans, SpansTeam
<1>2. ASSUME NEW m \in Nodes, g[m] = "typescript_declaration_span"
      PROVE  \E a \in Ancestors(m) : tree[a].kind \in Overlooked
  <2> DEFINE by == "typescript_declaration_span"
  <2>1. by # "typescript_spans" /\ by # Skipped
    BY DEF Skipped
  <2>2. PICK a \in Ancestors(m) : g[a] \notin {by, Skipped} /\ Turn(g[a], a) = by
    <3> HIDE DEF by
    <3> QED BY <1>1, <1>2, <2>1, TookOver DEF by
  <2>3. a \in Nodes
    BY AncestorsAreNodes
  <2>4. g[a] = "typescript_spans"
    BY <1>1, <2>2, <2>3
  <2>5. Extractors["typescript_spans"].turns = [export_statement |-> by]
    BY DEF Extractors, TypescriptSpans, Extractor
  <2>6. tree[a].kind = "export_statement"
    BY <2>2, <2>4, <2>5 DEF Turn
  <2> QED BY <2>6 DEF Overlooked
<1>3. CASE g[n] = "typescript_spans"
  BY <1>3, ToldReported DEF Tells, SpansTeam
<1>4. CASE g[n] = "typescript_declaration_span"
  BY <1>2, <1>4
<1>5. CASE g[n] = Skipped
  <2>1. PICK a \in Ancestors(n) :
               a \in Nodes /\ g[a] \in SpansTeam[Language] /\ tree[a].kind \notin Open(g[a])
    BY <1>5, HiddenBelow
  <2>2. CASE g[a] = "typescript_spans"
    <3>1. Open("typescript_spans") = Kinds \ (TypescriptLeaves \cup {"type_alias_declaration"})
      BY DEF Open, Extractors, TypescriptSpans, Extractor
    <3>2. tree[a].kind \in TypescriptLeaves \cup {"type_alias_declaration"}
      BY <2>1, <2>2, <3>1, KindsKnown
    <3>3. tree[a].kind \in Definitions[Language] \/ tree[a].kind \in Overlooked
      BY <3>2 DEF TypescriptLeaves, Definitions, Overlooked
    <3>4. ASSUME tree[a].kind \in Definitions[Language] PROVE a \in Reported("spans")
      BY <2>1, <2>2, <3>4, FormsReadable, ToldReported DEF Tells, SpansTeam
    <3> QED BY <3>3, <3>4
  <2>3. CASE g[a] = "typescript_declaration_span"
    <3>1. PICK b \in Ancestors(a) : tree[b].kind \in Overlooked
      BY <1>2, <2>1, <2>3
    <3>2. b \in Ancestors(n)
      BY AncestorsNest
    <3> QED BY <3>1, <3>2
  <2> QED BY <2>1, <2>2, <2>3 DEF SpansTeam
<1> QED BY <1>1, <1>3, <1>4, <1>5

LEMMA RustLost ==
  ASSUME TreeOK, Language = "Rust", NEW g, Toured("spans", g, SpansTeam[Language]),
         NEW n \in Nodes, tree[n].kind \in Definitions[Language],
         tree[n].form \in Readable(Language, tree[n].kind)
  PROVE  \/ n \in Reported("spans")
         \/ \E a \in Ancestors(n) : a \in Reported("spans") \/ tree[a].kind \in Overlooked
<1>1. /\ Route(g, "rust_spans")
      /\ \A m \in Nodes : g[m] \in {"rust_spans", "rust_trait_method_spans", Skipped}
  BY DEF Toured, FirstExtractor, ParseSourceSpans, SpansTeam
<1>2. ASSUME NEW m \in Nodes, g[m] \in {"rust_spans", "rust_trait_method_spans"},
             tree[m].kind \in Tells[g[m]]
      PROVE  m \in Reported("spans")
  <2>1. tree[m].kind \in Definitions[Language]
    BY <1>2 DEF Tells, RustLeaves, RustTypeRows, Definitions
  <2>2. tree[m].form \in Readable(Language, tree[m].kind)
    BY <2>1, FormsReadable
  <2> QED BY <1>2, <2>2, ToldReported DEF SpansTeam
<1>3. \A k : /\ TurnsTo("rust_spans", k) =
                  IF k = "trait_item" THEN "rust_trait_method_spans" ELSE "rust_spans"
             /\ TurnsTo("rust_trait_method_spans", k) = "rust_trait_method_spans"
  BY DEF TurnsTo, Extractors, RustSpans, RustTraitMethodSpans, RustTraitMethods, Extractor, NoTurns,
         Each
<1>4. \A m \in Nodes : g[m] \in {"rust_spans", "rust_trait_method_spans"} =>
                         Turn(g[m], m) = TurnsTo(g[m], tree[m].kind)
  BY OpenWhere DEF Definers
<1>5. CASE g[n] = "rust_spans"
  <2>1. CASE tree[n].kind \in Tells["rust_spans"]
    BY <1>2, <1>5, <2>1
  <2>2. CASE tree[n].kind = "function_signature_item"
    <3> DEFINE p == tree[n].up
    <3>1. n # 1
      BY <2>2 DEF TreeOK, Conforms
    <3>2. n \in 2..Len(tree)
      BY <3>1, NodeTypes
    <3>3. p \in Nodes /\ p \in Ancestors(n) /\ g[n] = Follows(g, p)
      BY <1>1, <3>2, Parent DEF Route
    <3>4. /\ tree[p].kind \in DOMAIN Grammars[grammar].kinds
          /\ tree[n].kind \in Grammars[grammar].kinds[tree[p].kind].holds
      BY <3>2, <3>3 DEF TreeOK, Conforms, At
    <3> HIDE DEF p
    <3>5. tree[p].kind \in {"trait_item", "foreign_mod_item"}
      BY <2>2, <3>4, SignaturesAssumption DEF TreeOK
    <3>6. g[p] \in {"rust_spans", "rust_trait_method_spans"} /\ g[n] = TurnsTo(g[p], tree[p].kind)
      BY <1>1, <1>4, <1>5, <3>3 DEF Follows, Skipped
    <3>7. tree[p].kind # "trait_item"
      BY <1>3, <1>5, <3>6
    <3> QED BY <3>3, <3>5, <3>7 DEF Overlooked
  <2>3. tree[n].kind \in Tells["rust_spans"] \cup {"function_signature_item"}
    BY DEF Definitions, Tells, RustLeaves, RustTypeRows
  <2> QED BY <2>1, <2>2, <2>3
<1>6. CASE g[n] = "rust_trait_method_spans"
  <2> DEFINE by == "rust_trait_method_spans"
  <2>1. by # "rust_spans" /\ by # Skipped
    BY DEF Skipped
  <2>2. PICK a \in Ancestors(n) : g[a] \notin {by, Skipped} /\ Turn(g[a], a) = by
    <3> HIDE DEF by
    <3> QED BY <1>1, <1>6, <2>1, TookOver DEF by
  <2>3. a \in Nodes /\ g[a] = "rust_spans"
    BY <1>1, <2>2, AncestorsAreNodes
  <2>4. tree[a].kind = "trait_item"
    BY <1>3, <1>4, <2>2, <2>3
  <2> QED BY <1>2, <2>3, <2>4 DEF Tells, RustTypeRows
<1>7. CASE g[n] = Skipped
  <2>1. PICK a \in Ancestors(n) :
               a \in Nodes /\ g[a] \in SpansTeam[Language] /\ tree[a].kind \notin Open(g[a])
    BY <1>7, HiddenBelow
  <2>2. /\ Open("rust_spans") =
             Kinds \ (RustLeaves \cup {"struct_item", "union_item", "enum_item", "type_item"})
        /\ Open("rust_trait_method_spans") = Kinds \ (RustLeaves \cup {"function_signature_item"})
    BY DEF Open, Extractors, RustSpans, RustTraitMethodSpans, RustTraitMethods, Extractor
  <2>3. tree[a].kind \in Tells[g[a]] /\ g[a] \in {"rust_spans", "rust_trait_method_spans"}
    BY <2>1, <2>2, KindsKnown DEF SpansTeam, Tells, RustTypeRows
  <2> QED BY <1>2, <2>1, <2>3
<1> QED BY <1>1, <1>5, <1>6, <1>7

LEMMA GoLost ==
  ASSUME TreeOK, Language = "Go", NEW g, Toured("spans", g, SpansTeam[Language]),
         NEW n \in Nodes, tree[n].kind \in Definitions[Language],
         tree[n].form \in Readable(Language, tree[n].kind)
  PROVE  \/ n \in Reported("spans")
         \/ \E a \in Ancestors(n) : a \in Reported("spans") \/ tree[a].kind \in Overlooked
<1>1. /\ Route(g, "go_spans")
      /\ \A m \in Nodes : g[m] \in {"go_spans", "go_type_specs", Skipped}
  BY DEF Toured, FirstExtractor, ParseSourceSpans, SpansTeam
<1>2. ASSUME NEW m \in Nodes, g[m] \in {"go_spans", "go_type_specs"}, tree[m].kind \in Tells[g[m]]
      PROVE  m \in Reported("spans")
  <2>1. tree[m].kind \in Definitions[Language]
    BY <1>2 DEF Tells, GoLeaves, Definitions
  <2>2. tree[m].form \in Readable(Language, tree[m].kind)
    BY <2>1, FormsReadable
  <2> QED BY <1>2, <2>2, ToldReported DEF SpansTeam
<1>3. /\ \A k : TurnsTo("go_spans", k) = IF k = "type_declaration" THEN "go_type_specs" ELSE "go_spans"
      /\ Open("go_spans") = Kinds \ GoLeaves /\ Open("go_type_specs") = {}
  BY DEF TurnsTo, Open, Extractors, GoSpans, GoTypeSpecs, Extractor, Only
<1>4. \A m \in Nodes : g[m] \in {"go_spans", "go_type_specs"} =>
        /\ Turn(g[m], m) = TurnsTo(g[m], tree[m].kind)
        /\ Descends(Extractors[g[m]], m) => tree[m].kind \in Open(g[m])
  BY OpenWhere DEF Definers
<1>5. ASSUME NEW m \in 2..Len(tree)
      PROVE  /\ tree[m].up \in Nodes /\ tree[m].up \in Ancestors(m)
             /\ tree[tree[m].up].kind \in DOMAIN Grammars[grammar].kinds
             /\ tree[m].kind \in Grammars[grammar].kinds[tree[tree[m].up].kind].holds
             /\ g[m] # Skipped =>
                  /\ g[tree[m].up] = "go_spans"
                  /\ g[m] = "go_type_specs" <=> tree[tree[m].up].kind = "type_declaration"
  <2> DEFINE p == tree[m].up
  <2>1. p \in Nodes /\ p \in Ancestors(m) /\ g[m] = Follows(g, p)
    BY <1>1, Parent DEF Route
  <2>2. /\ tree[p].kind \in DOMAIN Grammars[grammar].kinds
        /\ tree[m].kind \in Grammars[grammar].kinds[tree[p].kind].holds
    BY <2>1 DEF TreeOK, Conforms, At
  <2> HIDE DEF p
  <2>3. ASSUME g[m] # Skipped
        PROVE  g[p] = "go_spans" /\ (g[m] = "go_type_specs" <=> tree[p].kind = "type_declaration")
    <3>1. g[p] # Skipped /\ Descends(Extractors[g[p]], p) /\ g[m] = Turn(g[p], p)
      BY <2>1, <2>3 DEF Follows
    <3>2. g[p] \in {"go_spans", "go_type_specs"}
      BY <1>1, <2>1, <3>1
    <3>3. g[p] = "go_spans"
      BY <1>3, <1>4, <2>1, <3>1, <3>2
    <3> QED BY <1>3, <1>4, <2>1, <3>1, <3>3
  <2> QED BY <2>1, <2>2, <2>3 DEF p
<1>6. /\ grammar \in DOMAIN Grammars /\ LanguageOf(grammar) = "Go"
      /\ tree[1].kind = "program"
  BY DEF TreeOK, Conforms, Language
<1>7. n \in 2..Len(tree)
  <2>1. n # 1
    BY <1>6 DEF Definitions
  <2> QED BY <2>1, NodeTypes
<1>8. CASE g[n] = "go_spans"
  <2>1. CASE tree[n].kind \in GoLeaves
    BY <1>2, <1>8, <2>1 DEF Tells
  <2>2. CASE tree[n].kind = "type_spec"
    <3>1. tree[tree[n].up].kind = "type_declaration"
      BY <1>5, <1>6, <1>7, <2>2, GoAssumption
    <3>2. g[n] = "go_type_specs"
      BY <1>5, <1>7, <1>8, <3>1 DEF Skipped
    <3> QED BY <1>8, <3>2
  <2> QED BY <2>1, <2>2 DEF Definitions, GoLeaves
<1>9. CASE g[n] = "go_type_specs"
  <2>1. CASE tree[n].kind \in GoLeaves
    <3>1. tree[tree[n].up].kind = "program"
      BY <1>5, <1>7, <2>1, GoTopLevel
    <3>2. tree[tree[n].up].kind = "type_declaration"
      BY <1>5, <1>7, <1>9 DEF Skipped
    <3> QED BY <3>1, <3>2
  <2>2. CASE tree[n].kind = "type_spec"
    BY <1>2, <1>9, <2>2 DEF Tells
  <2> QED BY <2>1, <2>2 DEF Definitions, GoLeaves
<1>10. CASE g[n] = Skipped
  <2>1. PICK a \in Ancestors(n) :
               a \in Nodes /\ g[a] \in SpansTeam[Language] /\ tree[a].kind \notin Open(g[a])
    BY <1>10, HiddenBelow
  <2>2. CASE g[a] = "go_spans"
    <3>1. tree[a].kind \in Tells["go_spans"]
      BY <1>3, <2>1, <2>2, KindsKnown DEF Tells
    <3> QED BY <1>2, <2>1, <2>2, <3>1
  <2>3. CASE g[a] = "go_type_specs"
    <3>1. a \in 2..Len(tree)
      <4>1. a # 1
        BY <1>1, <2>3 DEF Route
      <4> QED BY <2>1, <4>1, NodeTypes
    <3>2. tree[tree[a].up].kind = "type_declaration"
      BY <1>5, <2>3, <3>1 DEF Skipped
    <3>3. /\ tree[a].kind \in Grammars[grammar].kinds["type_declaration"].holds
          /\ "type_declaration" \in DOMAIN Grammars[grammar].kinds
      BY <1>5, <3>1, <3>2
    <3>4. CASE tree[a].kind = "type_spec"
      BY <1>2, <2>1, <2>3, <3>4 DEF Tells
    <3>5. CASE tree[a].kind = "type_alias"
      BY <3>5 DEF Overlooked
    <3>6. CASE tree[a].kind \notin {"type_spec", "type_alias"}
      <4>1. Grammars[grammar].kinds[tree[a].kind].holds = {}
        BY <1>6, <3>3, <3>6, GoAssumption
      <4>2. PICK i \in 1..Len(tree[a].kids) : tree[a].kids[i] \in Ancestors(n) \cup {n}
        BY <2>1, ChildTowards
      <4>3. tree[a].kids[i] \in 2..Len(tree) /\ tree[tree[a].kids[i]].up = a
        BY <2>1, <4>2, NodeTypes DEF TreeOK, Siblings
      <4> QED BY <1>5, <4>1, <4>3
    <3> QED BY <3>4, <3>5, <3>6
  <2> QED BY <2>1, <2>2, <2>3 DEF SpansTeam
<1> QED BY <1>1, <1>8, <1>9, <1>10

(* The other languages have one extractor, which looks into everything but   *)
(* the functions of Java and Ruby.                                           *)
LEMMA OthersLost ==
  ASSUME TreeOK, Language \in {"Python", "Bash", "Java", "C", "Ruby", "Cpp"}, NEW g,
         Toured("spans", g, SpansTeam[Language]), NEW n \in Nodes,
         tree[n].kind \in Definitions[Language], tree[n].form \in Readable(Language, tree[n].kind)
  PROVE  \/ n \in Reported("spans")
         \/ \E a \in Ancestors(n) : a \in Reported("spans") \/ tree[a].kind \in Overlooked
<1> DEFINE by == ParseSourceSpans[Language]
<1>1. /\ SpansTeam[Language] = {by} /\ by # "typescript_declaration_span"
      /\ Definitions[Language] \subseteq Tells[by]
  <2>1. CASE Language \in {"Java", "Ruby"}
    BY <2>1 DEF SpansTeam, ParseSourceSpans, Definitions, Tells, JavaLeaves, JavaTypeRows,
                RubyLeaves, RubyTypeRows
  <2>2. CASE Language \in {"Python", "Bash", "C", "Cpp"}
    BY <2>2 DEF SpansTeam, ParseSourceSpans, Definitions, Tells, CppTypeRows
  <2> QED BY <2>1, <2>2
<1>2. Open(by) = CASE Language = "Java" -> Kinds \ JavaLeaves
                   [] Language = "Ruby" -> Kinds \ RubyLeaves
                   [] OTHER             -> Kinds
  BY DEF ParseSourceSpans, Open, Extractors, PythonSpans, BashSpans, JavaSpans, CSpans, RubySpans,
         CppSpans, Extractor
<1>3. g[n] \in {by, Skipped}
  BY <1>1 DEF Toured
<1>4. CASE g[n] = by
  BY <1>1, <1>4, ToldReported
<1>5. CASE g[n] = Skipped
  <2>1. PICK a \in Ancestors(n) :
               a \in Nodes /\ g[a] \in SpansTeam[Language] /\ tree[a].kind \notin Open(g[a])
    BY <1>5, HiddenBelow
  <2>2. g[a] = by
    BY <1>1, <2>1
  <2>3. \/ Language = "Java" /\ tree[a].kind \in JavaLeaves
        \/ Language = "Ruby" /\ tree[a].kind \in RubyLeaves
    BY <1>2, <2>1, <2>2, KindsKnown
  <2>4. tree[a].kind \in Definitions[Language]
    BY <2>3 DEF Definitions, JavaLeaves, RubyLeaves
  <2>5. tree[a].form \in Readable(Language, tree[a].kind)
    BY <2>1, <2>3, <2>4, FormsReadable
  <2> QED BY <1>1, <2>1, <2>2, <2>4, <2>5, ToldReported
<1> QED BY <1>3, <1>4, <1>5

(* A definition whose name can be read has a symbol, or lies in something    *)
(* that has one, or in something the extractors overlook.                    *)
THEOREM DefinitionsLostOnlyInside == Spec => []LostOnlyInside
<1>1. ASSUME IInv PROVE LostOnlyInside
  <2> SUFFICES ASSUME Done("spans"), NEW n \in Nodes, tree[n].kind \in Definitions[Language],
                      tree[n].form \in Readable(Language, tree[n].kind)
               PROVE  \/ n \in Reported("spans")
                      \/ \E a \in Ancestors(n) : \/ a \in Reported("spans")
                                                 \/ tree[a].kind \in Overlooked
    BY DEF LostOnlyInside
  <2>1. TreeOK /\ Language \in Languages
    BY <1>1, LanguageKnown DEF IInv, TreeOK
  <2>2. PICK g : Toured("spans", g, SpansTeam[Language])
    BY <1>1, Tours
  <2>3. CASE Language = "TypeScript"
    BY <2>1, <2>2, <2>3, TypescriptLost
  <2>4. CASE Language = "Rust"
    BY <2>1, <2>2, <2>4, RustLost
  <2>5. CASE Language = "Go"
    BY <2>1, <2>2, <2>5, GoLost
  <2>6. CASE Language \in {"Python", "Bash", "Java", "C", "Ruby", "Cpp"}
    BY <2>1, <2>2, <2>6, OthersLost
  <2> QED BY <2>1, <2>3, <2>4, <2>5, <2>6 DEF Languages
<1> QED BY <1>1, Invariant, PTL
=============================================================================
