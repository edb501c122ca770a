----------------------------- MODULE MCEvidence -----------------------------
(* Trees written as nested nodes, numbered for Evidence.                     *)
EXTENDS Evidence, SequencesExt
Leaf(kind, at, name) == [kind |-> kind, at |-> at, name |-> name, kids |-> <<>>, inside |-> <<>>]
Node(kind, at, name, kids) == [Leaf(kind, at, name) EXCEPT !.kids = kids]
Macro(at, name, kids, inside) == [Leaf("macro", at, name) EXCEPT !.kids = kids, !.inside = inside]
Ident(n) == Leaf("identifier", <<0,0>>, n)

RECURSIVE Listed(_)
Listed(node) ==
  LET below(nodes) == FlattenSeq([k \in DOMAIN nodes |-> Listed(nodes[k])]) IN
  <<node>> \o below(node.inside) \o below(node.kids)
SizeOf(node) == Len(Listed(node))
\* The numbers of the nodes that come one after another from `first`.
RECURSIVE NumbersFrom(_, _)
NumbersFrom(first, nodes) ==
  IF nodes = <<>> THEN <<>> ELSE <<first>> \o NumbersFrom(first + SizeOf(nodes[1]), Tail(nodes))
RECURSIVE SizeOfAll(_)
SizeOfAll(nodes) == IF nodes = <<>> THEN 0 ELSE SizeOf(nodes[1]) + SizeOfAll(Tail(nodes))
Numbered(language, packImports, root) ==
  LET all == Listed(root) IN
  [language |-> language, packImports |-> packImports,
   kind |-> [x \in DOMAIN all |-> all[x].kind], at |-> [x \in DOMAIN all |-> all[x].at],
   name |-> [x \in DOMAIN all |-> all[x].name],
   last |-> [x \in DOMAIN all |-> x + SizeOf(all[x]) - 1],
   inside |-> [x \in DOMAIN all |-> NumbersFrom(x + 1, all[x].inside)],
   kids |-> [x \in DOMAIN all |-> NumbersFrom(x + 1 + SizeOfAll(all[x].inside), all[x].kids)]]

MCTrees == {
  Numbered("rust", TRUE,
   Node("other", <<0, 40>>, "", <<
     Node("function", <<0, 30>>, "f", <<
        Ident("f"), Node("binding", <<2,9>>, "", <<Node("other", <<2,3>>, "", <<Ident("x")>>), Leaf("call", <<4,8>>, "g")>>),
        Macro(<<10, 28>>, "vec", <<Leaf("call", <<12,14>>, "h")>>,
            <<Leaf("call", <<12,14>>, "h"),
              Node("function", <<15,20>>, "", <<Leaf("call", <<16,18>>, "k"), Leaf("call", <<18,19>>, "")>>),
              Macro(<<21,27>>, "dbg", <<>>, <<Leaf("call", <<22,24>>, "m")>>)>>)>>)>>)),
  Numbered("rust", TRUE,
   Node("other", <<0, 40>>, "", <<
        Macro(<<10, 28>>, "a", <<>>, <<Macro(<<12,26>>, "b", <<>>, <<Macro(<<14,24>>, "c", <<>>, <<Leaf("call", <<16,20>>, "m")>>)>>)>>),
        Macro(<<30, 38>>, "d", <<>>, <<Node("call", <<31, 37>>, "y", <<Node("other", <<32, 36>>, "", <<
           Node("other", <<32, 36>>, "", <<Leaf("call", <<33, 35>>, "z")>>)>>)>>)>>)>>)),
  Numbered("queried", FALSE,
   Node("other", <<0, 40>>, "", <<
        Node("import", <<0,9>>, "", <<Leaf("import", <<1,8>>, "")>>),
        Node("function", <<10,30>>, "f", <<Node("binding", <<11,20>>, "", <<Node("call", <<12,19>>, "g", <<Leaf("call", <<13,15>>, "deep")>>), Ident("y")>>)>>)>>)),
  Numbered("queried", TRUE,
   Node("function", <<0, 40>>, "q", <<
        Node("function", <<1,20>>, "r", <<Leaf("call", <<2,9>>, "s"), Leaf("call", <<2,9>>, "s")>>), Leaf("call", <<21,30>>, "t")>>)),
  Numbered("other", FALSE, Node("import", <<0, 4>>, "", <<Leaf("binding", <<1,3>>, "")>>))}
=============================================================================
