------------------------------- MODULE Evidence -------------------------------
(***************************************************************************)
(* The walkers that take evidence from a syntax tree (src/src/evidence/):  *)
(* bindings, imports the language pack did not report, call sites of Rust  *)
(* with those hidden in macro arguments, and call sites of other languages *)
(* by a query.                                                             *)
(*                                                                         *)
(* The nodes of a tree are numbered in the order of the source, a node     *)
(* before those below it, and before its children those that parsing the   *)
(* arguments of a macro gives.  A walk pops nodes from an explicit stack;  *)
(* the deadline may be spent at any of them.                               *)
(***************************************************************************)
EXTENDS Naturals, Sequences, FiniteSets, FiniteSetsExt, Functions

CONSTANTS
  Trees,          \* parsed files: [language, packImports, kind, at, name, last, kids, inside]
  MaxWalkDepth,   \* MAX_WALK_DEPTH
  MaxMacroDepth,  \* MAX_MACRO_DEPTH
  ProbeDepth      \* depth of a macro's arguments in the function put around them

NodeKinds == {"other", "identifier", "binding", "import", "function", "call", "macro"}

\* Node x has below it the nodes up to last[x], which are those of its children
\* (and of its arguments) one after another.
NodesOf(t) == DOMAIN t.kind
Below(t, p, x) == p <= x /\ x <= t.last[p]
InTurn(t, nodes) == \A i, j \in DOMAIN nodes : i < j => t.last[nodes[i]] < nodes[j]
IsTree(t) ==
  LET nodes == NodesOf(t) IN
  /\ t.last[1] \in Nat /\ 1 \in nodes /\ nodes = 1..t.last[1]
  /\ t.kind \in [nodes -> NodeKinds] /\ DOMAIN t.name = nodes /\ DOMAIN t.at = nodes
  /\ t.last \in [nodes -> nodes]
  /\ t.kids \in [nodes -> Seq(nodes)] /\ t.inside \in [nodes -> Seq(nodes)]
  /\ \A x \in nodes :
       /\ Below(t, x, x) /\ \A y \in nodes : Below(t, x, y) => t.last[y] <= t.last[x]
       /\ InTurn(t, t.inside[x]) /\ InTurn(t, t.kids[x])
       /\ \A i \in DOMAIN t.inside[x], j \in DOMAIN t.kids[x] : t.last[t.inside[x][i]] < t.kids[x][j]
       /\ \A y \in nodes : (x < y /\ Below(t, x, y)) <=>
            \E c \in Range(t.inside[x]) \cup Range(t.kids[x]) : Below(t, c, y)
       /\ t.inside[x] # <<>> => t.kind[x] = "macro" /\ t.language = "rust"

ASSUME EvidenceAssumption ==
  /\ MaxWalkDepth \in Nat \ {0} /\ MaxMacroDepth \in Nat \ {0} /\ ProbeDepth \in Nat
  /\ \A t \in Trees : /\ IsTree(t) /\ t.packImports \in BOOLEAN
                      /\ t.language \in {"rust", "queried", "other"}

VARIABLES
  parsed,     \* the file being walked
  walk,       \* "parse", "bindings", "imports", "calls" or "done"
  stack,      \* the pending nodes of the walk, the next one first
  recovery,   \* the pending nodes of the macro arguments being scanned
  items,      \* the evidence so far, each item with the node it is of
  counters,   \* keys given out: by the first two walks, by the calls
  spent,      \* the deadline is spent
  truncated, timed_out   \* of Extraction

evidenceVars == <<parsed, walk, stack, recovery, items, counters, spent, truncated, timed_out>>

Nodes == NodesOf(parsed)
Pending(x, depth, caller, level) == [node |-> x, depth |-> depth, caller |-> caller, level |-> level]
Item(kind, key, x, name, caller) ==
  [kind |-> kind, key |-> key, node |-> x, at |-> parsed.at[x], name |-> name, caller |-> caller]

-----------------------------------------------------------------------------
\* Names.

\* Of the nodes `among`, the first in the source that has one; "" is no name.
FirstNamed(among, naming) ==
  LET named == {x \in among : naming[x] # ""} IN IF named = {} THEN "" ELSE naming[Min(named)]
Identifier(t) == [x \in NodesOf(t) |-> IF t.kind[x] = "identifier" THEN t.name[x] ELSE ""]

\* first_identifier_descendant: an identifier among the children, else below
\* them, three levels down.
OwnOr(t, deeper) ==
  [x \in NodesOf(t) |->
     LET own == FirstNamed(Range(t.kids[x]), Identifier(t)) IN
     IF own # "" THEN own ELSE FirstNamed(Range(t.kids[x]), deeper)]
NameBelow(t) == OwnOr(t, OwnOr(t, OwnOr(t, [x \in NodesOf(t) |-> ""])))

\* identifier_name: a child, else a descendant.
IdentifierName(t, x) ==
  LET own == FirstNamed(Range(t.kids[x]), Identifier(t)) IN
  IF own # "" THEN own ELSE NameBelow(t)[x]

IsCall(x) == parsed.kind[x] \in {"call", "macro"}
\* caller_below: the innermost function, a closure having no name.
CallerBelow(x, caller) == IF parsed.kind[x] = "function" THEN parsed.name[x] ELSE caller

-----------------------------------------------------------------------------
\* The walks.

\* push_children: in front of the stack, in order.
Children(entry, caller) ==
  LET kids == parsed.kids[entry.node] IN
  [k \in DOMAIN kids |-> Pending(kids[k], entry.depth + 1, caller, entry.level)]

\* is_suppressed: an import directly below an import is its container's.
Suppressed(entry) == entry.caller = "import"

BindingItems(x) ==
  LET name == IdentifierName(parsed, x) IN
  IF parsed.kind[x] = "binding" /\ name # ""
  THEN <<Item("Symbol", <<"binding", counters.walkers>>, x, name, "")>> ELSE <<>>
ImportItems(entry) ==
  IF parsed.kind[entry.node] = "import" /\ ~Suppressed(entry)
  THEN <<Item("Import", <<"generic_import", counters.walkers>>, entry.node, "", "")>> ELSE <<>>
CallItem(entry) ==
  Item("Call", <<"call", counters.calls>>, entry.node, parsed.name[entry.node], entry.caller)

\* Wrong variant: every call found is emitted.
FirstSeen(x) == TRUE
\* emit_call: one row per byte range.
NotYetSeen(x) == ~\E k \in DOMAIN items : items[k].kind = "Call" /\ items[k].at = parsed.at[x]

\* parse_tree: the file's tree, the query's and that of a macro's arguments may
\* not parse, or be cut by the deadline (without_tree).
Parses == {"tree", "failed", "cut"}
WithoutTree(parse) ==
  /\ spent => parse = "cut"
  /\ truncated' = (truncated \/ parse = "failed")
  /\ timed_out' = (timed_out \/ parse = "cut")
  /\ spent' = (spent \/ parse = "cut")

\* open_fragment: the arguments of a macro are parsed, if it is not nested too
\* deep.  A macro within another is opened if there is any text in it, which
\* need not have nodes; the outermost always is.  A range that does not slice
\* ends like a failed parse.
Opens(x, level) == parsed.inside[x] # <<>> \/ (parsed.kind[x] = "macro" /\ level = 0)
Fragment(x, level, caller, parse) ==
  LET inside == parsed.inside[x] IN
  IF level >= MaxMacroDepth \/ parse # "tree" THEN <<>>
  ELSE [k \in DOMAIN inside |-> Pending(inside[k], ProbeDepth, caller, level)]
OpenFragment(x, level, caller, parse) ==
  \/ ~Opens(x, level) /\ parse = "tree" /\ UNCHANGED <<truncated, timed_out, spent>>
  \/ /\ parsed.kind[x] = "macro" /\ level >= MaxMacroDepth
     /\ parse = "tree" /\ truncated' = TRUE /\ UNCHANGED <<timed_out, spent>>
  \/ parsed.kind[x] = "macro" /\ level < MaxMacroDepth /\ WithoutTree(parse)

RootEntry == Pending(1, 0, "", 0)
UnchangedFile == UNCHANGED <<parsed, spent>>

\* extract_extra_walkers parses the file once for its walks.
ParseFile ==
  /\ walk = "parse"
  /\ \E parse \in Parses :
       /\ WithoutTree(parse)
       /\ IF parse = "tree" THEN walk' = "bindings" /\ stack' = <<RootEntry>>
          ELSE walk' = "done" /\ stack' = <<>>
  /\ UNCHANGED <<parsed, recovery, items, counters>>

\* The top of every loop: the deadline ends the walk, the depth the branch.
Stop ==
  /\ stack # <<>> /\ recovery = <<>> /\ spent
  /\ timed_out' = TRUE /\ stack' = <<>>
  /\ UNCHANGED <<walk, recovery, items, counters, truncated>> /\ UnchangedFile

TooDeep ==
  /\ stack # <<>> /\ recovery = <<>> /\ ~spent /\ Head(stack).depth >= MaxWalkDepth
  /\ truncated' = TRUE /\ stack' = Tail(stack)
  /\ UNCHANGED <<walk, recovery, items, counters, timed_out>> /\ UnchangedFile

Visits(w) ==
  walk = w /\ stack # <<>> /\ recovery = <<>> /\ ~spent /\ Head(stack).depth < MaxWalkDepth

Gives(new, counter) ==
  items' = items \o new /\ counters' = [counters EXCEPT ![counter] = @ + Len(new)]

\* walk_bindings, walk_imports.
VisitBinding ==
  /\ Visits("bindings")
  /\ Gives(BindingItems(Head(stack).node), "walkers")
  /\ stack' = Children(Head(stack), "") \o Tail(stack)
  /\ UNCHANGED <<walk, recovery, truncated, timed_out>> /\ UnchangedFile
VisitImport ==
  /\ Visits("imports")
  /\ Gives(ImportItems(Head(stack)), "walkers")
  /\ stack' = Children(Head(stack), parsed.kind[Head(stack).node]) \o Tail(stack)
  /\ UNCHANGED <<walk, recovery, truncated, timed_out>> /\ UnchangedFile

\* walk of calls.rs: a macro's arguments are scanned before its siblings.
VisitRust ==
  LET entry == Head(stack)
      x == entry.node
  IN
  /\ Visits("calls") /\ parsed.language = "rust"
  /\ items' = IF IsCall(x) /\ NotYetSeen(x) THEN Append(items, CallItem(entry)) ELSE items
  /\ counters' = IF IsCall(x) THEN [counters EXCEPT !.calls = @ + 1] ELSE counters
  /\ \E parse \in Parses :
       /\ OpenFragment(x, 0, entry.caller, parse)
       /\ recovery' = Fragment(x, 0, entry.caller, parse)
  /\ stack' = Children(entry, CallerBelow(x, entry.caller)) \o Tail(stack)
  /\ UNCHANGED <<walk, parsed>>

\* scan of macro_calls.rs.
StopRecovery ==
  /\ recovery # <<>> /\ spent
  /\ timed_out' = TRUE /\ recovery' = <<>>
  /\ UNCHANGED <<walk, stack, items, counters, truncated>> /\ UnchangedFile
PassTooDeep ==
  /\ recovery # <<>> /\ ~spent /\ Head(recovery).depth >= MaxWalkDepth
  /\ truncated' = TRUE /\ recovery' = Tail(recovery)
  /\ UNCHANGED <<walk, stack, items, counters, timed_out>> /\ UnchangedFile
Recover ==
  LET entry == Head(recovery)
      x == entry.node
      row == IsCall(x) /\ parsed.name[x] # "" /\ NotYetSeen(x)
  IN
  /\ recovery # <<>> /\ ~spent /\ entry.depth < MaxWalkDepth
  /\ items' = IF row THEN Append(items, CallItem(entry)) ELSE items
  /\ counters' = IF row THEN [counters EXCEPT !.calls = @ + 1] ELSE counters
  /\ \E parse \in Parses :
       /\ OpenFragment(x, entry.level + 1, entry.caller, parse)
       /\ recovery' = Fragment(x, entry.level + 1, entry.caller, parse)
                      \o (Children(entry, CallerBelow(x, entry.caller)) \o Tail(recovery))
  /\ UNCHANGED <<walk, stack, parsed>>

\* run of query_calls: the query's matches, in order; it starts none below the
\* depth of the walks, and does not say so.
VisitQueried ==
  LET entry == Head(stack)
      x == entry.node
  IN
  /\ Visits("calls") /\ parsed.language # "rust"
  /\ Gives(IF parsed.kind[x] = "call" THEN <<CallItem(entry)>> ELSE <<>>, "calls")
  /\ stack' = (IF entry.depth + 1 < MaxWalkDepth
               THEN Children(entry, CallerBelow(x, entry.caller)) ELSE <<>>) \o Tail(stack)
  /\ UNCHANGED <<walk, recovery, truncated, timed_out>> /\ UnchangedFile

\* The next walk over the tree.  A query parses the file anew, and for a
\* language that has none there are no calls to find.
NextWalk ==
  CASE walk = "bindings" -> IF parsed.packImports THEN "calls" ELSE "imports"
    [] walk = "imports" -> "calls"
    [] OTHER -> "done"

EndWalk ==
  /\ walk \in {"bindings", "imports", "calls"} /\ stack = <<>> /\ recovery = <<>>
  /\ \E parse \in Parses :
       /\ IF NextWalk = "calls" /\ parsed.language = "queried" THEN WithoutTree(parse)
          ELSE parse = "tree" /\ UNCHANGED <<truncated, timed_out, spent>>
       /\ IF NextWalk = "done" \/ parse # "tree" \/ (NextWalk = "calls" /\ parsed.language = "other")
          THEN walk' = "done" /\ stack' = <<>>
          ELSE walk' = NextWalk /\ stack' = <<RootEntry>>
  /\ UNCHANGED <<parsed, recovery, items, counters>>

Spend ==
  /\ ~spent /\ walk # "done" /\ spent' = TRUE
  /\ UNCHANGED <<parsed, walk, stack, recovery, items, counters, truncated, timed_out>>

EvidenceInit ==
  /\ parsed \in Trees /\ walk = "parse"
  /\ stack = <<>> /\ recovery = <<>> /\ items = <<>>
  /\ counters = [walkers |-> 0, calls |-> 0]
  /\ spent = FALSE /\ truncated = FALSE /\ timed_out = FALSE

EvidenceNext ==
  \/ ParseFile \/ Stop \/ TooDeep \/ VisitBinding \/ VisitImport \/ VisitRust \/ VisitQueried
  \/ StopRecovery \/ PassTooDeep \/ Recover \/ EndWalk \/ Spend

EvidenceSpec == EvidenceInit /\ [][EvidenceNext]_evidenceVars

-----------------------------------------------------------------------------
\* What a file has, by its tree alone.

Above(t, x) == {y \in NodesOf(t) : y < x /\ Below(t, y, x)}
Hidden(t, x) == \E z \in NodesOf(t) : \E c \in Range(t.inside[z]) : Below(t, c, x)
CallerOf(t, x) ==
  LET functions == {y \in Above(t, x) : t.kind[y] = "function"} IN
  IF functions = {} THEN "" ELSE t.name[Max(functions)]
BelowImport(t, x) == \E p \in NodesOf(t) : t.kind[p] = "import" /\ x \in Range(t.kids[p])

HasSymbol(t, x) == t.kind[x] = "binding" /\ ~Hidden(t, x) /\ IdentifierName(t, x) # ""
HasImport(t, x) == t.kind[x] = "import" /\ ~Hidden(t, x) /\ ~BelowImport(t, x) /\ ~t.packImports
HasCall(t, x) ==
  \/ t.kind[x] = "call" /\ t.language = "queried"
  \/ t.kind[x] \in {"call", "macro"} /\ t.language = "rust" /\ (Hidden(t, x) => t.name[x] # "")

IsFact(t, item) ==
  LET x == item.node IN
  /\ item.at = t.at[x]
  /\ \/ item.kind = "Symbol" /\ HasSymbol(t, x) /\ item.name = IdentifierName(t, x)
     \/ item.kind = "Import" /\ HasImport(t, x)
     \/ item.kind = "Call" /\ HasCall(t, x) /\ item.name = t.name[x] /\ item.caller = CallerOf(t, x)

GivenAs(kind, x) == \E k \in DOMAIN items : items[k].kind = kind /\ items[k].node = x
\* Of the nodes with one range the first, which is the outermost, is the call.
GivenCall(x) ==
  \E k \in DOMAIN items :
    /\ items[k].kind = "Call" /\ items[k].node <= x
    /\ IF parsed.language = "rust" THEN items[k].at = parsed.at[x] ELSE items[k].node = x

\* An extraction that says nothing of a cut has each binding, import and call
\* of the file, those in macro arguments included, and calls with their
\* callers; one that was cut has nothing else.  No node is given twice, no call
\* of Rust by two nodes of its range, and no key twice.
EvidenceIsExact ==
  /\ \A k \in DOMAIN items : IsFact(parsed, items[k])
  /\ walk = "done" /\ ~truncated /\ ~timed_out =>
       \A x \in Nodes : /\ HasSymbol(parsed, x) => GivenAs("Symbol", x)
                        /\ HasImport(parsed, x) => GivenAs("Import", x)
                        /\ HasCall(parsed, x) => GivenCall(x)
  /\ \A j, k \in DOMAIN items : j # k =>
       /\ items[j].key # items[k].key
       /\ items[j].kind = items[k].kind =>
            /\ items[j].node # items[k].node
            /\ parsed.language = "rust" /\ items[j].kind = "Call" => items[j].at # items[k].at

-----------------------------------------------------------------------------
(* The inductive invariant behind it.                                       *)

Depth(t, x) == Cardinality(Above(t, x))
Words(t) == Range(t.name) \cup NodeKinds \cup {""}
Pendings == [node : Nodes, depth : Nat, caller : Words(parsed), level : Nat]
EvidenceTypeOK ==
  /\ parsed \in Trees /\ walk \in {"parse", "bindings", "imports", "calls", "done"}
  /\ stack \in Seq(Pendings) /\ recovery \in Seq(Pendings)
  /\ items \in Seq([kind : {"Symbol", "Import", "Call"}, key : {"binding", "generic_import", "call"} \X Nat,
                    node : Nodes, at : Range(parsed.at), name : Words(parsed),
                    caller : Words(parsed)])
  /\ counters \in [walkers : Nat, calls : Nat]
  /\ spent \in BOOLEAN /\ truncated \in BOOLEAN /\ timed_out \in BOOLEAN

EntriesInTurn(t, entries) ==
  \A i, j \in DOMAIN entries : i < j => t.last[entries[i].node] < entries[j].node
WaitsIn(t, entries, x) == \E i \in DOMAIN entries : Below(t, entries[i].node, x)

\* What is pending comes in the order of the source, arguments first, and no
\* two of the pending have a node below them in common.
PendingInTurn ==
  /\ EntriesInTurn(parsed, stack) /\ EntriesInTurn(parsed, recovery)
  /\ \A i \in DOMAIN recovery, j \in DOMAIN stack : parsed.last[recovery[i].node] < stack[j].node
  /\ recovery # <<>> => walk = "calls" /\ parsed.language = "rust"
  /\ stack # <<>> => walk \in {"bindings", "imports", "calls"}
  /\ walk = "imports" => ~parsed.packImports
  /\ walk = "calls" => parsed.language # "other"

\* What is carried down with a node is what the tree says of it.
PendingIsTrue ==
  /\ \A i \in DOMAIN stack :
       LET e == stack[i] IN
       /\ ~Hidden(parsed, e.node) /\ e.depth = Depth(parsed, e.node)
       /\ walk = "imports" => (Suppressed(e) <=> BelowImport(parsed, e.node))
       /\ walk = "calls" => e.caller = CallerOf(parsed, e.node)
  /\ \A i \in DOMAIN recovery :
       Hidden(parsed, recovery[i].node) /\ recovery[i].caller = CallerOf(parsed, recovery[i].node)

Makes == [bindings |-> "Symbol", imports |-> "Import", calls |-> "Call"]

\* What a walk gave is behind what it has to visit.
GivenIsPast ==
  \A k \in DOMAIN items :
    LET kind == items[k].kind IN
    /\ \/ kind = "Symbol" /\ walk # "parse"
       \/ kind = "Import" /\ walk \in {"imports", "calls", "done"}
       \/ kind = "Call" /\ walk \in {"calls", "done"}
    /\ walk \in DOMAIN Makes /\ kind = Makes[walk] =>
         /\ \A i \in DOMAIN stack : items[k].node < stack[i].node
         /\ \A i \in DOMAIN recovery : items[k].node < recovery[i].node
    /\ items[k].key[1] = CASE kind = "Symbol" -> "binding" [] kind = "Import" -> "generic_import"
                           [] OTHER -> "call"
    /\ items[k].key[2] < (IF kind = "Call" THEN counters.calls ELSE counters.walkers)

Waiting(x) == WaitsIn(parsed, stack, x) \/ WaitsIn(parsed, recovery, x)

Later == [bindings |-> {"imports", "calls", "done"}, imports |-> {"calls", "done"}, calls |-> {"done"}]
Passed(w, x) == walk \in Later[w] \/ (walk = w /\ ~Waiting(x))

\* While nothing was cut, what a walk has passed was given, and the first of
\* them passed nothing that is too deep.
NothingLost ==
  ~truncated /\ ~timed_out =>
    \A x \in Nodes :
      /\ Passed("bindings", x) => /\ Hidden(parsed, x) \/ Depth(parsed, x) < MaxWalkDepth
                                  /\ HasSymbol(parsed, x) => GivenAs("Symbol", x)
      /\ Passed("imports", x) /\ HasImport(parsed, x) => GivenAs("Import", x)
      /\ Passed("calls", x) /\ HasCall(parsed, x) => GivenCall(x)

EvidenceInv == EvidenceTypeOK /\ PendingInTurn /\ PendingIsTrue /\ GivenIsPast /\ NothingLost /\ EvidenceIsExact
================================================================================
