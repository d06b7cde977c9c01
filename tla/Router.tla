------------------------------- MODULE Router -------------------------------
(***************************************************************************)
(* The path trie of Router.cpp.  A path is the sequence of the texts       *)
(* between its slashes, so "/a/" is <<Empty, "a", Empty>> and "" is        *)
(* <<Empty>>.  A node of the trie is the sequence of the edges that lead   *)
(* to it from the root; the edge to a paramChild is AnyText.  A            *)
(* registration that throws keeps the nodes it has already created.        *)
(***************************************************************************)
EXTENDS Integers, FiniteSets, FiniteSetsExt, Sequences, SequencesExt

CONSTANTS
  Empty,           \* the text between two adjacent slashes
  AnyText,         \* the edge to a paramChild
  Param,           \* the name of each parameter segment; Empty for ":" alone
  Registrations,   \* the calls of addRoute and addProxyRoute: [method, path,
                   \* kind, callable], kind being "handler", "echo" or "proxy"
  Requests,        \* the requests made: [method, path]
  MaxRegistrations \* bound: how many registrations the program makes

ASSUME RouterConstants ==
  /\ MaxRegistrations \in Nat
  /\ \A r \in Registrations \cup Requests : r.path \in Seq(STRING) \ {<<>>}
  /\ \A r \in Registrations : r.kind \in {"handler", "echo", "proxy"}
  /\ AnyText \notin UNION {Range(r.path) : r \in Registrations \cup Requests}

VARIABLES
  nodes,      \* the nodes of the trie
  paramName,  \* TrieNode::paramName of the nodes an AnyText edge leads to
  handlers,   \* TrieNode::handlers: the entry of <<node, method>>
  attempts,   \* how many registrations were made
  accepted    \* history: the entries of the registrations that did not throw

routes == <<nodes, paramName, handlers, attempts, accepted>>

-----------------------------------------------------------------------------
(* splitPath throws for a path that does not start with a slash or has an  *)
(* empty segment; one trailing slash is ignored.                           *)
SplitOK(path) ==
  /\ Len(path) > 1
  /\ path[1] = Empty
  /\ \A i \in 2 .. Len(path) - 1 : path[i] # Empty

Segments(path) ==
  IF Last(path) = Empty THEN SubSeq(path, 2, Len(path) - 1) ELSE Tail(path)

IsParam(text) == text \in DOMAIN Param

(* The node that the first n segments of a pattern lead to.                *)
NodeAt(pattern, n) == [i \in 1 .. n |-> IF IsParam(pattern[i]) THEN AnyText ELSE pattern[i]]

\* Seeded fault: a parameter may have another name.
RefusedUnnamed(pattern, i) == IsParam(pattern[i]) /\ Param[pattern[i]] = Empty

(* How many segments of a pattern resolveOrCreateNode walks through before *)
(* it throws: it refuses a parameter without a name, and one that has      *)
(* another name at this node.                                              *)
Refused(pattern, i) ==
  /\ IsParam(pattern[i])
  /\ \/ Param[pattern[i]] = Empty
     \/ /\ NodeAt(pattern, i) \in nodes
        /\ paramName[NodeAt(pattern, i)] # Param[pattern[i]]
Walked(pattern) ==
  Min({Len(pattern)} \cup {i - 1 : i \in {j \in 1 .. Len(pattern) : Refused(pattern, j)}})

\* Seeded fault: a second registration replaces the first.
NeverTaken(node, method) == FALSE

Taken(node, method) == <<node, method>> \in DOMAIN handlers

(* An empty handler, an empty upstream host or a malformed path is refused *)
(* before the trie is touched.                                             *)
RegisterNothing(reg) ==
  /\ attempts < MaxRegistrations
  /\ ~(reg.callable /\ SplitOK(reg.path))
  /\ attempts' = attempts + 1
  /\ UNCHANGED <<nodes, paramName, handlers, accepted>>

Register(reg) ==
  LET pattern == Segments(reg.path)
      made    == {NodeAt(pattern, i) : i \in 1 .. Walked(pattern)}
      node    == NodeAt(pattern, Len(pattern))
      entry   == [reg |-> reg, id |-> attempts + 1]
  IN /\ attempts < MaxRegistrations
     /\ reg.callable /\ SplitOK(reg.path)
     /\ attempts' = attempts + 1
     /\ nodes' = nodes \cup made
     /\ paramName' = [n \in {m \in nodes' \ {<<>>} : Last(m) = AnyText} |->
                        IF n \in nodes THEN paramName[n] ELSE Param[pattern[Len(n)]]]
     /\ IF Walked(pattern) = Len(pattern) /\ ~Taken(node, reg.method)
        THEN /\ handlers' = [p \in DOMAIN handlers \cup {<<node, reg.method>>} |->
                               IF p = <<node, reg.method>> THEN entry ELSE handlers[p]]
             /\ accepted' = accepted \cup {entry}
        ELSE UNCHANGED <<handlers, accepted>>  \* a refused segment, a duplicate

-----------------------------------------------------------------------------
(* match goes down the trie, the literal child before the parameter, and   *)
(* never comes back; a node that does not exist has no children.           *)
Descend(tree, node, text) ==
  IF Append(node, text) \in tree THEN Append(node, text) ELSE Append(node, AnyText)

Walk(tree, segments) ==
  LET at[n \in 0 .. Len(segments)] ==
        IF n = 0 THEN <<>> ELSE Descend(tree, at[n - 1], segments[n])
  IN at

Reached(tree, path) == Walk(tree, Segments(path))[Len(Segments(path))]

(* params.emplace keeps the first value of a name that occurs twice.       *)
FirstOf(names, values) ==
  [name \in Range(names) \ {Empty} |-> values[Min({i \in DOMAIN names : names[i] = name})]]

ParamsAt(name, node, path) ==
  FirstOf([i \in DOMAIN node |-> IF node[i] = AnyText THEN name[SubSeq(node, 1, i)] ELSE Empty],
          Segments(path))

(* The route found in a trie, with its parameters: a set of at most one.   *)
Found(tree, name, entries, request) ==
  LET node == Reached(tree, request.path)
  IN IF SplitOK(request.path) /\ <<node, request.method>> \in DOMAIN entries
     THEN {[entry  |-> entries[<<node, request.method>>],
            params |-> ParamsAt(name, node, request.path)]}
     ELSE {}

Match(request) == Found(nodes, paramName, handlers, request)

-----------------------------------------------------------------------------
RouterInit ==
  /\ nodes = {<<>>}
  /\ paramName = <<>>
  /\ handlers = <<>>
  /\ attempts = 0
  /\ accepted = {}

RouterNext == \E reg \in Registrations : RegisterNothing(reg) \/ Register(reg)

-----------------------------------------------------------------------------
(* What the registrations promise, without the trie's walk: of the routes   *)
(* accepted for the method that fit the path, the one whose parameters     *)
(* stand at no place where the trie has the request's own text.            *)
Fits(pattern, segments) ==
  /\ Len(pattern) = Len(segments)
  /\ \A i \in DOMAIN pattern :
       IF IsParam(pattern[i])
       THEN Append(NodeAt(pattern, i - 1), segments[i]) \notin nodes
       ELSE pattern[i] = segments[i]

ParamsOf(entry, request) ==
  LET pattern == Segments(entry.reg.path)
  IN FirstOf([i \in DOMAIN pattern |-> IF IsParam(pattern[i]) THEN Param[pattern[i]] ELSE Empty],
             Segments(request.path))

BestMatch(request) ==
  {[entry |-> entry, params |-> ParamsOf(entry, request)] :
     entry \in {e \in accepted :
                  /\ e.reg.method = request.method
                  /\ SplitOK(request.path)
                  /\ Fits(Segments(e.reg.path), Segments(request.path))}}

Place(entry) == NodeAt(Segments(entry.reg.path), Len(Segments(entry.reg.path)))

(* Router.cpp:97-143: a registration never hands the requests of one route *)
(* to another: what it does not leave alone, parameters included, answers  *)
(* through the new route, at another node, or not at all.  (A registration *)
(* that throws may well hide an older route: the literal nodes it created  *)
(* stay.)                                                                  *)
RoutesAreNotRedirected ==
  [][attempts' # attempts =>
       \A r \in Requests : \A before \in Match(r), after \in Match(r)' :
         \/ after = before
         \/ after.entry \notin accepted /\ Place(after.entry) # Place(before.entry)]_routes
=============================================================================
