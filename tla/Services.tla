------------------------------ MODULE Services ------------------------------
(***************************************************************************)
(* The node service of src/src/Services.cpp: a tree of DNode objects held  *)
(* by shared_ptr from the parent's children table, a weak_ptr back to the  *)
(* parent, and m_sessionMap, which remembers by weak_ptr the session nodes *)
(* each session has created.  Every handler and removeEphemeral hold       *)
(* m_mutex from end to end, so each is one step.                           *)
(*                                                                         *)
(* Strong references are m_dummy and the children tables only, and a node  *)
(* is created as a leaf, so the objects alive are exactly those reachable  *)
(* from m_dummy: erasing an entry releases a whole subtree.  The storage   *)
(* of a released node is not reused while a weak_ptr refers to it.         *)
(***************************************************************************)
EXTENDS Naturals, Sequences, FiniteSets

CONSTANTS
    Sessions,    \* session ids that requests carry; the service checks none of them
    NoOwner,     \* ephemeralOwner 0
    Names,       \* names between slashes, the empty one included
    EmptyName,
    Data,        \* contents that requests carry
    DummyData,   \* "dummy"
    RootData,    \* "root"
    NodeTypes,   \* node types that create requests carry
    Nodes,       \* DNode storage: the bound on the objects alive at once
    Dummy,       \* m_dummy
    RootNode,    \* m_dummy->children[""]
    Nil,         \* the null pointer, an absent entry
    RawPaths     \* requested paths, as the text between their slashes

ASSUME NodesAssumption ==
    /\ Dummy \in Nodes /\ RootNode \in Nodes /\ Dummy # RootNode
    /\ Nil \notin Nodes
    /\ IsFiniteSet(Nodes)
ASSUME NamesAssumption == EmptyName \in Names /\ RawPaths \subseteq Seq(Names)

\* Any text may be requested.  A bound on the requests keeps what leads to a path:
\* the path above it, and in the end the root.
ASSUME PathsAssumption ==
    /\ <<>> \notin RawPaths /\ <<EmptyName>> \in RawPaths
    /\ \A raw \in RawPaths : Len(raw) > 1 => SubSeq(raw, 1, Len(raw) - 1) \in RawPaths

VARIABLES
    live,        \* objects not yet destroyed
    children,    \* DNode::children, object -> name -> object or Nil
    node,        \* the other fields of each object
    sessionMap,  \* m_sessionMap: session -> objects its weak_ptrs refer to
    resp         \* the latest request and its answer

vars == <<live, children, node, sessionMap, resp>>

NoChildren == [m \in Names |-> Nil]
Freed == [name |-> EmptyName, data |-> DummyData, type |-> "NONE",
          owner |-> NoOwner, parent |-> Nil]

\* Services::Services
Init ==
    /\ live = {Dummy, RootNode}
    /\ children = [p \in Nodes |-> IF p = Dummy
                                   THEN [NoChildren EXCEPT ![EmptyName] = RootNode]
                                   ELSE NoChildren]
    /\ node = [n \in Nodes |->
                 IF n \in {Dummy, RootNode}
                 THEN [name |-> EmptyName,
                       data |-> IF n = Dummy THEN DummyData ELSE RootData,
                       type |-> "PERSISTENT", owner |-> NoOwner, parent |-> Nil]
                 ELSE Freed]
    /\ sessionMap = [s \in Sessions |-> {}]
    /\ resp = [req |-> <<>>]

-----------------------------------------------------------------------------
(* Paths *)

\* A fault: empty names are let through.
SplitPathLax(raw) ==
    IF raw # <<>> /\ raw[Len(raw)] = EmptyName THEN SubSeq(raw, 1, Len(raw) - 1) ELSE raw

\* getline does not yield the empty text after a final slash; any other empty
\* name after the first makes the whole path malformed, which is <<>>.
SplitPath(raw) ==
    LET items == IF raw # <<>> /\ raw[Len(raw)] = EmptyName
                 THEN SubSeq(raw, 1, Len(raw) - 1) ELSE raw
    IN  IF \E i \in 2 .. Len(items) : items[i] = EmptyName THEN <<>> ELSE items

\* The object reached after i names; Nil as soon as one is missing.
Walk(path) ==
    LET curr[i \in 0 .. Len(path)] ==
          IF i = 0 THEN Dummy
          ELSE IF curr[i - 1] = Nil THEN Nil
          ELSE children[curr[i - 1]][path[i]]
    IN  curr
WalkTo(path) == Walk(path)[Len(path)]

Parent(path) == SubSeq(path, 1, Len(path) - 1)
LastName(path) == path[Len(path)]
\* A fault: the root is not told from other nodes.
IsRootNever(path) == FALSE

IsRoot(path) == Len(path) = 1

-----------------------------------------------------------------------------
(* Object lifetime *)

\* The objects a table of children keeps alive.
Closed(S, ch) ==
    /\ Dummy \in S
    /\ \A p \in S, m \in Names : ch[p][m] # Nil => ch[p][m] \in S
Reachable(ch) ==
    LET closed == {S \in SUBSET Nodes : Closed(S, ch)}
    IN  {n \in Nodes : \A S \in closed : n \in S}

\* The tables become ch, and what they no longer hold is destroyed.
ReleaseTo(ch) ==
    /\ live' = Reachable(ch)
    /\ children' = [p \in Nodes |-> IF p \in live' THEN ch[p] ELSE NoChildren]
    /\ node' = [n \in Nodes |-> IF n \in live' THEN node[n] ELSE Freed]

\* A fault: storage comes back at once, as if m_sessionMap held raw pointers.
AllocatableAtOnce == Nodes \ live

\* Storage make_shared may return.
Allocatable == {n \in Nodes \ live : \A s \in Sessions : n \notin sessionMap[s]}

-----------------------------------------------------------------------------
(* Operations *)

Ops == {"create", "get", "set", "delete", "ls", "stat", "exists"}
Done(req) == resp' = [req |-> req]
Fail(req, msg) == resp' = [req |-> req, err |-> msg]
Quiet == UNCHANGED <<live, children, node, sessionMap>>

\* handle: a kind m_funcs does not know, or a body that does not parse.
Unreadable ==
    /\ \/ Fail(<<"unknown">>, "error")
       \/ \E op \in Ops : Fail(<<op>>, "parse error")
    /\ Quiet

Malformed(req, raw) ==
    /\ SplitPath(raw) = <<>>
    /\ Fail(req, "path error")
    /\ Quiet

\* A handler that only answers, by Found(n) for the object n at the path.
Lookup(req, raw, Found(_)) ==
    LET path == SplitPath(raw)
        curr == WalkTo(path)
    IN  \/ Malformed(req, raw)
        \/ /\ path # <<>> /\ curr = Nil
           /\ Fail(req, "node not exists")
           /\ Quiet
        \/ /\ path # <<>> /\ curr # Nil
           /\ resp' = Found(curr)
           /\ Quiet

ChildNames(n) == {m \in Names : children[n][m] # Nil}

\* Two faults of the constructor: arguments in the wrong order, and the constructor
\* that sets no parent.
NewNodeSwapped(s, curr, name, data, type) ==
    [name |-> data, data |-> name, type |-> type,
     owner |-> IF type = "EPHEMERAL" THEN s ELSE NoOwner, parent |-> curr]
NewNodeParentless(s, curr, name, data, type) ==
    [name |-> name, data |-> data, type |-> type,
     owner |-> IF type = "EPHEMERAL" THEN s ELSE NoOwner, parent |-> Nil]

\* DNode::DNode
NewNode(s, curr, name, data, type) ==
    [name |-> name, data |-> data, type |-> type,
     owner |-> IF type = "EPHEMERAL" THEN s ELSE NoOwner, parent |-> curr]

\* The new object n under curr, remembered for its session if it is a session node.
Attach(s, n, curr, name, data, type) ==
    /\ live' = live \cup {n}
    /\ children' = [children EXCEPT ![curr][name] = n]
    /\ node' = [node EXCEPT ![n] = NewNode(s, curr, name, data, type)]
    /\ sessionMap' = IF type = "EPHEMERAL"
                     THEN [sessionMap EXCEPT ![s] = @ \cup {n}]
                     ELSE sessionMap

CreateNode(s, raw, data, type) ==
    LET req == <<"create", raw, s, data, type>>
        path == SplitPath(raw)
        name == LastName(path)
        curr == WalkTo(Parent(path))
    IN  \/ Malformed(req, raw)
        \/ /\ path # <<>> /\ curr = Nil
           /\ Fail(req, "path not exists")
           /\ Quiet
        \/ /\ path # <<>> /\ curr # Nil
           /\ children[curr][name] # Nil
           /\ Fail(req, "node already exists")
           /\ Quiet
        \/ /\ path # <<>> /\ curr # Nil
           /\ children[curr][name] = Nil
           /\ \E n \in Allocatable : Attach(s, n, curr, name, data, type)
           /\ Done(req)

GetNode(raw) ==
    LET req == <<"get", raw>>
    IN  Lookup(req, raw, LAMBDA n : [req |-> req, data |-> node[n].data])

SetNode(raw, data) ==
    LET req == <<"set", raw, data>>
        path == SplitPath(raw)
        curr == WalkTo(path)
    IN  \/ Malformed(req, raw)
        \/ /\ path # <<>> /\ curr = Nil
           /\ Fail(req, "node not exists")
           /\ Quiet
        \/ /\ path # <<>> /\ curr # Nil
           /\ node' = [node EXCEPT ![curr].data = data]
           /\ Done(req)
           /\ UNCHANGED <<live, children, sessionMap>>

DeleteNode(raw) ==
    LET req == <<"delete", raw>>
        path == SplitPath(raw)
        name == LastName(path)
        curr == WalkTo(Parent(path))
    IN  \/ Malformed(req, raw)
        \/ /\ IsRoot(path)
           /\ Fail(req, "delete the root node is not allowed")
           /\ Quiet
        \/ /\ path # <<>> /\ ~ IsRoot(path)
           /\ curr # Nil => children[curr][name] = Nil
           /\ Fail(req, "node not exists")
           /\ Quiet
        \/ /\ path # <<>> /\ ~ IsRoot(path)
           /\ curr # Nil /\ children[curr][name] # Nil
           /\ ReleaseTo([children EXCEPT ![curr][name] = Nil])
           /\ Done(req)
           /\ UNCHANGED sessionMap

LsNode(raw) ==
    LET req == <<"ls", raw>>
    IN  Lookup(req, raw, LAMBDA n : [req |-> req, children |-> ChildNames(n)])

StatNode(raw) ==
    LET req == <<"stat", raw>>
    IN  Lookup(req, raw, LAMBDA n : [req |-> req,
                                     dataLength |-> Len(node[n].data),
                                     ephemeralOwner |-> node[n].owner,
                                     numChildren |-> Cardinality(ChildNames(n)),
                                     nodeType |-> node[n].type])

\* existsNode answers success whether or not the path leads anywhere.
ExistsNode(raw) ==
    LET req == <<"exists", raw>>
        path == SplitPath(raw)
    IN  \/ Malformed(req, raw)
        \/ /\ path # <<>>
           /\ resp' = [req |-> req, exist |-> WalkTo(path) # Nil]
           /\ Quiet

\* A fault: nodes that have children are passed over.
ErasedLeaves(s) ==
    {<<node[n].parent, node[n].name>> :
        n \in {k \in sessionMap[s] : /\ k \in live /\ node[k].parent \in live
                                     /\ ChildNames(k) = {}}}

\* The entries removeEphemeral(s) erases: for each weak_ptr of the session whose
\* node and whose node's parent are alive, the parent's entry of that NAME.
\* An ancestor erased earlier in the loop only expires what its own release
\* destroys anyway, so the loop's order does not matter.
ErasedBy(s) ==
    {<<node[n].parent, node[n].name>> :
        n \in {k \in sessionMap[s] : k \in live /\ node[k].parent \in live}}

RemoveEphemeral(s) ==
    /\ UNCHANGED <<sessionMap, resp>>
    /\ ReleaseTo([p \in Nodes |-> [m \in Names |->
                    IF <<p, m>> \in ErasedBy(s) THEN Nil ELSE children[p][m]]])

Request ==
    \/ Unreadable
    \/ \E raw \in RawPaths :
         \/ GetNode(raw) \/ DeleteNode(raw) \/ LsNode(raw)
         \/ StatNode(raw) \/ ExistsNode(raw)
         \/ \E d \in Data : SetNode(raw, d)
         \/ \E s \in Sessions, d \in Data, t \in NodeTypes : CreateNode(s, raw, d, t)

SessionEnd == \E s \in Sessions : RemoveEphemeral(s)

Next == Request \/ SessionEnd

Spec == Init /\ [][Next]_vars

-----------------------------------------------------------------------------
(* Properties *)

AllTypes == NodeTypes \cup {"PERSISTENT", "NONE"}
AllData == Data \cup {DummyData, RootData}

\* Every variable keeps the shape its declaration gives it; answers are left to
\* the refinement, which fixes each of them.
TypeOK ==
    /\ live \subseteq Nodes
    /\ children \in [Nodes -> [Names -> Nodes \cup {Nil}]]
    /\ node \in [Nodes -> [name : Names, data : AllData, type : AllTypes,
                           owner : Sessions \cup {NoOwner},
                           parent : Nodes \cup {Nil}]]
    /\ sessionMap \in [Sessions -> SUBSET Nodes]

\* The root is there, a permanent child of the dummy, whatever is deleted and
\* whichever session ends (deleteNode refuses one-name paths; removeEphemeral has
\* no such refusal and relies on the root never being in m_sessionMap).
RootStays ==
    /\ {Dummy, RootNode} \subseteq live
    /\ children[Dummy][EmptyName] = RootNode

\* The two directions of the tree agree: an entry of a live parent names a live
\* object that points back at it under that name, and a live object is found at
\* its parent under its name.  removeEphemeral erases by parent and name, so it
\* hits the node it means only because of this.
TreeLinks ==
    /\ \A p \in Nodes, m \in Names :
         children[p][m] # Nil =>
            /\ p \in live /\ children[p][m] \in live \ {Dummy}
            /\ children[p][m] # RootNode =>
                 node[children[p][m]].parent = p /\ node[children[p][m]].name = m
            /\ children[p][m] = RootNode => p = Dummy /\ m = EmptyName
    /\ \A n \in live \ {Dummy, RootNode} :
         node[n].parent \in live /\ children[node[n].parent][node[n].name] = n

\* m_sessionMap names exactly the session nodes that are alive: none is missed
\* when its session ends, however often storage was released and reused, and no
\* weak_ptr of a session leads to a node that is not its own.
SessionMapExact ==
    \A s \in Sessions, n \in live :
        n \in sessionMap[s] <=> node[n].type = "EPHEMERAL" /\ node[n].owner = s

\* removeEphemeral(DNode*, s), the deprecated scan: cut every entry that leads to
\* a session node of s, and see what is still held.
CutOwned(s) ==
    [p \in Nodes |-> [m \in Names |->
        IF /\ children[p][m] # Nil
           /\ node[children[p][m]].type = "EPHEMERAL"
           /\ node[children[p][m]].owner = s
        THEN Nil ELSE children[p][m]]]

\* The m_sessionMap lookup that replaced the scan removes the same objects: when
\* session s ends, exactly its nodes and what is below them are destroyed.
EndRemovesOwned ==
    [][\A s \in Sessions : RemoveEphemeral(s) => live' = Reachable(CutOwned(s))]_vars

\* DNode.h calls PERSISTENT nodes permanent: the end of a session, which is only
\* to take session nodes away, leaves them alone.
PermanentStays ==
    [][SessionEnd => \A n \in live : node[n].type = "PERSISTENT" => n \in live']_vars

\* The service is the store it promises: the graph seen through its paths, with
\* the answer the store gives to each request.
CanonicalPaths == {q \in RawPaths : \A i \in 2 .. Len(q) : q[i] # EmptyName}
StoreView == [q \in {q \in CanonicalPaths : WalkTo(q) # Nil} |->
                LET n == node[WalkTo(q)]
                IN  [data |-> n.data, type |-> n.type, owner |-> n.owner]]
Store == INSTANCE NodeStore WITH store <- StoreView
ImplementsStore == Store!Spec
=============================================================================
