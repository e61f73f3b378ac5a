--------------------------- MODULE ServicesProofs ---------------------------
(***************************************************************************)
(* Theorems about Services, for every set of sessions, names, paths and    *)
(* node storage: the links of the tree, the map of sessions, and that the  *)
(* object graph is the map from paths to nodes of NodeStore.               *)
(***************************************************************************)
EXTENDS Services, LeastNumber, SequenceTheorems, FunctionTheorems, FiniteSetTheorems

-----------------------------------------------------------------------------
(* Walking a path *)

\* One unfolding of the function that walkTo's loop computes.
WalkStep(path, f) ==
    [i \in 0 .. Len(path) |->
       IF i = 0 THEN Dummy
       ELSE IF f[i - 1] = Nil THEN Nil
       ELSE children[f[i - 1]][path[i]]]

\* A function on 0 .. k that starts at the dummy and follows the children tables.
Follows(path, k, g) ==
    /\ DOMAIN g = 0 .. k
    /\ g[0] = Dummy
    /\ \A i \in 1 .. k :
         g[i] = IF g[i - 1] = Nil THEN Nil ELSE children[g[i - 1]][path[i]]

\* The loop of walkTo is defined on every path: each prefix of it has run.
LEMMA WalkExists ==
    ASSUME NEW path \in Seq(Names)
    PROVE  \E g : Follows(path, Len(path), g)
<1> DEFINE T == {k \in Nat : k <= Len(path) /\ ~ \E g : Follows(path, k, g)}
<1>0. Len(path) \in Nat /\ Len(path) <= Len(path)
  OBVIOUS
<1> SUFFICES ASSUME T # {} PROVE FALSE
  BY <1>0
<1>1. PICK k \in T : \A j \in T : ~ (j < k)
  <2> HIDE DEF T
  <2>1. T \subseteq Nat
    BY DEF T
  <2> QED
    BY <2>1, LeastNumber
<1>2. k # 0
  <2>1. Follows(path, 0, [i \in 0 .. 0 |-> Dummy])
    BY DEF Follows
  <2> QED
    BY <2>1, <1>1
<1>3. k - 1 \in Nat /\ k - 1 < k /\ k - 1 <= Len(path) /\ k \in Nat
  BY <1>1, <1>2
<1>4. PICK g : Follows(path, k - 1, g)
  BY <1>1, <1>3
<1> DEFINE h == [i \in 0 .. k |->
                   IF i < k THEN g[i]
                   ELSE IF g[k - 1] = Nil THEN Nil ELSE children[g[k - 1]][path[k]]]
<1>5. Follows(path, k, h)
  <2>1. DOMAIN h = 0 .. k /\ h[0] = Dummy
    BY <1>2, <1>3, <1>4 DEF Follows
  <2>2. ASSUME NEW i \in 1 .. k
        PROVE  h[i] = IF h[i - 1] = Nil THEN Nil ELSE children[h[i - 1]][path[i]]
    <3>1. CASE i < k
      <4>1. i \in 1 .. (k - 1) /\ h[i] = g[i] /\ h[i - 1] = g[i - 1]
        BY <3>1, <1>3
      <4> QED
        BY <4>1, <1>4 DEF Follows
    <3>2. CASE i = k
      BY <3>2, <1>3
    <3> QED
      BY <3>1, <3>2, <1>3
  <2> HIDE DEF h
  <2> QED
    BY <2>1, <2>2 DEF Follows
<1> QED
  BY <1>1, <1>5

\* The recursive definition of Walk does what it says.
LEMMA WalkFollows ==
    ASSUME NEW path \in Seq(Names)
    PROVE  Follows(path, Len(path), Walk(path))
<1>1. Walk(path) = CHOOSE f : f = WalkStep(path, f)
  BY DEF Walk, WalkStep
<1>2. PICK g : Follows(path, Len(path), g)
  BY WalkExists
<1>3. \E f : f = WalkStep(path, f)
  <2>1. WalkStep(path, g) = [i \in 0 .. Len(path) |-> g[i]]
    <3>1. ASSUME NEW i \in 0 .. Len(path)
          PROVE  g[i] = IF i = 0 THEN Dummy
                        ELSE IF g[i - 1] = Nil THEN Nil
                        ELSE children[g[i - 1]][path[i]]
      BY <1>2 DEF Follows
    <3> QED
      BY <3>1 DEF WalkStep
  <2> DEFINE h == [i \in 0 .. Len(path) |-> g[i]]
  <2>2. WalkStep(path, h) = WalkStep(path, g)
    BY DEF WalkStep
  <2> QED
    BY <2>1, <2>2
<1>4. Walk(path) = WalkStep(path, Walk(path))
  BY <1>1, <1>3
<1> DEFINE w == Walk(path)
<1> HIDE DEF w
<1>5. w = WalkStep(path, w)
  BY <1>4 DEF w
<1>6. Follows(path, Len(path), w)
  BY <1>5, SMTT(30) DEF Follows, WalkStep
<1> QED
  BY <1>6 DEF w

\* A walk over live tables ends at a live object or at Nil, and comes back to the
\* dummy only if the path is empty.
LEMMA WalkToLive ==
    ASSUME TypeOK, RootStays, TreeLinks, NEW path \in Seq(Names)
    PROVE  /\ WalkTo(path) \in live \cup {Nil}
           /\ Len(path) > 0 => WalkTo(path) # Dummy
<1> DEFINE w == Walk(path)
           Good(i) == w[i] \in live \cup {Nil} /\ (i > 0 => w[i] # Dummy)
           T == {k \in Nat : k <= Len(path) /\ ~ Good(k)}
<1>0. Len(path) \in Nat /\ \A i \in 1 .. Len(path) : path[i] \in Names
  OBVIOUS
<1>1. Follows(path, Len(path), w)
  BY WalkFollows
<1> HIDE DEF w
<1>2. ASSUME T # {} PROVE FALSE
  <2>1. PICK k \in T : \A j \in T : ~ (j < k)
    <3>1. T \subseteq Nat
      OBVIOUS
    <3> HIDE DEF T
    <3> QED
      BY <1>2, <3>1, LeastNumber
  <2>2. k # 0
    BY <2>1, <1>0, <1>1 DEF Follows, RootStays
  <2>3. k \in 1 .. Len(path) /\ k - 1 \in Nat /\ k - 1 < k /\ k - 1 <= Len(path)
    BY <2>1, <2>2, <1>0
  <2>4. w[k - 1] \in live \cup {Nil}
    BY <2>1, <2>3
  <2>5. w[k] = IF w[k - 1] = Nil THEN Nil ELSE children[w[k - 1]][path[k]]
    BY <1>1, <2>3 DEF Follows
  <2>6. Good(k)
    <3>1. CASE w[k - 1] = Nil
      BY <3>1, <2>5, NodesAssumption
    <3>2. CASE w[k - 1] # Nil
      <4>1. w[k - 1] \in Nodes /\ path[k] \in Names
        BY <3>2, <2>4, <2>3, <1>0 DEF TypeOK
      <4>2. w[k] = children[w[k - 1]][path[k]]
        BY <2>5, <3>2
      <4> QED
        BY <4>1, <4>2, NodesAssumption DEF TreeLinks
    <3> QED
      BY <3>1, <3>2
  <2> QED
    BY <2>1, <2>6
<1>3. Good(Len(path))
  BY <1>0, <1>2
<1> QED
  BY <1>0, <1>3 DEF WalkTo, w

\* A requested path is well-formed as splitPath returns it, and so are the parts
\* createNode and deleteNode cut it into.
LEMMA SplitPathType ==
    ASSUME NEW raw \in RawPaths
    PROVE  /\ SplitPath(raw) \in Seq(Names)
           /\ SplitPath(raw) # <<>> =>
                /\ LastName(SplitPath(raw)) \in Names
                /\ Parent(SplitPath(raw)) \in Seq(Names)
                /\ Len(Parent(SplitPath(raw))) = Len(SplitPath(raw)) - 1
                /\ Len(SplitPath(raw)) > 0
<1> DEFINE items == IF raw # <<>> /\ raw[Len(raw)] = EmptyName
                    THEN SubSeq(raw, 1, Len(raw) - 1) ELSE raw
           path == SplitPath(raw)
<1>1. raw \in Seq(Names)
  BY NamesAssumption
<1>2. items \in Seq(Names)
  BY <1>1
<1>3. path = items \/ path = <<>>
  BY DEF SplitPath
<1> HIDE DEF path, items
<1>4. path \in Seq(Names)
  BY <1>2, <1>3, EmptySeq
<1>5. path # <<>> => Len(path) \in Nat /\ Len(path) > 0
  BY <1>4, EmptySeq
<1>6. ASSUME path # <<>>
      PROVE  /\ LastName(path) \in Names
             /\ Parent(path) \in Seq(Names)
             /\ Len(Parent(path)) = Len(path) - 1
  <2> DEFINE n == Len(path)
  <2>1. n \in Nat /\ n > 0 /\ \A i \in 1 .. n : path[i] \in Names
    BY <1>4, <1>5, <1>6
  <2> HIDE DEF n
  <2>2. n \in 1 .. n /\ n - 1 \in Int /\ \A i \in 1 .. n - 1 : path[i] \in Names
    BY <2>1
  <2>3. /\ SubSeq(path, 1, n - 1) \in Seq(Names)
        /\ Len(SubSeq(path, 1, n - 1)) = IF 1 <= n - 1 THEN n - 1 - 1 + 1 ELSE 0
    BY <2>2, SubSeqProperties
  <2>4. Len(SubSeq(path, 1, n - 1)) = n - 1
    BY <2>1, <2>3
  <2> QED
    BY <2>1, <2>2, <2>3, <2>4 DEF Parent, LastName, n
<1> QED
  BY <1>4, <1>5, <1>6 DEF path

-----------------------------------------------------------------------------
(* What the tables keep alive *)

Tables == [Nodes -> [Names -> Nodes \cup {Nil}]]

\* Reachable(ch) is closed under the tables, and is the least such set.
LEMMA ReachableLeast ==
    ASSUME NEW ch \in Tables
    PROVE  /\ Reachable(ch) \subseteq Nodes
           /\ Closed(Reachable(ch), ch)
           /\ \A S \in SUBSET Nodes : Closed(S, ch) => Reachable(ch) \subseteq S
<1>1. Dummy \in Reachable(ch)
  BY NodesAssumption DEF Reachable, Closed
<1>2. ASSUME NEW p \in Reachable(ch), NEW m \in Names, ch[p][m] # Nil
      PROVE  ch[p][m] \in Reachable(ch)
  <2>1. p \in Nodes /\ ch[p][m] \in Nodes
    BY <1>2 DEF Reachable, Tables
  <2> QED
    BY <1>2, <2>1 DEF Reachable, Closed
<1> QED
  BY <1>1, <1>2 DEF Reachable, Closed

\* Every object reached other than the dummy is an entry of an object reached.
LEMMA ReachableHasEntry ==
    ASSUME NEW ch \in Tables, NEW n \in Reachable(ch), n # Dummy
    PROVE  \E p \in Reachable(ch), m \in Names : ch[p][m] = n
<1> SUFFICES ASSUME \A p \in Reachable(ch), m \in Names : ch[p][m] # n
             PROVE  FALSE
  OBVIOUS
<1> DEFINE S == Reachable(ch) \ {n}
<1>1. S \in SUBSET Nodes /\ Closed(S, ch)
  BY ReachableLeast DEF Closed
<1> QED
  BY <1>1, ReachableLeast

-----------------------------------------------------------------------------
(* The inductive invariant *)

\* Neither the dummy nor the root is a session node.
Permanent == node[Dummy].type # "EPHEMERAL" /\ node[RootNode].type # "EPHEMERAL"

IInv == TypeOK /\ RootStays /\ TreeLinks /\ SessionMapExact /\ Permanent

LEMMA InitIInv == Init => IInv
<1> SUFFICES ASSUME Init PROVE IInv
  OBVIOUS
<1> USE NodesAssumption, NamesAssumption DEF Init
<1>1. TypeOK
  BY DEF TypeOK, NoChildren, Freed, AllData, AllTypes
<1>2. RootStays
  BY DEF RootStays, NoChildren
<1>3. TreeLinks
  BY DEF TreeLinks, NoChildren
<1>4. SessionMapExact
  BY DEF SessionMapExact
<1>5. Permanent
  BY DEF Permanent
<1> QED
  BY <1>1, <1>2, <1>3, <1>4, <1>5 DEF IInv

\* Erasing entries of the tables, other than the root's, keeps the invariant:
\* whatever loses its last entry is destroyed with everything below it.
LEMMA ReleaseKeeps ==
    ASSUME IInv, NEW ch \in Tables,
           \A p \in Nodes, m \in Names : ch[p][m] \in {children[p][m], Nil},
           ch[Dummy][EmptyName] = RootNode,
           ReleaseTo(ch), UNCHANGED sessionMap
    PROVE  IInv'
<1> USE DEF IInv
<1>1. /\ live' \subseteq Nodes /\ Closed(live', ch)
      /\ \A n \in live' \ {Dummy} : \E p \in live', m \in Names : ch[p][m] = n
  BY ReachableLeast, ReachableHasEntry DEF ReleaseTo
<1>2. \A p \in Nodes, m \in Names :
        children'[p][m] = IF p \in live' THEN ch[p][m] ELSE Nil
  BY DEF ReleaseTo, NoChildren
<1>3. live' \subseteq live
  <2>1. \A n \in live' \ {Dummy} : \E p \in Nodes, m \in Names : children[p][m] = n
    <3> SUFFICES ASSUME NEW n \in live' \ {Dummy}
                 PROVE  \E p \in Nodes, m \in Names : children[p][m] = n
      OBVIOUS
    <3>1. PICK p \in live', m \in Names : ch[p][m] = n
      BY <1>1
    <3>2. p \in Nodes /\ n \in Nodes
      BY <1>1
    <3> QED
      BY <3>1, <3>2, NodesAssumption
  <2>2. \A n \in live' \ {Dummy} : n \in Nodes /\ n # Nil
    BY <1>1, NodesAssumption
  <2> QED
    BY <2>1, <2>2 DEF TreeLinks, RootStays
<1>4. \A n \in live' : node'[n] = node[n]
  BY <1>1 DEF ReleaseTo
<1>5. TypeOK'
  <2>1. children' \in [Nodes -> [Names -> Nodes \cup {Nil}]]
    BY DEF ReleaseTo, NoChildren, Tables
  <2>2. Freed \in [name : Names, data : AllData, type : AllTypes,
                   owner : Sessions \cup {NoOwner}, parent : Nodes \cup {Nil}]
    BY NamesAssumption DEF Freed, AllData, AllTypes
  <2>3. node' \in [Nodes -> [name : Names, data : AllData, type : AllTypes,
                             owner : Sessions \cup {NoOwner},
                             parent : Nodes \cup {Nil}]]
    BY <2>2 DEF ReleaseTo, TypeOK
  <2> QED
    BY <1>1, <2>1, <2>3 DEF TypeOK
<1>6. RootStays'
  BY <1>1, <1>2, NodesAssumption, NamesAssumption DEF RootStays, Closed
<1>7. TreeLinks'
  <2>1. ASSUME NEW p \in Nodes, NEW m \in Names, children'[p][m] # Nil
        PROVE  /\ p \in live' /\ children'[p][m] \in live' \ {Dummy}
               /\ children'[p][m] = children[p][m] /\ children[p][m] # Nil
    <3>1. p \in live' /\ children'[p][m] = ch[p][m] /\ ch[p][m] # Nil
      BY <1>2, <2>1
    <3>2. ch[p][m] = children[p][m]
      BY <3>1
    <3> QED
      BY <3>1, <3>2, <1>1 DEF Closed, TreeLinks
  <2>2. ASSUME NEW n \in live' \ {Dummy, RootNode}
        PROVE  node[n].parent \in live' /\ children'[node[n].parent][node[n].name] = n
    <3>1. PICK p \in live', m \in Names : ch[p][m] = n
      BY <1>1, <2>2
    <3>2. p \in Nodes /\ n \in Nodes /\ n # Nil /\ n # RootNode
      BY <1>1, <2>2, NodesAssumption
    <3>3. children[p][m] = n
      BY <3>1, <3>2
    <3>4. node[n].parent = p /\ node[n].name = m
      BY <3>2, <3>3 DEF TreeLinks
    <3> QED
      BY <3>1, <3>2, <3>4, <1>2
  <2> QED
    BY <2>1, <2>2, <1>4 DEF TreeLinks
<1>8. SessionMapExact'
  BY <1>3, <1>4 DEF SessionMapExact
<1>9. Permanent'
  BY <1>4, <1>6 DEF Permanent, RootStays
<1> QED
  BY <1>5, <1>6, <1>7, <1>8, <1>9

\* Hanging a new object under a live one keeps the invariant: no table, and no
\* weak_ptr, knew its storage.
LEMMA AttachKeeps ==
    ASSUME IInv, NEW s \in Sessions, NEW n \in Allocatable, NEW curr \in live,
           NEW name \in Names, NEW data \in Data, NEW type \in NodeTypes,
           children[curr][name] = Nil,
           Attach(s, n, curr, name, data, type)
    PROVE  IInv'
<1> USE DEF IInv
<1>1. n \in Nodes /\ n \notin live /\ \A r \in Sessions : n \notin sessionMap[r]
  BY DEF Allocatable
<1>2. curr \in Nodes /\ n # curr /\ n # Nil /\ n \notin {Dummy, RootNode}
  BY <1>1, NodesAssumption DEF TypeOK, RootStays
<1>3. \A p \in Nodes, m \in Names :
        children'[p][m] = IF p = curr /\ m = name THEN n ELSE children[p][m]
  BY <1>2 DEF Attach, NewNode, TypeOK
<1>4. \A k \in Nodes : k # n => node'[k] = node[k]
  BY DEF Attach, NewNode, TypeOK
<1>5. /\ node'[n].name = name /\ node'[n].type = type /\ node'[n].parent = curr
      /\ node'[n].owner = IF type = "EPHEMERAL" THEN s ELSE NoOwner
  BY <1>1 DEF Attach, NewNode, TypeOK
<1>6. TypeOK'
  <2>1. live' \subseteq Nodes
    BY <1>1 DEF Attach, NewNode, TypeOK
  <2>2. children' \in [Nodes -> [Names -> Nodes \cup {Nil}]]
    BY <1>1, <1>2 DEF Attach, NewNode, TypeOK
  <2>3. node' \in [Nodes -> [name : Names, data : AllData, type : AllTypes,
                             owner : Sessions \cup {NoOwner},
                             parent : Nodes \cup {Nil}]]
    <3> DEFINE new == [name |-> name, data |-> data, type |-> type,
                       owner |-> IF type = "EPHEMERAL" THEN s ELSE NoOwner,
                       parent |-> curr]
    <3>1. new \in [name : Names, data : AllData, type : AllTypes,
                   owner : Sessions \cup {NoOwner}, parent : Nodes \cup {Nil}]
      BY <1>2 DEF AllData, AllTypes
    <3>2. node' = [node EXCEPT ![n] = new]
      BY DEF Attach, NewNode
    <3> HIDE DEF new
    <3> QED
      BY <3>1, <3>2, <1>1 DEF TypeOK
  <2>4. sessionMap' \in [Sessions -> SUBSET Nodes]
    BY <1>1 DEF Attach, NewNode, TypeOK
  <2> QED
    BY <2>1, <2>2, <2>3, <2>4 DEF TypeOK
<1>7. RootStays'
  BY <1>2, <1>3, NodesAssumption, NamesAssumption DEF RootStays, Attach, NewNode
<1>8. TreeLinks'
  <2>1. ASSUME NEW p \in Nodes, NEW m \in Names, children'[p][m] # Nil
        PROVE  /\ p \in live' /\ children'[p][m] \in live' \ {Dummy}
               /\ children'[p][m] # RootNode =>
                    /\ node'[children'[p][m]].parent = p
                    /\ node'[children'[p][m]].name = m
               /\ children'[p][m] = RootNode => p = Dummy /\ m = EmptyName
    <3>1. CASE p = curr /\ m = name
      BY <3>1, <1>1, <1>2, <1>3, <1>5 DEF Attach, NewNode
    <3>2. CASE ~ (p = curr /\ m = name)
      <4>1. children'[p][m] = children[p][m] /\ children[p][m] # Nil
        BY <3>2, <2>1, <1>3
      <4>2. p \in live /\ children[p][m] \in live \ {Dummy}
        BY <4>1 DEF TreeLinks
      <4>3. children[p][m] \in Nodes /\ children[p][m] # n
        BY <4>2, <1>1 DEF TypeOK
      <4> QED
        BY <4>1, <4>2, <4>3, <1>4 DEF TreeLinks, Attach, NewNode
    <3> QED
      BY <3>1, <3>2
  <2>2. ASSUME NEW k \in live' \ {Dummy, RootNode}
        PROVE  /\ node'[k].parent \in live'
               /\ children'[node'[k].parent][node'[k].name] = k
    <3>1. CASE k = n
      BY <3>1, <1>2, <1>3, <1>5 DEF Attach, NewNode
    <3>2. CASE k # n
      <4>1. k \in live /\ k \in Nodes /\ node'[k] = node[k]
        BY <3>2, <2>2, <1>4 DEF Attach, NewNode, TypeOK
      <4>2. /\ node[k].parent \in live /\ node[k].parent \in Nodes
            /\ node[k].name \in Names
            /\ children[node[k].parent][node[k].name] = k
        BY <4>1, <2>2 DEF TreeLinks, TypeOK
      <4>3. ~ (node[k].parent = curr /\ node[k].name = name)
        BY <4>1, <4>2, NodesAssumption
      <4> QED
        BY <4>1, <4>2, <4>3, <1>3 DEF Attach, NewNode
    <3> QED
      BY <3>1, <3>2
  <2> QED
    BY <2>1, <2>2 DEF TreeLinks
<1>9. SessionMapExact'
  <2> SUFFICES ASSUME NEW r \in Sessions, NEW k \in live'
               PROVE  k \in sessionMap'[r] <=>
                        node'[k].type = "EPHEMERAL" /\ node'[k].owner = r
    BY DEF SessionMapExact
  <2>1. \A x : x # n => (x \in sessionMap'[r] <=> x \in sessionMap[r])
    BY DEF Attach, NewNode, TypeOK
  <2>2. n \in sessionMap'[r] <=> type = "EPHEMERAL" /\ r = s
    BY <1>1 DEF Attach, NewNode, TypeOK
  <2>3. CASE k = n
    BY <2>3, <2>2, <1>5
  <2>4. CASE k # n
    <3>1. k \in live /\ k \in Nodes
      BY <2>4 DEF Attach, NewNode, TypeOK
    <3> QED
      BY <3>1, <2>1, <2>4, <1>4 DEF SessionMapExact
  <2> QED
    BY <2>3, <2>4
<1>10. Permanent'
  BY <1>2, <1>4, NodesAssumption DEF Permanent
<1> QED
  BY <1>6, <1>7, <1>8, <1>9, <1>10

-----------------------------------------------------------------------------
(* One lemma per handler *)

LEMMA QuietKeeps == IInv /\ Quiet => IInv'
BY DEF IInv, Quiet, TypeOK, RootStays, TreeLinks, SessionMapExact, Permanent

\* The handlers that only look.
LEMMA ReadsKeep ==
    ASSUME IInv, NEW raw \in RawPaths,
           GetNode(raw) \/ LsNode(raw) \/ StatNode(raw) \/ ExistsNode(raw)
    PROVE  IInv'
BY QuietKeeps DEF GetNode, LsNode, StatNode, ExistsNode, Lookup, Malformed

LEMMA CreateKeeps ==
    ASSUME IInv, NEW s \in Sessions, NEW raw \in RawPaths, NEW data \in Data,
           NEW type \in NodeTypes, CreateNode(s, raw, data, type)
    PROVE  IInv'
<1> DEFINE path == SplitPath(raw)
           name == LastName(path)
           curr == WalkTo(Parent(path))
<1>1. CASE Quiet
  BY <1>1, QuietKeeps
<1>2. CASE /\ path # <<>> /\ curr # Nil /\ children[curr][name] = Nil
           /\ \E n \in Allocatable : Attach(s, n, curr, name, data, type)
  <2>1. name \in Names /\ Parent(path) \in Seq(Names)
    BY <1>2, SplitPathType
  <2> HIDE DEF path
  <2>2. curr \in live
    BY <1>2, <2>1, WalkToLive DEF IInv
  <2> HIDE DEF curr, name
  <2> QED
    BY <1>2, <2>1, <2>2, AttachKeeps
<1> QED
  BY <1>1, <1>2 DEF CreateNode, Malformed

LEMMA SetKeeps ==
    ASSUME IInv, NEW raw \in RawPaths, NEW data \in Data, SetNode(raw, data)
    PROVE  IInv'
<1> DEFINE path == SplitPath(raw)
           curr == WalkTo(path)
<1>1. CASE Quiet
  BY <1>1, QuietKeeps
<1>2. CASE /\ path # <<>> /\ curr # Nil
           /\ node' = [node EXCEPT ![curr].data = data]
           /\ UNCHANGED <<live, children, sessionMap>>
  <2>1. path \in Seq(Names)
    BY SplitPathType
  <2> HIDE DEF path
  <2>2. curr \in live
    BY <1>2, <2>1, WalkToLive DEF IInv
  <2> HIDE DEF curr
  <2>3. curr \in Nodes
    BY <2>2 DEF IInv, TypeOK
  <2>4. TypeOK'
    BY <1>2, <2>3 DEF IInv, TypeOK, AllData
  <2>5. \A k \in Nodes : /\ node'[k].name = node[k].name
                         /\ node'[k].type = node[k].type
                         /\ node'[k].owner = node[k].owner
                         /\ node'[k].parent = node[k].parent
    BY <1>2, <2>3 DEF IInv, TypeOK
  <2>6. TreeLinks'
    <3>1. \A p \in Nodes, m \in Names : children[p][m] # Nil => children[p][m] \in Nodes
      BY DEF IInv, TypeOK
    <3> QED
      BY <1>2, <2>5, <3>1 DEF IInv, TypeOK, TreeLinks
  <2>7. SessionMapExact'
    BY <1>2, <2>5 DEF IInv, TypeOK, SessionMapExact
  <2> QED
    BY <1>2, <2>4, <2>5, <2>6, <2>7, NodesAssumption DEF IInv, RootStays, Permanent
<1> QED
  BY <1>1, <1>2 DEF SetNode, Malformed

\* deleteNode cannot reach the root's entry: a path of two names or more never
\* leads back to the dummy.
LEMMA DeleteKeeps ==
    ASSUME IInv, NEW raw \in RawPaths, DeleteNode(raw)
    PROVE  IInv'
<1> DEFINE path == SplitPath(raw)
           name == LastName(path)
           curr == WalkTo(Parent(path))
           ch == [children EXCEPT ![curr][name] = Nil]
<1>1. CASE Quiet
  BY <1>1, QuietKeeps
<1>2. CASE /\ path # <<>> /\ ~ IsRoot(path) /\ curr # Nil /\ children[curr][name] # Nil
           /\ ReleaseTo(ch) /\ UNCHANGED sessionMap
  <2>0. path # <<>> /\ Len(path) # 1
    BY <1>2 DEF IsRoot
  <2>1. /\ name \in Names /\ Parent(path) \in Seq(Names)
        /\ Len(Parent(path)) = Len(path) - 1 /\ Len(path) \in Nat
    BY <2>0, SplitPathType, LenProperties
  <2>2. Len(Parent(path)) > 0
    BY <2>0, <2>1, SplitPathType, EmptySeq
  <2> HIDE DEF path
  <2>3. curr \in live /\ curr # Dummy
    BY <1>2, <2>1, <2>2, WalkToLive DEF IInv
  <2> HIDE DEF curr, name
  <2>4. curr \in Nodes
    BY <2>3 DEF IInv, TypeOK
  <2>5. ch \in Tables
    BY <2>1, <2>4 DEF IInv, TypeOK, Tables
  <2>6. \A p \in Nodes, m \in Names : ch[p][m] \in {children[p][m], Nil}
    BY <2>1, <2>4 DEF IInv, TypeOK
  <2>7. ch[Dummy][EmptyName] = RootNode
    BY <2>3, NodesAssumption DEF IInv, TypeOK, RootStays
  <2> HIDE DEF ch
  <2> QED
    BY <1>2, <2>5, <2>6, <2>7, ReleaseKeeps
<1> QED
  BY <1>1, <1>2 DEF DeleteNode, Malformed

\* removeEphemeral erases exactly the entries the scan would cut.
LEMMA ErasedIsOwned ==
    ASSUME IInv, NEW s \in Sessions
    PROVE  [p \in Nodes |-> [m \in Names |->
              IF <<p, m>> \in ErasedBy(s) THEN Nil ELSE children[p][m]]] = CutOwned(s)
<1> DEFINE owned(p, m) == /\ children[p][m] # Nil
                          /\ node[children[p][m]].type = "EPHEMERAL"
                          /\ node[children[p][m]].owner = s
<1> USE DEF IInv
<1>1. ASSUME NEW p \in Nodes, NEW m \in Names, <<p, m>> \in ErasedBy(s)
      PROVE  owned(p, m)
  <2>1. PICK n \in sessionMap[s] : n \in live /\ node[n].parent = p /\ node[n].name = m
    BY <1>1 DEF ErasedBy
  <2>2. n \in Nodes /\ n # Nil /\ node[n].type = "EPHEMERAL" /\ node[n].owner = s
    BY <2>1, NodesAssumption DEF TypeOK, SessionMapExact
  <2>3. children[p][m] = n
    BY <2>1, <2>2 DEF TreeLinks, Permanent
  <2> QED
    BY <2>2, <2>3
<1>2. ASSUME NEW p \in Nodes, NEW m \in Names, owned(p, m)
      PROVE  <<p, m>> \in ErasedBy(s)
  <2> DEFINE n == children[p][m]
  <2>1. n \in live /\ n # RootNode /\ p \in live
    BY <1>2 DEF TreeLinks, Permanent
  <2>2. node[n].parent = p /\ node[n].name = m
    BY <1>2, <2>1 DEF TreeLinks
  <2>3. n \in sessionMap[s]
    BY <1>2, <2>1 DEF SessionMapExact
  <2> QED
    BY <2>1, <2>2, <2>3 DEF ErasedBy
<1>3. \A p \in Nodes, m \in Names : <<p, m>> \in ErasedBy(s) <=> owned(p, m)
  BY <1>1, <1>2
<1> QED
  BY <1>3 DEF CutOwned

\* removeEphemeral never erases the root's entry: the root is nobody's.
LEMMA RemoveKeeps ==
    ASSUME IInv, NEW s \in Sessions, RemoveEphemeral(s)
    PROVE  IInv'
<1> DEFINE ch == CutOwned(s)
<1>1. ReleaseTo(ch) /\ UNCHANGED sessionMap
  BY ErasedIsOwned DEF RemoveEphemeral
<1>2. ch \in Tables
  BY DEF CutOwned, Tables, IInv, TypeOK
<1>3. \A p \in Nodes, m \in Names : ch[p][m] \in {children[p][m], Nil}
  BY DEF CutOwned
<1>4. ch[Dummy][EmptyName] = RootNode
  BY NodesAssumption, NamesAssumption DEF CutOwned, IInv, RootStays, Permanent
<1> HIDE DEF ch
<1> QED
  BY <1>1, <1>2, <1>3, <1>4, ReleaseKeeps

LEMMA NextKeeps == IInv /\ [Next]_vars => IInv'
<1> SUFFICES ASSUME IInv, [Next]_vars PROVE IInv'
  OBVIOUS
<1>1. CASE Unreadable
  BY <1>1, QuietKeeps DEF Unreadable
<1>2. ASSUME NEW raw \in RawPaths,
             GetNode(raw) \/ LsNode(raw) \/ StatNode(raw) \/ ExistsNode(raw)
      PROVE  IInv'
  BY <1>2, ReadsKeep
<1>3. ASSUME NEW raw \in RawPaths, DeleteNode(raw)
      PROVE  IInv'
  BY <1>3, DeleteKeeps
<1>4. ASSUME NEW raw \in RawPaths, NEW d \in Data, SetNode(raw, d)
      PROVE  IInv'
  BY <1>4, SetKeeps
<1>5. ASSUME NEW raw \in RawPaths, NEW s \in Sessions, NEW d \in Data,
             NEW t \in NodeTypes, CreateNode(s, raw, d, t)
      PROVE  IInv'
  BY <1>5, CreateKeeps
<1>6. ASSUME NEW s \in Sessions, RemoveEphemeral(s)
      PROVE  IInv'
  BY <1>6, RemoveKeeps
<1>7. CASE UNCHANGED vars
  BY <1>7, QuietKeeps DEF vars, Quiet
<1> QED
  BY <1>1, <1>2, <1>3, <1>4, <1>5, <1>6, <1>7 DEF Next, Request, SessionEnd

-----------------------------------------------------------------------------
(* Theorems *)

\* The inductive invariant holds in every reachable state.
THEOREM Invariance == Spec => []IInv
BY InitIInv, NextKeeps, PTL DEF Spec

\* Every variable keeps its type.
THEOREM TypeCorrect == Spec => []TypeOK
<1>1. IInv => TypeOK
  BY DEF IInv
<1> QED
  BY <1>1, Invariance, PTL

\* No request and no end of a session removes the root.
THEOREM RootSafe == Spec => []RootStays
<1>1. IInv => RootStays
  BY DEF IInv
<1> QED
  BY <1>1, Invariance, PTL

\* Parent and child always agree, so erasing by parent and name hits the node meant.
THEOREM TreeCorrect == Spec => []TreeLinks
<1>1. IInv => TreeLinks
  BY DEF IInv
<1> QED
  BY <1>1, Invariance, PTL

\* m_sessionMap names exactly the live session nodes, whatever storage is reused.
THEOREM SessionMapCorrect == Spec => []SessionMapExact
<1>1. IInv => SessionMapExact
  BY DEF IInv
<1> QED
  BY <1>1, Invariance, PTL

\* The end of a session destroys what the deprecated scan of the tree would.
THEOREM EndCorrect == Spec => EndRemovesOwned
<1>1. IInv /\ [Next]_vars =>
        [\A s \in Sessions : RemoveEphemeral(s) => live' = Reachable(CutOwned(s))]_vars
  <2> SUFFICES ASSUME IInv, NEW s \in Sessions, RemoveEphemeral(s)
               PROVE  live' = Reachable(CutOwned(s))
    OBVIOUS
  <2> QED
    BY ErasedIsOwned DEF RemoveEphemeral, ReleaseTo
<1> QED
  BY <1>1, Invariance, PTL DEF Spec, EndRemovesOwned

-----------------------------------------------------------------------------
(* Paths and what they lead to *)

\* A path is the path above it and its last name.
LEMMA ParentFacts ==
    ASSUME NEW q \in Seq(Names), q # <<>>
    PROVE  /\ Len(q) \in Nat /\ Len(q) > 0 /\ LastName(q) \in Names
           /\ Parent(q) \in Seq(Names) /\ Len(Parent(q)) = Len(q) - 1
           /\ \A i \in 1 .. Len(q) - 1 : Parent(q)[i] = q[i]
<1>1. Len(q) \in Nat /\ Len(q) > 0 /\ \A i \in 1 .. Len(q) : q[i] \in Names
  BY EmptySeq, ElementOfSeq
<1> DEFINE n == Len(q)
<1> HIDE DEF n
<1>2. n \in Nat /\ n > 0 /\ \A i \in 1 .. n : q[i] \in Names
  BY <1>1 DEF n
<1>3. n \in 1 .. n /\ n - 1 \in Int /\ \A i \in 1 .. n - 1 : q[i] \in Names
  BY <1>2
<1>4. /\ SubSeq(q, 1, n - 1) \in Seq(Names)
      /\ Len(SubSeq(q, 1, n - 1)) = IF 1 <= n - 1 THEN n - 1 - 1 + 1 ELSE 0
      /\ \A i \in 1 .. n - 1 - 1 + 1 : SubSeq(q, 1, n - 1)[i] = q[1 + i - 1]
  BY <1>3, SubSeqProperties
<1>5. \A i \in 1 .. n - 1 : SubSeq(q, 1, n - 1)[i] = q[i]
  <2> TAKE i \in 1 .. n - 1
  <2>1. i \in 1 .. n - 1 - 1 + 1 /\ 1 + i - 1 = i
    BY <1>2
  <2> QED
    BY <2>1, <1>4
<1>6. Len(SubSeq(q, 1, n - 1)) = n - 1
  BY <1>2, <1>4
<1> QED
  BY <1>2, <1>3, <1>4, <1>5, <1>6 DEF Parent, LastName, n

LEMMA SamePath ==
    ASSUME NEW p \in Seq(Names), NEW q \in Seq(Names), p # <<>>, q # <<>>,
           Parent(p) = Parent(q), LastName(p) = LastName(q)
    PROVE  p = q
<1>1. /\ Len(p) \in Nat /\ Len(q) \in Nat /\ Len(p) - 1 = Len(q) - 1
      /\ \A i \in 1 .. Len(p) - 1 : Parent(p)[i] = p[i]
      /\ \A i \in 1 .. Len(q) - 1 : Parent(q)[i] = q[i]
  BY ParentFacts
<1>2. Len(p) = Len(q)
  BY <1>1
<1>3. \A i \in 1 .. Len(p) - 1 : p[i] = q[i]
  BY <1>1
<1>4. p[Len(p)] = q[Len(p)]
  BY <1>2 DEF LastName
<1>5. \A i \in 1 .. Len(p) : p[i] = q[i]
  BY <1>1, <1>3, <1>4
<1> QED
  BY <1>2, <1>5, SeqEqual

\* Instead of induction over a path: what fails for some paths fails for one whose
\* parent it does not fail for.
LEMMA ShortestPath ==
    ASSUME NEW T, T \subseteq Seq(Names), T # {}
    PROVE  \E q \in T : q # <<>> => Parent(q) \notin T
<1> DEFINE N == {Len(q) : q \in T}
<1>1. N \subseteq Nat /\ N # {}
  BY LenProperties
<1> HIDE DEF N
<1>2. PICK k \in N : \A j \in N : ~ (j < k)
  BY <1>1, LeastNumber
<1>3. PICK q \in T : Len(q) = k
  BY <1>2 DEF N
<1>4. ASSUME q # <<>>, Parent(q) \in T PROVE FALSE
  <2>1. q \in Seq(Names)
    OBVIOUS
  <2>2. Len(Parent(q)) = k - 1 /\ k \in Nat
    BY <2>1, <1>3, <1>4, ParentFacts
  <2>3. Len(Parent(q)) \in N
    BY <1>4 DEF N
  <2> QED
    BY <2>2, <2>3, <1>2
<1> QED
  BY <1>4

\* The prefixes of a path are itself and those of the path above it.
LEMMA PrefixStep ==
    ASSUME NEW p \in Seq(Names), NEW q \in Seq(Names), q # <<>>
    PROVE  Store!IsPrefix(p, q) <=> p = q \/ Store!IsPrefix(p, Parent(q))
<1> DEFINE m == Len(p)
           n == Len(q)
<1>1. /\ n \in Nat /\ n > 0 /\ m \in Nat
      /\ Parent(q) \in Seq(Names) /\ Len(Parent(q)) = n - 1
      /\ \A i \in 1 .. n - 1 : Parent(q)[i] = q[i]
  BY ParentFacts, LenProperties
<1>2. CASE m >= n
  <2>1. Store!IsPrefix(p, q) <=> p = q
    <3>1. CASE m = n
      BY <3>1, <1>1, SubSeqFull DEF Store!IsPrefix
    <3>2. CASE m > n
      BY <3>2, <1>1 DEF Store!IsPrefix
    <3> QED
      BY <3>1, <3>2, <1>1, <1>2
  <2>2. ~ Store!IsPrefix(p, Parent(q))
    BY <1>1, <1>2 DEF Store!IsPrefix
  <2> QED
    BY <2>1, <2>2
<1>3. CASE m < n
  <2>1. p # q
    BY <1>1, <1>3
  <2>2. m \in 0 .. n - 1 /\ m <= n - 1
    BY <1>1, <1>3
  <2>3. \A i \in 1 .. n : q[i] \in Names
    BY ElementOfSeq
  <2>4. \A i \in 1 .. m : q[i] \in Names /\ Parent(q)[i] \in Names /\ Parent(q)[i] = q[i]
    <3> TAKE i \in 1 .. m
    <3>1. i \in 1 .. n - 1 /\ i \in 1 .. n
      BY <1>1, <1>3
    <3> QED
      BY <3>1, <2>3, <1>1
  <2>5. SubSeq(q, 1, m) = SubSeq(Parent(q), 1, m)
    <3> HIDE DEF m, n
    <3>1. /\ SubSeq(q, 1, m) \in Seq(Names)
          /\ Len(SubSeq(q, 1, m)) = IF 1 <= m THEN m - 1 + 1 ELSE 0
          /\ \A i \in 1 .. m - 1 + 1 : SubSeq(q, 1, m)[i] = q[1 + i - 1]
      BY <1>1, <2>4, SubSeqProperties
    <3>2. /\ SubSeq(Parent(q), 1, m) \in Seq(Names)
          /\ Len(SubSeq(Parent(q), 1, m)) = IF 1 <= m THEN m - 1 + 1 ELSE 0
          /\ \A i \in 1 .. m - 1 + 1 : SubSeq(Parent(q), 1, m)[i] = Parent(q)[1 + i - 1]
      BY <1>1, <2>4, SubSeqProperties
    <3>3. Len(SubSeq(q, 1, m)) = m /\ Len(SubSeq(Parent(q), 1, m)) = m
      BY <3>1, <3>2, <1>1
    <3>4. \A i \in 1 .. m : SubSeq(q, 1, m)[i] = SubSeq(Parent(q), 1, m)[i]
      <4> TAKE i \in 1 .. m
      <4>1. i \in 1 .. m - 1 + 1 /\ 1 + i - 1 = i
        BY <1>1
      <4> QED
        BY <4>1, <3>1, <3>2, <2>4
    <3> QED
      BY <3>1, <3>2, <3>3, <3>4, SeqEqual
  <2> QED
    BY <2>1, <2>2, <2>5, <1>1, <1>3 DEF Store!IsPrefix
<1> QED
  BY <1>1, <1>2, <1>3

LEMMA PrefixOfNothing ==
    ASSUME NEW p \in Seq(Names)
    PROVE  Store!IsPrefix(p, <<>>) <=> p = <<>>
<1>1. Len(p) \in Nat /\ Len(<<>>) = 0 /\ (p # <<>> => Len(p) > 0)
  BY EmptySeq, LenProperties
<1>2. SubSeq(<<>>, 1, 0) = <<>>
  BY SubSeqEmpty
<1> QED
  BY <1>1, <1>2 DEF Store!IsPrefix

\* What a path leads to, from what the path above it leads to.
LEMMA WalkSteps ==
    /\ WalkTo(<<>>) = Dummy
    /\ \A q \in Seq(Names) \ {<<>>} :
         WalkTo(q) = IF WalkTo(Parent(q)) = Nil THEN Nil
                     ELSE children[WalkTo(Parent(q))][LastName(q)]
<1>1. WalkTo(<<>>) = Dummy
  <2>1. <<>> \in Seq(Names) /\ Len(<<>>) = 0
    BY EmptySeq
  <2>2. Follows(<<>>, Len(<<>>), Walk(<<>>))
    BY <2>1, WalkFollows
  <2> QED
    BY <2>1, <2>2 DEF Follows, WalkTo
<1>2. ASSUME NEW q \in Seq(Names) \ {<<>>}
      PROVE  WalkTo(q) = IF WalkTo(Parent(q)) = Nil THEN Nil
                         ELSE children[WalkTo(Parent(q))][LastName(q)]
  <2> DEFINE n == Len(q)
             v == Walk(Parent(q))
             w == Walk(q)
             T == {k \in Nat : k <= n - 1 /\ w[k] # v[k]}
  <2>1. /\ n \in Nat /\ n > 0
        /\ Parent(q) \in Seq(Names) /\ Len(Parent(q)) = n - 1
        /\ \A i \in 1 .. n - 1 : Parent(q)[i] = q[i]
    BY ParentFacts
  <2>2. Follows(q, n, w) /\ Follows(Parent(q), n - 1, v)
    BY <2>1, WalkFollows
  <2>3. WalkTo(q) = w[n] /\ WalkTo(Parent(q)) = v[n - 1] /\ LastName(q) = q[n]
    BY <2>1 DEF WalkTo, LastName
  <2> HIDE DEF v, w, n
  <2>4. T = {}
    <3> SUFFICES ASSUME T # {} PROVE FALSE
      OBVIOUS
    <3>1. PICK k \in T : \A j \in T : ~ (j < k)
      <4>1. T \subseteq Nat
        OBVIOUS
      <4> HIDE DEF T
      <4> QED
        BY <4>1, LeastNumber
    <3>2. k # 0
      BY <3>1, <2>2 DEF Follows
    <3>3. k \in 1 .. n - 1 /\ k \in 1 .. n /\ k - 1 \in Nat /\ k - 1 < k /\ k - 1 <= n - 1
      BY <3>1, <3>2, <2>1
    <3>4. w[k - 1] = v[k - 1]
      BY <3>1, <3>3
    <3>5. w[k] = v[k]
      BY <3>3, <3>4, <2>1, <2>2 DEF Follows
    <3> QED
      BY <3>1, <3>5
  <2>5. w[n - 1] = v[n - 1]
    BY <2>1, <2>4
  <2>6. w[n] = IF w[n - 1] = Nil THEN Nil ELSE children[w[n - 1]][q[n]]
    BY <2>1, <2>2 DEF Follows
  <2> QED
    BY <2>3, <2>5, <2>6
<1> QED
  BY <1>1, <1>2

\* The same after a step.
LEMMA WalkStepsAfter ==
    /\ WalkTo(<<>>)' = Dummy
    /\ \A q \in Seq(Names) \ {<<>>} :
         WalkTo(q)' = IF WalkTo(Parent(q))' = Nil THEN Nil
                      ELSE children'[WalkTo(Parent(q))'][LastName(q)]
<1>1. (/\ WalkTo(<<>>) = Dummy
       /\ \A q \in Seq(Names) \ {<<>>} :
            WalkTo(q) = IF WalkTo(Parent(q)) = Nil THEN Nil
                        ELSE children[WalkTo(Parent(q))][LastName(q)])'
  BY WalkSteps, PTL
<1> QED
  BY <1>1

\* A child of one parent under one name is nobody else's.
LEMMA OneEntry ==
    ASSUME IInv, NEW p \in Nodes, NEW m \in Names, NEW r \in Nodes, NEW l \in Names,
           children[p][m] # Nil, children[p][m] = children[r][l]
    PROVE  p = r /\ m = l
BY DEF IInv, TreeLinks

\* Where a path that leads to a child comes from.
LEMMA WalkUp ==
    ASSUME IInv, NEW q \in Seq(Names), q # <<>>, WalkTo(q) # Nil
    PROVE  /\ WalkTo(Parent(q)) \in live /\ WalkTo(Parent(q)) \in Nodes
           /\ LastName(q) \in Names /\ Parent(q) \in Seq(Names)
           /\ WalkTo(q) = children[WalkTo(Parent(q))][LastName(q)]
           /\ WalkTo(q) \in live \ {Dummy} /\ WalkTo(q) \in Nodes
<1>1. LastName(q) \in Names /\ Parent(q) \in Seq(Names) /\ Len(q) > 0
  BY ParentFacts
<1>2. WalkTo(Parent(q)) # Nil /\ WalkTo(q) = children[WalkTo(Parent(q))][LastName(q)]
  BY WalkSteps
<1>3. WalkTo(Parent(q)) \in live /\ WalkTo(q) \in live \ {Dummy}
  BY <1>1, <1>2, WalkToLive DEF IInv
<1> QED
  BY <1>1, <1>2, <1>3 DEF IInv, TypeOK

\* No two paths lead to one object.
LEMMA OnePath ==
    ASSUME IInv, NEW p \in Seq(Names), NEW q \in Seq(Names),
           WalkTo(p) = WalkTo(q), WalkTo(p) # Nil
    PROVE  p = q
<1> DEFINE Same(a, b) == WalkTo(a) = WalkTo(b) /\ WalkTo(a) # Nil
           T == {a \in Seq(Names) : \E b \in Seq(Names) : Same(a, b) /\ a # b}
<1>1. ASSUME T # {} PROVE FALSE
  <2>1. PICK a \in T : a # <<>> => Parent(a) \notin T
    <3>1. T \subseteq Seq(Names)
      OBVIOUS
    <3> HIDE DEF T
    <3> QED
      BY <3>1, <1>1, ShortestPath
  <2>2. PICK b \in Seq(Names) : Same(a, b) /\ a # b
    BY <2>1
  <2>3. \A c \in Seq(Names) : c # <<>> /\ WalkTo(c) # Nil => WalkTo(c) # Dummy
    BY WalkUp
  <2>4. a # <<>> /\ b # <<>>
    BY <2>1, <2>2, <2>3, WalkSteps
  <2>5. /\ Parent(a) \in Seq(Names) /\ Parent(b) \in Seq(Names)
        /\ WalkTo(Parent(a)) \in live /\ WalkTo(Parent(a)) \in Nodes
        /\ WalkTo(Parent(b)) \in Nodes
        /\ LastName(a) \in Names /\ LastName(b) \in Names
        /\ children[WalkTo(Parent(a))][LastName(a)] # Nil
        /\ children[WalkTo(Parent(a))][LastName(a)] = children[WalkTo(Parent(b))][LastName(b)]
    <3>1. a \in Seq(Names) /\ WalkTo(a) # Nil /\ WalkTo(b) # Nil /\ WalkTo(a) = WalkTo(b)
      BY <2>1, <2>2
    <3> QED
      BY <2>4, <3>1, WalkUp
  <2>6. WalkTo(Parent(a)) = WalkTo(Parent(b)) /\ LastName(a) = LastName(b)
    BY <2>5, OneEntry
  <2>7. WalkTo(Parent(a)) # Nil
    BY <2>5, NodesAssumption
  <2>8. Parent(a) = Parent(b)
    BY <2>1, <2>4, <2>5, <2>6, <2>7
  <2> QED
    BY <2>1, <2>2, <2>4, <2>6, <2>8, SamePath
<1>2. Same(p, q)
  OBVIOUS
<1> HIDE DEF Same
<1> QED
  BY <1>1, <1>2

-----------------------------------------------------------------------------
(* What keeps each object within reach of a request *)

\* Every object but the dummy is at a path that a request may name.
Known == \A n \in live \ {Dummy} : \E q \in CanonicalPaths : WalkTo(q) = n

LEMMA PathsTyped ==
    /\ CanonicalPaths \subseteq Seq(Names) \ {<<>>} /\ CanonicalPaths \subseteq RawPaths
    /\ <<EmptyName>> \in CanonicalPaths
    /\ \A q \in CanonicalPaths : Len(q) > 1 => Parent(q) \in CanonicalPaths
    /\ Store!Paths = CanonicalPaths
<1>1. CanonicalPaths \subseteq Seq(Names) \ {<<>>} /\ CanonicalPaths \subseteq RawPaths
  BY NamesAssumption, PathsAssumption DEF CanonicalPaths
<1>2. Len(<<EmptyName>>) = 1
  OBVIOUS
<1>3. <<EmptyName>> \in CanonicalPaths
  BY <1>2, PathsAssumption DEF CanonicalPaths
<1>4. ASSUME NEW q \in CanonicalPaths, Len(q) > 1
      PROVE  Parent(q) \in CanonicalPaths
  <2>1. q \in Seq(Names) /\ q # <<>> /\ q \in RawPaths
    BY <1>1
  <2>2. /\ Len(q) \in Nat /\ Len(Parent(q)) = Len(q) - 1
        /\ \A i \in 1 .. Len(q) - 1 : Parent(q)[i] = q[i]
    BY <2>1, ParentFacts
  <2>3. Parent(q) \in RawPaths
    BY <1>4, <2>1, PathsAssumption DEF Parent
  <2>4. \A i \in 2 .. Len(q) : q[i] # EmptyName
    BY DEF CanonicalPaths
  <2>5. \A i \in 2 .. Len(q) - 1 : i \in 1 .. Len(q) - 1 /\ i \in 2 .. Len(q)
    BY <2>2
  <2> QED
    BY <2>2, <2>3, <2>4, <2>5 DEF CanonicalPaths
<1> QED
  BY <1>1, <1>3, <1>4 DEF Store!Paths, CanonicalPaths

\* What createNode does to the paths: one more leads somewhere.
LEMMA AttachWalk ==
    ASSUME IInv, NEW s \in Sessions, NEW n \in Allocatable, NEW q \in Seq(Names), q # <<>>,
           NEW data, NEW type,
           WalkTo(Parent(q)) # Nil, WalkTo(q) = Nil,
           Attach(s, n, WalkTo(Parent(q)), LastName(q), data, type)
    PROVE  /\ n \in Nodes /\ n \notin live /\ n # Nil
           /\ \A r \in Seq(Names) : WalkTo(r)' = IF r = q THEN n ELSE WalkTo(r)
<1> DEFINE curr == WalkTo(Parent(q))
           name == LastName(q)
           Right(r) == WalkTo(r)' = IF r = q THEN n ELSE WalkTo(r)
           T == {r \in Seq(Names) : ~ Right(r)}
<1>1. n \in Nodes /\ n \notin live /\ n # Nil
  BY NodesAssumption DEF Allocatable
<1>2. name \in Names /\ Parent(q) \in Seq(Names)
  BY ParentFacts
<1>3. curr \in live /\ curr \in Nodes /\ curr # n
  BY <1>1, <1>2, WalkToLive DEF IInv, TypeOK
<1>4. \A p \in Nodes, m \in Names :
        children'[p][m] = IF p = curr /\ m = name THEN n ELSE children[p][m]
  BY <1>1, <1>2, <1>3 DEF Attach, IInv, TypeOK
<1>5. \A m \in Names : children'[n][m] = Nil
  BY <1>1, <1>3, <1>4 DEF IInv, TreeLinks
<1>6. children[curr][name] = Nil
  BY WalkSteps
<1> HIDE DEF curr, name
<1>7. ASSUME T # {} PROVE FALSE
  <2>1. PICK r \in T : r # <<>> => Parent(r) \notin T
    <3>1. T \subseteq Seq(Names)
      OBVIOUS
    <3> HIDE DEF T
    <3> QED
      BY <3>1, <1>7, ShortestPath
  <2>2. r \in Seq(Names) /\ ~ Right(r)
    BY <2>1
  <2>3. r # <<>>
    BY <2>2, WalkSteps, WalkStepsAfter
  <2>4. Parent(r) \in Seq(Names) /\ LastName(r) \in Names
    BY <2>2, <2>3, ParentFacts
  <2>5. Right(Parent(r))
    BY <2>1, <2>3, <2>4
  <2>6. WalkTo(r)' = IF WalkTo(Parent(r))' = Nil THEN Nil
                     ELSE children'[WalkTo(Parent(r))'][LastName(r)]
    BY <2>2, <2>3, WalkStepsAfter
  <2>7. WalkTo(r) = IF WalkTo(Parent(r)) = Nil THEN Nil
                    ELSE children[WalkTo(Parent(r))][LastName(r)]
    BY <2>2, <2>3, WalkSteps
  <2>8. CASE Parent(r) = q
    <3>1. WalkTo(r)' = Nil /\ WalkTo(r) = Nil
      BY <2>4, <2>5, <2>6, <2>7, <2>8, <1>1, <1>5
    <3>2. r # q
      BY <2>2, <2>3, <2>8, ParentFacts
    <3> QED
      BY <2>2, <3>1, <3>2
  <2>9. CASE Parent(r) # q
    <3> DEFINE x == WalkTo(Parent(r))
    <3>1. WalkTo(Parent(r))' = x
      BY <2>5, <2>9
    <3> HIDE DEF x
    <3>2. CASE x = Nil
      <4>1. r # q
        BY <3>2 DEF x
      <4> QED
        BY <2>2, <2>6, <2>7, <3>1, <3>2, <4>1 DEF x
    <3>3. CASE x # Nil
      <4>1. x \in Nodes
        BY <2>4, <3>3, WalkToLive DEF IInv, TypeOK, x
      <4>2. WalkTo(r)' = IF x = curr /\ LastName(r) = name THEN n ELSE children[x][LastName(r)]
        BY <2>4, <2>6, <3>1, <3>3, <4>1, <1>4
      <4>3. WalkTo(r) = children[x][LastName(r)]
        BY <2>7, <3>3 DEF x
      <4>4. x = curr /\ LastName(r) = name <=> r = q
        <5>1. ASSUME x = curr, LastName(r) = name PROVE r = q
          <6>1. Parent(r) = Parent(q)
            BY <5>1, <2>4, <1>2, <3>3, OnePath DEF x, curr
          <6> QED
            BY <6>1, <5>1, <2>2, <2>3, SamePath DEF name
        <5>2. r = q => x = curr /\ LastName(r) = name
          BY DEF x, curr, name
        <5> QED
          BY <5>1, <5>2
      <4> QED
        BY <2>2, <4>2, <4>3, <4>4
    <3> QED
      BY <3>2, <3>3
  <2> QED
    BY <2>8, <2>9
<1>8. \A r \in Seq(Names) : Right(r)
  BY <1>7
<1> QED
  BY <1>1, <1>8

\* A walk ends at a live object or nowhere, before a step and after it.
LEMMA WalkLive ==
    IInv => \A q \in Seq(Names) : WalkTo(q) # Nil => WalkTo(q) \in live /\ WalkTo(q) \in Nodes
BY WalkToLive DEF IInv, TypeOK

LEMMA WalkLiveAfter ==
    IInv' => \A q \in Seq(Names) : WalkTo(q)' # Nil => WalkTo(q)' \in live' /\ WalkTo(q)' \in Nodes
<1>1. (IInv => \A q \in Seq(Names) : WalkTo(q) # Nil => WalkTo(q) \in live /\ WalkTo(q) \in Nodes)'
  BY WalkLive, PTL
<1> QED
  BY <1>1

\* The paths whose way is cut when the tables become ch: an entry on it is erased.
Cut(ch, q) ==
    \E p \in Seq(Names) \ {<<>>} :
        /\ Store!IsPrefix(p, q)
        /\ WalkTo(p) # Nil /\ ch[WalkTo(Parent(p))][LastName(p)] = Nil

LEMMA CutSteps ==
    ASSUME NEW ch
    PROVE  /\ ~ Cut(ch, <<>>)
           /\ \A q \in Seq(Names) \ {<<>>} :
                Cut(ch, q) <=> \/ WalkTo(q) # Nil /\ ch[WalkTo(Parent(q))][LastName(q)] = Nil
                               \/ Cut(ch, Parent(q))
<1>1. ~ Cut(ch, <<>>)
  BY PrefixOfNothing DEF Cut
<1>2. ASSUME NEW q \in Seq(Names) \ {<<>>}
      PROVE  Cut(ch, q) <=> \/ WalkTo(q) # Nil /\ ch[WalkTo(Parent(q))][LastName(q)] = Nil
                            \/ Cut(ch, Parent(q))
  <2>1. \A p \in Seq(Names) : Store!IsPrefix(p, q) <=> p = q \/ Store!IsPrefix(p, Parent(q))
    BY PrefixStep
  <2> QED
    BY <2>1 DEF Cut
<1> QED
  BY <1>1, <1>2

\* What the release of entries does to the paths: those cut lead nowhere, the others
\* lead where they did.
LEMMA ReleaseWalk ==
    ASSUME IInv, IInv', NEW ch \in Tables,
           \A p \in Nodes, m \in Names : ch[p][m] \in {children[p][m], Nil},
           ReleaseTo(ch)
    PROVE  \A q \in Seq(Names) : WalkTo(q)' = IF Cut(ch, q) THEN Nil ELSE WalkTo(q)
<1> DEFINE Right(r) == WalkTo(r)' = IF Cut(ch, r) THEN Nil ELSE WalkTo(r)
           T == {r \in Seq(Names) : ~ Right(r)}
<1>1. \A p \in Nodes, m \in Names :
        p \in live' => children'[p][m] = ch[p][m]
  BY DEF ReleaseTo
<1>2. ASSUME T # {} PROVE FALSE
  <2>1. PICK r \in T : r # <<>> => Parent(r) \notin T
    <3>1. T \subseteq Seq(Names)
      OBVIOUS
    <3> HIDE DEF T
    <3> QED
      BY <3>1, <1>2, ShortestPath
  <2>2. r \in Seq(Names) /\ ~ Right(r)
    BY <2>1
  <2>3. r # <<>>
    BY <2>2, WalkSteps, WalkStepsAfter, CutSteps
  <2>4. Parent(r) \in Seq(Names) /\ LastName(r) \in Names
    BY <2>2, <2>3, ParentFacts
  <2>5. Right(Parent(r))
    BY <2>1, <2>3, <2>4
  <2>6. WalkTo(r)' = IF WalkTo(Parent(r))' = Nil THEN Nil
                     ELSE children'[WalkTo(Parent(r))'][LastName(r)]
    BY <2>2, <2>3, WalkStepsAfter
  <2>7. WalkTo(r) = IF WalkTo(Parent(r)) = Nil THEN Nil
                    ELSE children[WalkTo(Parent(r))][LastName(r)]
    BY <2>2, <2>3, WalkSteps
  <2>8. Cut(ch, r) <=> \/ WalkTo(r) # Nil /\ ch[WalkTo(Parent(r))][LastName(r)] = Nil
                       \/ Cut(ch, Parent(r))
    BY <2>2, <2>3, CutSteps
  <2>9. ~ Cut(ch, Parent(r)) /\ WalkTo(Parent(r))' = WalkTo(Parent(r)) /\ WalkTo(Parent(r)) # Nil
    BY <2>2, <2>5, <2>6, <2>7, <2>8
  <2>10. WalkTo(Parent(r))' \in live' /\ WalkTo(Parent(r))' \in Nodes
    BY <2>4, <2>9, WalkLiveAfter
  <2>11. WalkTo(r)' = ch[WalkTo(Parent(r))][LastName(r)]
    BY <2>4, <2>6, <2>9, <2>10, <1>1
  <2>12. ch[WalkTo(Parent(r))][LastName(r)] \in {WalkTo(r), Nil}
    BY <2>4, <2>7, <2>9, <2>10
  <2> QED
    BY <2>2, <2>8, <2>9, <2>11, <2>12
<1>3. \A r \in Seq(Names) : Right(r)
  BY <1>2
<1> QED
  BY <1>3

\* Every object of the least set is at a path that leads there.
LEMMA KnownInit == Init => Known
<1> SUFFICES ASSUME Init PROVE Known
  OBVIOUS
<1>1. <<EmptyName>> \in CanonicalPaths /\ <<EmptyName>> \in Seq(Names) \ {<<>>}
  BY PathsTyped
<1>2. Parent(<<EmptyName>>) = <<>> /\ LastName(<<EmptyName>>) = EmptyName
  <2>1. SubSeq(<<EmptyName>>, 1, 0) = <<>>
    BY SubSeqEmpty
  <2> QED
    BY <2>1 DEF Parent, LastName
<1>3. WalkTo(<<EmptyName>>) = IF WalkTo(<<>>) = Nil THEN Nil ELSE children[WalkTo(<<>>)][EmptyName]
  BY <1>1, <1>2, WalkSteps
<1>4. WalkTo(<<EmptyName>>) = RootNode
  BY <1>3, WalkSteps, NodesAssumption, NamesAssumption DEF Init, NoChildren
<1> QED
  BY <1>1, <1>4 DEF Known, Init

\* Releasing entries leaves every object that stays on the path it was at.
LEMMA ReleaseKnown ==
    ASSUME IInv, IInv', Known, NEW ch \in Tables,
           \A p \in Nodes, m \in Names : ch[p][m] \in {children[p][m], Nil},
           ReleaseTo(ch)
    PROVE  Known'
<1> DEFINE Kept(n) == \E q \in CanonicalPaths : WalkTo(q) = n /\ ~ Cut(ch, q)
           S == {n \in live : n = Dummy \/ Kept(n)}
<1>0. live \subseteq Nodes
  BY DEF IInv, TypeOK
<1>1. S \in SUBSET Nodes
  BY <1>0
<1>2. Closed(S, ch)
  <2>1. Dummy \in S
    BY DEF IInv, RootStays
  <2>2. ASSUME NEW p \in S, NEW m \in Names, ch[p][m] # Nil
        PROVE  ch[p][m] \in S
    <3> DEFINE n == ch[p][m]
    <3>1. p \in Nodes /\ n = children[p][m] /\ n # Nil
      BY <2>2, <1>0
    <3>2. n \in live \ {Dummy}
      BY <3>1 DEF IInv, TreeLinks
    <3>10. n = children[p][m]
      BY <3>1
    <3> HIDE DEF n
    <3>3. PICK q \in CanonicalPaths : WalkTo(q) = n
      BY <3>2 DEF Known
    <3>4. q \in Seq(Names) /\ q # <<>>
      BY PathsTyped
    <3>5. /\ WalkTo(Parent(q)) \in Nodes /\ LastName(q) \in Names /\ Parent(q) \in Seq(Names)
          /\ n = children[WalkTo(Parent(q))][LastName(q)]
      BY <3>1, <3>3, <3>4, WalkUp
    <3>6. WalkTo(Parent(q)) = p /\ LastName(q) = m
      <4>1. children[p][m] # Nil /\ children[p][m] = children[WalkTo(Parent(q))][LastName(q)]
        BY <3>1, <3>5, <3>10
      <4>2. p \in Nodes /\ m \in Names
        BY <3>1
      <4> HIDE DEF S
      <4> QED
        BY <4>1, <4>2, <3>5, OneEntry
    <3>7. ~ Cut(ch, Parent(q))
      <4>1. CASE p = Dummy
        <5>1. Parent(q) = <<>>
          <6>1. <<>> \in Seq(Names) /\ WalkTo(<<>>) = Dummy /\ Dummy # Nil
            BY WalkSteps, NodesAssumption, EmptySeq
          <6> QED
            BY <6>1, <4>1, <3>5, <3>6, OnePath
        <5> QED
          BY <5>1, CutSteps
      <4>2. CASE p # Dummy
        <5>1. PICK r \in CanonicalPaths : WalkTo(r) = p /\ ~ Cut(ch, r)
          BY <4>2
        <5>2. r = Parent(q)
          <6>1. r \in Seq(Names) /\ p # Nil
            BY <3>1, PathsTyped, NodesAssumption
          <6> QED
            BY <6>1, <5>1, <3>5, <3>6, OnePath
        <5> QED
          BY <5>1, <5>2
      <4> QED
        BY <4>1, <4>2
    <3>8. ~ Cut(ch, q)
      <4>1. ch[WalkTo(Parent(q))][LastName(q)] # Nil
        BY <2>2, <3>6
      <4> QED
        BY <4>1, <3>4, <3>7, CutSteps
    <3>9. n \in S
      BY <3>2, <3>3, <3>8
    <3> QED
      BY <3>9 DEF n
  <2> HIDE DEF S
  <2> QED
    BY <2>1, <2>2 DEF Closed
<1>3. live' \subseteq S
  <2> HIDE DEF S
  <2> QED
    BY <1>1, <1>2, ReachableLeast DEF ReleaseTo
<1>4. ASSUME NEW n \in live' \ {Dummy}
      PROVE  \E q \in CanonicalPaths : WalkTo(q)' = n
  <2>1. PICK q \in CanonicalPaths : WalkTo(q) = n /\ ~ Cut(ch, q)
    BY <1>3
  <2>2. q \in Seq(Names)
    BY PathsTyped
  <2>3. WalkTo(q)' = IF Cut(ch, q) THEN Nil ELSE WalkTo(q)
    BY <2>2, ReleaseWalk
  <2> QED
    BY <2>1, <2>3
<1> QED
  BY <1>4 DEF Known, CanonicalPaths

\* The tables without the entry at path q.
Without(q) == [children EXCEPT ![WalkTo(Parent(q))][LastName(q)] = Nil]

LEMMA WithoutTables ==
    ASSUME IInv, NEW q \in Seq(Names), q # <<>>, WalkTo(Parent(q)) # Nil
    PROVE  /\ Without(q) \in Tables
           /\ \A p \in Nodes, m \in Names :
                Without(q)[p][m] = IF p = WalkTo(Parent(q)) /\ m = LastName(q)
                                   THEN Nil ELSE children[p][m]
<1> DEFINE curr == WalkTo(Parent(q))
           name == LastName(q)
<1>1. name \in Names /\ Parent(q) \in Seq(Names)
  BY ParentFacts
<1>2. curr \in Nodes
  BY <1>1, WalkLive
<1> HIDE DEF curr, name
<1>3. children \in [Nodes -> [Names -> Nodes \cup {Nil}]]
  BY DEF IInv, TypeOK
<1>4. [children EXCEPT ![curr][name] = Nil] \in Tables
  BY <1>1, <1>2, <1>3 DEF Tables
<1>5. \A p \in Nodes, m \in Names :
        [children EXCEPT ![curr][name] = Nil][p][m] =
          IF p = curr /\ m = name THEN Nil ELSE children[p][m]
  BY <1>1, <1>2, <1>3
<1> QED
  BY <1>4, <1>5 DEF Without, curr, name

LEMMA CutOwnedTables ==
    ASSUME IInv, NEW s \in Sessions
    PROVE  /\ CutOwned(s) \in Tables
           /\ \A p \in Nodes, m \in Names : CutOwned(s)[p][m] \in {children[p][m], Nil}
BY DEF CutOwned, Tables, IInv, TypeOK

\* A request either denotes no path of the store, and splitPath refuses it, or it
\* denotes the path splitPath returns.
LEMMA Denotation ==
    ASSUME NEW raw \in RawPaths
    PROVE  /\ SplitPath(raw) = <<>> => \A q \in Store!Paths : ~ Store!Denotes(raw, q)
           /\ SplitPath(raw) # <<>> => /\ SplitPath(raw) \in CanonicalPaths
                                       /\ Store!Denotes(raw, SplitPath(raw))
<1> DEFINE n == Len(raw)
           slashed == raw[Len(raw)] = EmptyName
           items == IF slashed THEN Parent(raw) ELSE raw
           bad == \E i \in 2 .. Len(items) : items[i] = EmptyName
<1>1. raw \in Seq(Names) /\ raw # <<>>
  BY NamesAssumption, PathsAssumption
<1>2. SplitPath(raw) = IF bad THEN <<>> ELSE items
  BY <1>1 DEF SplitPath, Parent
<1>3. /\ n \in Nat /\ n > 0 /\ LastName(raw) = raw[n]
      /\ Parent(raw) \in Seq(Names) /\ Len(Parent(raw)) = n - 1
  BY <1>1, ParentFacts DEF LastName
<1>4. \A q \in Seq(Names) :
        /\ Append(q, EmptyName) \in Seq(Names)
        /\ LastName(Append(q, EmptyName)) = EmptyName
        /\ Parent(Append(q, EmptyName)) = q
        /\ Append(q, EmptyName) # <<>>
        /\ Len(Append(q, EmptyName)) = Len(q) + 1
  <2> TAKE q \in Seq(Names)
  <2> DEFINE a == Append(q, EmptyName)
  <2>1. /\ a \in Seq(Names) /\ Len(a) = Len(q) + 1
        /\ \A i \in 1 .. Len(q) : a[i] = q[i]
        /\ a[Len(q) + 1] = EmptyName
    BY NamesAssumption, AppendProperties
  <2>2. Len(q) \in Nat /\ a # <<>>
    BY LenProperties, AppendProperties, NamesAssumption
  <2> HIDE DEF a
  <2>3. Len(Parent(a)) = Len(q) /\ \A i \in 1 .. Len(q) : Parent(a)[i] = q[i]
    <3>1. /\ Len(Parent(a)) = Len(a) - 1
          /\ \A i \in 1 .. Len(a) - 1 : Parent(a)[i] = a[i]
      BY <2>1, <2>2, ParentFacts
    <3>2. Len(a) - 1 = Len(q)
      BY <2>1, <2>2
    <3> QED
      BY <3>1, <3>2, <2>1
  <2>4. Parent(a) = q
    <3>1. Parent(a) \in Seq(Names)
      BY <2>1, <2>2, ParentFacts
    <3> QED
      BY <3>1, <2>3, SeqEqual
  <2> QED
    BY <2>1, <2>2, <2>4 DEF a, LastName
<1>5. ASSUME NEW q \in Seq(Names)
      PROVE  raw = Append(q, EmptyName) <=> slashed /\ q = Parent(raw)
  <2>1. raw = Append(q, EmptyName) => slashed /\ q = Parent(raw)
    BY <1>3, <1>4
  <2>2. slashed /\ q = Parent(raw) => raw = Append(q, EmptyName)
    BY <1>1, <1>3, <1>4, SamePath
  <2> QED
    BY <2>1, <2>2
<1>6. /\ Store!Paths = CanonicalPaths
      /\ \A q \in CanonicalPaths : q \in Seq(Names) /\ q # <<>>
      /\ \A q \in RawPaths : (\A i \in 2 .. Len(q) : q[i] # EmptyName) => q \in CanonicalPaths
      /\ \A q \in CanonicalPaths : \A i \in 2 .. Len(q) : q[i] # EmptyName
  BY PathsTyped DEF CanonicalPaths
<1>7. raw = Store!RootPath <=> slashed /\ n = 1
  <2>1. Store!RootPath = <<EmptyName>>
    BY DEF Store!RootPath
  <2>2. <<EmptyName>> \in Seq(Names) /\ Len(<<EmptyName>>) = 1 /\ <<EmptyName>>[1] = EmptyName
    BY NamesAssumption
  <2>3. raw = <<EmptyName>> => slashed /\ n = 1
    BY <2>2
  <2>4. ASSUME slashed, n = 1 PROVE raw = <<EmptyName>>
    <3>1. Len(raw) = Len(<<EmptyName>>) /\ \A i \in 1 .. Len(raw) : raw[i] = <<EmptyName>>[i]
      BY <2>4, <2>2
    <3> QED
      BY <3>1, <1>1, <2>2, SeqEqual
  <2> QED
    BY <2>1, <2>3, <2>4
<1>8. \A q \in Seq(Names) :
        Store!Denotes(raw, q) <=> \/ slashed /\ q = Parent(raw)
                                  \/ raw = q /\ ~ (slashed /\ n = 1)
  BY <1>5, <1>7 DEF Store!Denotes
<1> HIDE DEF bad
<1>9. CASE slashed
  <2>1. items = Parent(raw) /\ items \in Seq(Names) /\ Len(items) = n - 1
    BY <1>9, <1>3
  <2>2. n > 1 => raw \notin CanonicalPaths
    <3>1. n > 1 => n \in 2 .. Len(raw) /\ raw[n] = EmptyName
      BY <1>3, <1>9
    <3> QED
      BY <3>1, <1>6
  <2>3. n > 1 => items \in RawPaths
    BY <2>1, PathsAssumption DEF Parent
  <2>4. CASE n = 1
    <3>1. items = <<>>
      BY <2>1, <2>4, EmptySeq
    <3>2. SplitPath(raw) = <<>>
      BY <3>1, <1>2
    <3>3. \A q \in CanonicalPaths : q # Parent(raw)
      BY <3>1, <2>1, <1>6
    <3> QED
      BY <3>2, <3>3, <2>4, <1>6, <1>8, <1>9
  <2>5. CASE n > 1 /\ bad
    <3>1. SplitPath(raw) = <<>> /\ items \notin CanonicalPaths
      BY <2>5, <1>2, <1>6 DEF bad
    <3>2. \A q \in CanonicalPaths : q # Parent(raw) /\ raw # q
      BY <3>1, <2>1, <2>2, <2>5
    <3> QED
      BY <3>1, <3>2, <1>6, <1>8
  <2>6. CASE n > 1 /\ ~ bad
    <3>1. SplitPath(raw) = items /\ items \in CanonicalPaths
      BY <2>3, <2>6, <1>2, <1>6 DEF bad
    <3>2. items # <<>>
      BY <3>1, <1>6
    <3> QED
      BY <3>1, <3>2, <2>1, <1>8, <1>9
  <2> QED
    BY <2>4, <2>5, <2>6, <1>3
<1>10. CASE ~ slashed
  <2>1. items = raw
    BY <1>10
  <2>2. CASE bad
    <3>1. SplitPath(raw) = <<>> /\ raw \notin CanonicalPaths
      BY <2>1, <2>2, <1>2, <1>6 DEF bad
    <3> QED
      BY <3>1, <1>6, <1>8, <1>10
  <2>3. CASE ~ bad
    <3>1. SplitPath(raw) = raw /\ raw \in CanonicalPaths
      BY <2>1, <2>3, <1>2, <1>6 DEF bad
    <3> QED
      BY <3>1, <1>1, <1>8, <1>10
  <2> QED
    BY <2>2, <2>3
<1> QED
  BY <1>9, <1>10

LEMMA QuietWalk ==
    UNCHANGED children => \A q : WalkTo(q)' = WalkTo(q)
BY DEF WalkTo, Walk

LEMMA QuietKnown == Known /\ UNCHANGED <<live, children>> => Known'
BY QuietWalk DEF Known, CanonicalPaths

\* The path of a new object is one that may be requested.
LEMMA AttachKnown ==
    ASSUME IInv, Known, NEW s \in Sessions, NEW n \in Allocatable, NEW q \in CanonicalPaths,
           NEW data, NEW type,
           WalkTo(Parent(q)) # Nil, WalkTo(q) = Nil,
           Attach(s, n, WalkTo(Parent(q)), LastName(q), data, type)
    PROVE  Known'
<1>1. q \in Seq(Names) /\ q # <<>>
  BY PathsTyped
<1>2. \A r \in Seq(Names) : WalkTo(r)' = IF r = q THEN n ELSE WalkTo(r)
  BY <1>1, AttachWalk
<1>3. live' = live \cup {n}
  BY DEF Attach
<1>4. ASSUME NEW k \in live' \ {Dummy}
      PROVE  \E r \in CanonicalPaths : WalkTo(r)' = k
  <2>1. CASE k = n
    BY <2>1, <1>1, <1>2
  <2>2. CASE k # n
    <3>1. PICK r \in CanonicalPaths : WalkTo(r) = k
      BY <2>2, <1>3 DEF Known
    <3>2. k \in Nodes /\ k # Nil
      BY <2>2, <1>3, NodesAssumption DEF IInv, TypeOK
    <3>3. r # q /\ r \in Seq(Names)
      BY <3>1, <3>2, PathsTyped
    <3> QED
      BY <3>1, <3>3, <1>2
  <2> QED
    BY <2>1, <2>2
<1> QED
  BY <1>4 DEF Known, CanonicalPaths

LEMMA NextKnown == IInv /\ IInv' /\ Known /\ [Next]_vars => Known'
<1> SUFFICES ASSUME IInv, IInv', Known, [Next]_vars PROVE Known'
  OBVIOUS
<1>1. CASE UNCHANGED <<live, children>>
  BY <1>1, QuietKnown
<1>2. ASSUME NEW raw \in RawPaths, DeleteNode(raw) PROVE Known'
  <2> DEFINE q == SplitPath(raw)
  <2>1. CASE Quiet
    BY <2>1, <1>1 DEF Quiet
  <2>2. CASE q # <<>> /\ WalkTo(Parent(q)) # Nil /\ ReleaseTo(Without(q))
    <3>1. q \in Seq(Names)
      BY SplitPathType
    <3> HIDE DEF q
    <3>2. /\ Without(q) \in Tables
          /\ \A p \in Nodes, m \in Names : Without(q)[p][m] \in {children[p][m], Nil}
      BY <2>2, <3>1, WithoutTables
    <3> QED
      BY <2>2, <3>2, ReleaseKnown
  <2> QED
    BY <1>2, <2>1, <2>2 DEF DeleteNode, Malformed, Without
<1>3. ASSUME NEW s \in Sessions, NEW raw \in RawPaths, NEW data \in Data,
             NEW type \in NodeTypes, CreateNode(s, raw, data, type)
      PROVE  Known'
  <2> DEFINE q == SplitPath(raw)
  <2>1. CASE Quiet
    BY <2>1, <1>1 DEF Quiet
  <2>2. CASE /\ q # <<>> /\ WalkTo(Parent(q)) # Nil
             /\ children[WalkTo(Parent(q))][LastName(q)] = Nil
             /\ \E n \in Allocatable :
                  Attach(s, n, WalkTo(Parent(q)), LastName(q), data, type)
    <3>1. q \in CanonicalPaths /\ q \in Seq(Names) /\ q # <<>>
      BY <2>2, Denotation, PathsTyped
    <3> HIDE DEF q
    <3>2. WalkTo(q) = Nil
      BY <2>2, <3>1, WalkSteps
    <3> QED
      BY <2>2, <3>1, <3>2, AttachKnown
  <2> QED
    BY <1>3, <2>1, <2>2 DEF CreateNode, Malformed
<1>4. ASSUME NEW s \in Sessions, RemoveEphemeral(s) PROVE Known'
  <2>1. ReleaseTo(CutOwned(s))
    BY <1>4, ErasedIsOwned DEF RemoveEphemeral
  <2> QED
    BY <2>1, CutOwnedTables, ReleaseKnown
<1>5. ASSUME NEW raw \in RawPaths,
             GetNode(raw) \/ LsNode(raw) \/ StatNode(raw) \/ ExistsNode(raw)
      PROVE  Known'
  BY <1>1, <1>5 DEF GetNode, LsNode, StatNode, ExistsNode, Lookup, Malformed, Quiet
<1>6. ASSUME NEW raw \in RawPaths, NEW d \in Data, SetNode(raw, d) PROVE Known'
  BY <1>1, <1>6 DEF SetNode, Malformed, Quiet
<1>7. CASE Unreadable
  BY <1>1, <1>7 DEF Unreadable, Quiet
<1>8. CASE UNCHANGED vars
  BY <1>1, <1>8 DEF vars
<1> QED
  BY <1>2, <1>3, <1>4, <1>5, <1>6, <1>7, <1>8 DEF Next, Request, SessionEnd

-----------------------------------------------------------------------------
(* The store seen through the paths *)

Entry(n) == [data |-> node[n].data, type |-> node[n].type, owner |-> node[n].owner]

LEMMA ViewFacts ==
    /\ DOMAIN StoreView = {q \in CanonicalPaths : WalkTo(q) # Nil}
    /\ \A q \in CanonicalPaths : WalkTo(q) # Nil => StoreView[q] = Entry(WalkTo(q))
    /\ StoreView = [q \in {q \in CanonicalPaths : WalkTo(q) # Nil} |-> Entry(WalkTo(q))]
BY DEF StoreView, Entry

LEMMA ViewFactsAfter ==
    StoreView' = [q \in {q \in CanonicalPaths : WalkTo(q)' # Nil} |-> Entry(WalkTo(q))']
BY DEF StoreView, Entry, CanonicalPaths

\* What leaves the tables and the objects alone leaves the store alone.
LEMMA QuietView == Quiet => StoreView' = StoreView
BY DEF Quiet, StoreView, CanonicalPaths, WalkTo, Walk

\* The store after entries were released: the paths not cut, as they were.
LEMMA ReleaseView ==
    ASSUME IInv, IInv', NEW ch \in Tables,
           \A p \in Nodes, m \in Names : ch[p][m] \in {children[p][m], Nil},
           ReleaseTo(ch)
    PROVE  StoreView' = [q \in {q \in DOMAIN StoreView : ~ Cut(ch, q)} |-> StoreView[q]]
<1>1. ASSUME NEW q \in CanonicalPaths
      PROVE  WalkTo(q)' = IF Cut(ch, q) THEN Nil ELSE WalkTo(q)
  <2>1. q \in Seq(Names)
    BY PathsTyped
  <2> QED
    BY <2>1, ReleaseWalk
<1>2. {q \in CanonicalPaths : WalkTo(q)' # Nil} = {q \in DOMAIN StoreView : ~ Cut(ch, q)}
  BY <1>1, ViewFacts
<1>3. ASSUME NEW q \in CanonicalPaths, WalkTo(q)' # Nil
      PROVE  Entry(WalkTo(q))' = StoreView[q]
  <2>1. q \in Seq(Names)
    BY PathsTyped
  <2>2. WalkTo(q)' \in live' /\ WalkTo(q)' \in Nodes
    BY <2>1, <1>3, WalkLiveAfter
  <2>3. WalkTo(q)' = WalkTo(q) /\ StoreView[q] = Entry(WalkTo(q))
    BY <1>1, <1>3, ViewFacts
  <2>4. node'[WalkTo(q)] = node[WalkTo(q)]
    BY <2>2, <2>3 DEF ReleaseTo
  <2> QED
    BY <2>3, <2>4 DEF Entry
<1> QED
  BY <1>2, <1>3, ViewFactsAfter

\* A walk to the object at a path goes through that path: the entry at q cuts what
\* begins with q and nothing else.
LEMMA WithoutCuts ==
    ASSUME IInv, NEW q \in Seq(Names), q # <<>>, WalkTo(q) # Nil, NEW r \in Seq(Names)
    PROVE  Cut(Without(q), r) <=> Store!IsPrefix(q, r)
<1>1. /\ WalkTo(Parent(q)) # Nil /\ WalkTo(Parent(q)) \in Nodes /\ LastName(q) \in Names
      /\ WalkTo(q) = children[WalkTo(Parent(q))][LastName(q)]
  BY WalkUp, NodesAssumption
<1>2. \A p \in Nodes, m \in Names :
        Without(q)[p][m] = IF p = WalkTo(Parent(q)) /\ m = LastName(q)
                           THEN Nil ELSE children[p][m]
  BY <1>1, WithoutTables
<1>3. ASSUME NEW p \in Seq(Names) \ {<<>>}, WalkTo(p) # Nil
      PROVE  Without(q)[WalkTo(Parent(p))][LastName(p)] = Nil <=> p = q
  <2>1. /\ WalkTo(Parent(p)) \in Nodes /\ LastName(p) \in Names
        /\ WalkTo(p) = children[WalkTo(Parent(p))][LastName(p)]
    BY <1>3, WalkUp
  <2>2. Without(q)[WalkTo(Parent(p))][LastName(p)] = Nil => WalkTo(p) = WalkTo(q)
    BY <1>1, <1>2, <1>3, <2>1
  <2>3. WalkTo(p) = WalkTo(q) => p = q
    BY <1>3, OnePath
  <2>4. p = q => Without(q)[WalkTo(Parent(p))][LastName(p)] = Nil
    BY <1>2, <2>1
  <2> QED
    BY <2>2, <2>3, <2>4
<1> QED
  BY <1>3 DEF Cut

\* The end of session s cuts what begins with the path of a node it owns.
LEMMA CutOwnedCuts ==
    ASSUME IInv, Known, NEW s \in Sessions, NEW r \in Seq(Names)
    PROVE  Cut(CutOwned(s), r) <=> \E q \in Store!Owned(s) : Store!IsPrefix(q, r)
<1> DEFINE owned(p) == /\ WalkTo(p) # Nil
                       /\ node[WalkTo(p)].type = "EPHEMERAL" /\ node[WalkTo(p)].owner = s
<1>1. ASSUME NEW p \in Seq(Names) \ {<<>>}, WalkTo(p) # Nil
      PROVE  CutOwned(s)[WalkTo(Parent(p))][LastName(p)] = Nil <=> owned(p)
  <2>1. /\ WalkTo(Parent(p)) \in Nodes /\ LastName(p) \in Names
        /\ WalkTo(p) = children[WalkTo(Parent(p))][LastName(p)]
    BY <1>1, WalkUp
  <2> QED
    BY <1>1, <2>1 DEF CutOwned
<1>2. ASSUME NEW p \in Seq(Names) \ {<<>>}, WalkTo(p) # Nil
      PROVE  p \in CanonicalPaths
  <2>1. WalkTo(p) \in live \ {Dummy}
    BY <1>2, WalkUp
  <2>2. PICK q \in CanonicalPaths : WalkTo(q) = WalkTo(p)
    BY <2>1 DEF Known
  <2>3. q = p
    BY <1>2, <2>2, PathsTyped, OnePath
  <2> QED
    BY <2>3
<1>3. Store!Owned(s) = {p \in CanonicalPaths : owned(p)}
  BY ViewFacts DEF Store!Owned, Entry
<1>4. \A p \in CanonicalPaths : p \in Seq(Names) \ {<<>>}
  BY PathsTyped
<1>5. Cut(CutOwned(s), r) <=> \E p \in Seq(Names) \ {<<>>} : Store!IsPrefix(p, r) /\ owned(p)
  <2> HIDE DEF owned
  <2>1. \A p \in Seq(Names) \ {<<>>} : owned(p) => WalkTo(p) # Nil
    BY DEF owned
  <2> QED
    BY <1>1, <2>1 DEF Cut
<1>6. \A p \in Seq(Names) \ {<<>>} : owned(p) <=> p \in Store!Owned(s)
  BY <1>2, <1>3
<1> HIDE DEF owned
<1> QED
  BY <1>3, <1>4, <1>5, <1>6

-----------------------------------------------------------------------------
(* One lemma per request: the store's answer and the store's change *)

\* The three ways a request can go before the store is touched.
LEMMA Refused ==
    ASSUME NEW raw \in RawPaths, NEW req, Malformed(req, raw)
    PROVE  /\ \A q \in Store!Paths : ~ Store!Denotes(raw, q)
           /\ Store!Malformed(req) /\ resp'.req = req
BY QuietView, Denotation DEF Malformed, Fail, Store!Malformed, Store!Fail

LEMMA Taken ==
    ASSUME NEW raw \in RawPaths, NEW q, q = SplitPath(raw), q # <<>>
    PROVE  /\ q \in Store!Paths /\ Store!Denotes(raw, q)
           /\ q \in CanonicalPaths /\ q \in Seq(Names) \ {<<>>}
           /\ q \in DOMAIN StoreView <=> WalkTo(q) # Nil
           /\ WalkTo(q) # Nil => StoreView[q] = Entry(WalkTo(q))
BY Denotation, PathsTyped, ViewFacts

LEMMA NotThere ==
    ASSUME NEW req, NEW q \in CanonicalPaths, WalkTo(q) = Nil,
           Fail(req, "node not exists"), Quiet
    PROVE  Store!Missing(req, q) /\ resp'.req = req
BY QuietView, ViewFacts DEF Fail, Store!Missing, Store!Fail

LEMMA GetImplements ==
    ASSUME IInv, NEW raw \in RawPaths, GetNode(raw)
    PROVE  Store!On(raw, <<"get", raw>>, Store!Get)
<1> DEFINE q == SplitPath(raw)
           req == <<"get", raw>>
<1>1. CASE Malformed(req, raw)
  BY <1>1, Refused DEF Store!On
<1>2. CASE q # <<>> /\ WalkTo(q) = Nil /\ Fail(req, "node not exists") /\ Quiet
  BY <1>2, Taken, NotThere DEF Store!On, Store!Get
<1>3. CASE /\ q # <<>> /\ WalkTo(q) # Nil
           /\ resp' = [req |-> req, data |-> node[WalkTo(q)].data] /\ Quiet
  <2>1. Store!Get(req, q) /\ resp'.req = req
    <3>1. StoreView' = StoreView
      BY <1>3, QuietView
    <3>2. q \in DOMAIN StoreView /\ StoreView[q] = Entry(WalkTo(q))
      BY <1>3, Taken
    <3>3. StoreView[q].data = node[WalkTo(q)].data
      BY <3>2 DEF Entry
    <3> HIDE DEF q
    <3> QED
      BY <1>3, <3>1, <3>2, <3>3 DEF Store!Get
  <2> QED
    BY <1>3, <2>1, Taken DEF Store!On
<1> QED
  BY <1>1, <1>2, <1>3 DEF GetNode, Lookup

LEMMA SetImplements ==
    ASSUME IInv, NEW raw \in RawPaths, NEW d \in Data, SetNode(raw, d)
    PROVE  Store!On(raw, <<"set", raw, d>>, LAMBDA r, q : Store!Set(r, q, d))
<1> DEFINE q == SplitPath(raw)
           req == <<"set", raw, d>>
<1>1. CASE Malformed(req, raw)
  BY <1>1, Refused DEF Store!On
<1>2. CASE q # <<>> /\ WalkTo(q) = Nil /\ Fail(req, "node not exists") /\ Quiet
  BY <1>2, Taken, NotThere DEF Store!On, Store!Set
<1>3. CASE /\ q # <<>> /\ WalkTo(q) # Nil
           /\ node' = [node EXCEPT ![WalkTo(q)].data = d]
           /\ Done(req)
           /\ UNCHANGED <<live, children, sessionMap>>
  <2>1. /\ q \in CanonicalPaths /\ q \in Seq(Names) /\ q \in DOMAIN StoreView
        /\ WalkTo(q) \in Nodes
    BY <1>3, Taken, WalkLive
  <2> HIDE DEF q
  <2>2. \A r \in CanonicalPaths : WalkTo(r)' = WalkTo(r)
    BY <1>3, QuietWalk
  <2>3. ASSUME NEW r \in CanonicalPaths, WalkTo(r) # Nil
        PROVE  Entry(WalkTo(r))' = [StoreView EXCEPT ![q].data = d][r]
    <3>1. StoreView[r] = Entry(WalkTo(r)) /\ r \in DOMAIN StoreView /\ WalkTo(r) \in Nodes
      BY <2>3, ViewFacts, WalkLive, PathsTyped
    <3>2. WalkTo(r)' = WalkTo(r)
      BY <2>2
    <3>3. WalkTo(r) = WalkTo(q) <=> r = q
      BY <2>1, <2>3, PathsTyped, OnePath
    <3>4. node \in [Nodes -> [name : Names, data : AllData, type : AllTypes,
                              owner : Sessions \cup {NoOwner}, parent : Nodes \cup {Nil}]]
      BY DEF IInv, TypeOK
    <3>5. Entry(WalkTo(r))' = [data |-> node'[WalkTo(r)].data, type |-> node'[WalkTo(r)].type,
                               owner |-> node'[WalkTo(r)].owner]
      BY <3>2 DEF Entry
    <3>6. CASE r = q
      <4>1. /\ node'[WalkTo(q)].data = d /\ node'[WalkTo(q)].type = node[WalkTo(q)].type
            /\ node'[WalkTo(q)].owner = node[WalkTo(q)].owner
        BY <1>3, <2>1, <3>4
      <4>2. [StoreView EXCEPT ![q].data = d][r] = [Entry(WalkTo(q)) EXCEPT !.data = d]
        BY <3>1, <3>6
      <4> QED
        BY <3>5, <3>6, <4>1, <4>2 DEF Entry
    <3>7. CASE r # q
      <4>1. node'[WalkTo(r)] = node[WalkTo(r)]
        BY <1>3, <3>1, <3>3, <3>4, <3>7
      <4>2. [StoreView EXCEPT ![q].data = d][r] = Entry(WalkTo(r))
        BY <3>1, <3>7
      <4> QED
        BY <3>5, <4>1, <4>2 DEF Entry
    <3> QED
      BY <3>6, <3>7
  <2>4. StoreView' = [StoreView EXCEPT ![q].data = d]
    <3>1. StoreView' = [r \in {r \in CanonicalPaths : WalkTo(r) # Nil} |-> Entry(WalkTo(r))']
      BY <2>2, ViewFactsAfter
    <3>2. [StoreView EXCEPT ![q].data = d] =
            [r \in {r \in CanonicalPaths : WalkTo(r) # Nil} |->
               [StoreView EXCEPT ![q].data = d][r]]
      BY ViewFacts
    <3> QED
      BY <3>1, <3>2, <2>3
  <2>5. Store!Set(req, q, d) /\ resp'.req = req
    BY <1>3, <2>1, <2>4 DEF Store!Set, Done
  <2> QED
    BY <1>3, <2>5, Taken DEF Store!On, q
<1> QED
  BY <1>1, <1>2, <1>3 DEF SetNode

LEMMA DeleteImplements ==
    ASSUME IInv, IInv', NEW raw \in RawPaths, DeleteNode(raw)
    PROVE  Store!On(raw, <<"delete", raw>>, Store!Delete)
<1> DEFINE q == SplitPath(raw)
           req == <<"delete", raw>>
           curr == WalkTo(Parent(q))
<1>1. CASE Malformed(req, raw)
  BY <1>1, Refused DEF Store!On
<1>2. ASSUME q # <<>>, Store!Delete(req, q), resp'.req = req
      PROVE  Store!On(raw, req, Store!Delete)
  BY <1>2, Taken DEF Store!On
<1>3. CASE IsRoot(q) /\ Fail(req, "delete the root node is not allowed") /\ Quiet
  <2>1. Len(q) = 1 /\ q # <<>>
    <3> HIDE DEF q
    <3>1. Len(q) = 1 /\ Len(<<>>) = 0
      BY <1>3 DEF IsRoot
    <3> QED
      BY <3>1
  <2>2. StoreView' = StoreView
    BY <1>3, QuietView
  <2> HIDE DEF q
  <2>3. Store!Delete(req, q) /\ resp'.req = req
    BY <1>3, <2>1, <2>2 DEF Store!Delete, Fail, Store!Fail
  <2> QED
    BY <2>1, <2>3, <1>2
<1>4. CASE /\ q # <<>> /\ ~ IsRoot(q)
           /\ curr # Nil => children[curr][LastName(q)] = Nil
           /\ Fail(req, "node not exists") /\ Quiet
  <2>1. /\ q \in CanonicalPaths /\ q \in Seq(Names) \ {<<>>}
        /\ Len(q) \in Nat /\ Len(q) > 0 /\ Len(q) # 1
    BY <1>4, Taken, ParentFacts DEF IsRoot
  <2> HIDE DEF q
  <2>5. Len(q) > 1
    <3>1. \A n \in Nat : n > 0 /\ n # 1 => n > 1
      OBVIOUS
    <3> QED
      BY <2>1, <3>1
  <2>2. WalkTo(q) = Nil
    BY <1>4, <2>1, WalkSteps
  <2>3. Store!Missing(req, q) /\ resp'.req = req
    BY <1>4, <2>1, <2>2, NotThere
  <2>4. Store!Delete(req, q)
    BY <2>5, <2>3 DEF Store!Delete
  <2> QED
    BY <1>2, <1>4, <2>3, <2>4
<1>5. CASE /\ q # <<>> /\ ~ IsRoot(q)
           /\ curr # Nil /\ children[curr][LastName(q)] # Nil
           /\ ReleaseTo([children EXCEPT ![curr][LastName(q)] = Nil])
           /\ Done(req)
  <2>1. /\ q \in CanonicalPaths /\ q \in Seq(Names) \ {<<>>}
        /\ Len(q) \in Nat /\ Len(q) > 0 /\ Len(q) # 1
    BY <1>5, Taken, ParentFacts DEF IsRoot
  <2>2. q \in DOMAIN StoreView <=> WalkTo(q) # Nil
    BY <1>5, Taken
  <2> HIDE DEF q
  <2>3. WalkTo(q) # Nil
    BY <1>5, <2>1, WalkSteps
  <2>4. /\ Without(q) \in Tables
        /\ \A p \in Nodes, m \in Names : Without(q)[p][m] \in {children[p][m], Nil}
    BY <1>5, <2>1, WithoutTables
  <2>5. ReleaseTo(Without(q))
    BY <1>5 DEF Without
  <2>6. StoreView' = [r \in {r \in DOMAIN StoreView : ~ Cut(Without(q), r)} |-> StoreView[r]]
    BY <2>4, <2>5, ReleaseView
  <2>7. \A r \in DOMAIN StoreView : Cut(Without(q), r) <=> Store!IsPrefix(q, r)
    <3>1. \A r \in DOMAIN StoreView : r \in Seq(Names)
      BY ViewFacts, PathsTyped
    <3> QED
      BY <2>1, <2>3, <3>1, WithoutCuts
  <2>8. StoreView' = Store!Keep({r \in DOMAIN StoreView : ~ Store!IsPrefix(q, r)})
    <3>1. {r \in DOMAIN StoreView : ~ Cut(Without(q), r)}
            = {r \in DOMAIN StoreView : ~ Store!IsPrefix(q, r)}
      BY <2>7
    <3> QED
      BY <2>6, <3>1 DEF Store!Keep
  <2>9. Store!Delete(req, q) /\ resp'.req = req
    <3>1. q \in DOMAIN StoreView
      BY <2>2, <2>3
    <3>4. \A n \in Nat : n > 0 /\ n # 1 => n > 1
      OBVIOUS
    <3>3. Len(q) > 1
      BY <2>1, <3>4
    <3>2. resp' = [req |-> req]
      BY <1>5 DEF Done
    <3> QED
      BY <3>1, <3>2, <3>3, <2>8 DEF Store!Delete
  <2> QED
    BY <1>2, <1>5, <2>9
<1> QED
  BY <1>1, <1>3, <1>4, <1>5 DEF DeleteNode

\* What is just below a path in the store is what the object there has for children.
LEMMA BelowFacts ==
    ASSUME IInv, Known, NEW q \in CanonicalPaths, WalkTo(q) # Nil
    PROVE  /\ \A r \in Store!Below(q) :
                /\ r \in Seq(Names) \ {<<>>} /\ Parent(r) = q /\ LastName(r) = r[Len(r)]
                /\ LastName(r) \in ChildNames(WalkTo(q))
           /\ \A m \in ChildNames(WalkTo(q)) :
                \E r \in Store!Below(q) : LastName(r) = m
<1>1. q \in Seq(Names) \ {<<>>} /\ WalkTo(q) \in live /\ WalkTo(q) \in Nodes
  BY PathsTyped, WalkLive
<1>2. Store!Below(q) = {r \in CanonicalPaths : /\ WalkTo(r) # Nil /\ Len(r) = Len(q) + 1
                                               /\ Store!IsPrefix(q, r)}
  BY ViewFacts DEF Store!Below
<1>3. \A r \in CanonicalPaths : r \in Seq(Names) \ {<<>>}
  BY PathsTyped
<1>4. ASSUME NEW r \in Seq(Names) \ {<<>>}
      PROVE  Len(r) = Len(q) + 1 /\ Store!IsPrefix(q, r) <=> Parent(r) = q
  <2>1. /\ Parent(r) \in Seq(Names) /\ Len(Parent(r)) = Len(r) - 1
        /\ Len(r) \in Nat /\ Len(q) \in Nat
    BY <1>1, ParentFacts
  <2>2. Store!IsPrefix(q, r) <=> q = r \/ Store!IsPrefix(q, Parent(r))
    BY <1>1, PrefixStep
  <2>3. Len(Parent(r)) = Len(q) => (Store!IsPrefix(q, Parent(r)) <=> Parent(r) = q)
    <3>1. SubSeq(Parent(r), 1, Len(Parent(r))) = Parent(r)
      BY <2>1, SubSeqFull
    <3> QED
      BY <2>1, <3>1 DEF Store!IsPrefix
  <2> QED
    BY <2>1, <2>2, <2>3
<1>5. ASSUME NEW r \in Store!Below(q)
      PROVE  /\ r \in Seq(Names) \ {<<>>} /\ Parent(r) = q /\ LastName(r) = r[Len(r)]
             /\ LastName(r) \in ChildNames(WalkTo(q))
  <2>1. /\ r \in Seq(Names) \ {<<>>} /\ WalkTo(r) # Nil /\ Parent(r) = q
        /\ LastName(r) = r[Len(r)]
    BY <1>2, <1>3, <1>4 DEF LastName
  <2>2. /\ LastName(r) \in Names /\ WalkTo(r) = children[WalkTo(q)][LastName(r)]
    BY <2>1, WalkUp
  <2> QED
    BY <2>1, <2>2 DEF ChildNames
<1>6. ASSUME NEW m \in ChildNames(WalkTo(q))
      PROVE  \E r \in Store!Below(q) : LastName(r) = m
  <2> DEFINE n == children[WalkTo(q)][m]
  <2>1. m \in Names /\ n # Nil
    BY DEF ChildNames
  <2>2. n \in live \ {Dummy}
    BY <1>1, <2>1 DEF IInv, TreeLinks
  <2>3. PICK r \in CanonicalPaths : WalkTo(r) = n
    BY <2>2 DEF Known
  <2>4. r \in Seq(Names) \ {<<>>} /\ WalkTo(r) # Nil
    BY <2>1, <2>3, <1>3
  <2>5. /\ WalkTo(Parent(r)) \in live /\ WalkTo(Parent(r)) \in Nodes
        /\ LastName(r) \in Names /\ Parent(r) \in Seq(Names)
        /\ WalkTo(r) = children[WalkTo(Parent(r))][LastName(r)]
    BY <2>4, WalkUp
  <2>6. WalkTo(Parent(r)) = WalkTo(q) /\ LastName(r) = m
    <3>1. children[WalkTo(q)][m] = children[WalkTo(Parent(r))][LastName(r)]
      BY <2>3, <2>5
    <3> QED
      BY <1>1, <2>1, <2>5, <3>1, OneEntry
  <2>7. Parent(r) = q
    BY <1>1, <2>5, <2>6, OnePath
  <2>8. r \in Store!Below(q)
    BY <1>2, <1>4, <2>3, <2>4, <2>7
  <2> QED
    BY <2>6, <2>8
<1> QED
  BY <1>5, <1>6

LEMMA LsImplements ==
    ASSUME IInv, Known, NEW raw \in RawPaths, LsNode(raw)
    PROVE  Store!On(raw, <<"ls", raw>>, Store!Ls)
<1> DEFINE q == SplitPath(raw)
           req == <<"ls", raw>>
<1>1. CASE Malformed(req, raw)
  BY <1>1, Refused DEF Store!On
<1>2. CASE q # <<>> /\ WalkTo(q) = Nil /\ Fail(req, "node not exists") /\ Quiet
  BY <1>2, Taken, NotThere DEF Store!On, Store!Ls
<1>3. CASE /\ q # <<>> /\ WalkTo(q) # Nil
           /\ resp' = [req |-> req, children |-> ChildNames(WalkTo(q))] /\ Quiet
  <2>1. Store!Ls(req, q) /\ resp'.req = req
    <3>1. StoreView' = StoreView
      BY <1>3, QuietView
    <3>2. q \in DOMAIN StoreView /\ q \in CanonicalPaths
      BY <1>3, Taken
    <3> HIDE DEF q
    <3>3. {r[Len(r)] : r \in Store!Below(q)} = ChildNames(WalkTo(q))
      BY <1>3, <3>2, BelowFacts
    <3> QED
      BY <1>3, <3>1, <3>2, <3>3 DEF Store!Ls
  <2> QED
    BY <1>3, <2>1, Taken DEF Store!On
<1> QED
  BY <1>1, <1>2, <1>3 DEF LsNode, Lookup

\* An object has as many children as the store has paths just below its own.
LEMMA CountBelow ==
    ASSUME IInv, Known, NEW q \in CanonicalPaths, WalkTo(q) # Nil
    PROVE  Cardinality(Store!Below(q)) = Cardinality(ChildNames(WalkTo(q)))
<1> DEFINE B == Store!Below(q)
           C == ChildNames(WalkTo(q))
           f == [r \in B |-> LastName(r)]
           g == [m \in C |-> children[WalkTo(q)][m]]
<1>1. /\ \A r \in B : r \in Seq(Names) \ {<<>>} /\ Parent(r) = q /\ LastName(r) \in C
      /\ \A m \in C : \E r \in B : LastName(r) = m
  BY BelowFacts
<1>2. WalkTo(q) \in Nodes
  BY PathsTyped, WalkLive
<1>3. C \subseteq Names /\ \A m \in C : children[WalkTo(q)][m] # Nil
  BY DEF ChildNames
<1>4. \A m \in C : g[m] \in Nodes
  BY <1>2, <1>3 DEF IInv, TypeOK
<1>5. \A m \in C, l \in C : g[m] = g[l] => m = l
  BY <1>2, <1>3, OneEntry
<1>6. \A r \in B, t \in B : LastName(r) = LastName(t) => r = t
  BY <1>1, SamePath
<1> HIDE DEF B, C
<1>7. g \in Injection(C, Nodes)
  <2>1. g \in [C -> Nodes]
    BY <1>4
  <2>2. IsInjective(g)
    BY <1>5 DEF IsInjective
  <2> QED
    BY <2>1, <2>2 DEF Injection
<1>8. IsFiniteSet(C)
  BY <1>7, NodesAssumption, FS_Injection
<1>9. f \in Bijection(B, C)
  <2>1. f \in [B -> C]
    BY <1>1
  <2>2. IsInjective(f)
    BY <1>6 DEF IsInjective
  <2>3. \A m \in C : \E r \in B : f[r] = m
    BY <1>1
  <2> QED
    BY <2>1, <2>2, <2>3 DEF Bijection, Injection, Surjection
<1>10. IsFiniteSet(B) /\ Cardinality(B) = Cardinality(C)
  <2>1. ExistsBijection(B, C)
    BY <1>9 DEF ExistsBijection
  <2>2. ExistsBijection(C, B)
    BY <2>1, Fun_ExistsBijSymmetric
  <2> QED
    BY <1>8, <2>2, FS_Bijection
<1> QED
  BY <1>10 DEF B, C

\* NodeStore's Cardinality is this module's.
LEMMA SameCardinality == \A S : Store!Cardinality(S) = Cardinality(S)
BY DEF Store!Cardinality, Cardinality

LEMMA StatImplements ==
    ASSUME IInv, Known, NEW raw \in RawPaths, StatNode(raw)
    PROVE  Store!On(raw, <<"stat", raw>>, Store!Stat)
<1> DEFINE q == SplitPath(raw)
           req == <<"stat", raw>>
<1>1. CASE Malformed(req, raw)
  BY <1>1, Refused DEF Store!On
<1>2. CASE q # <<>> /\ WalkTo(q) = Nil /\ Fail(req, "node not exists") /\ Quiet
  BY <1>2, Taken, NotThere DEF Store!On, Store!Stat
<1>3. CASE /\ q # <<>> /\ WalkTo(q) # Nil
           /\ resp' = [req |-> req,
                       dataLength |-> Len(node[WalkTo(q)].data),
                       ephemeralOwner |-> node[WalkTo(q)].owner,
                       numChildren |-> Cardinality(ChildNames(WalkTo(q))),
                       nodeType |-> node[WalkTo(q)].type]
           /\ Quiet
  <2>1. Store!Stat(req, q) /\ resp'.req = req
    <3>1. StoreView' = StoreView
      BY <1>3, QuietView
    <3>2. q \in DOMAIN StoreView /\ q \in CanonicalPaths /\ StoreView[q] = Entry(WalkTo(q))
      BY <1>3, Taken
    <3> HIDE DEF q
    <3>3. Store!Cardinality(Store!Below(q)) = Cardinality(ChildNames(WalkTo(q)))
      BY <1>3, <3>2, CountBelow, SameCardinality
    <3>4. /\ StoreView[q].data = node[WalkTo(q)].data
          /\ StoreView[q].type = node[WalkTo(q)].type
          /\ StoreView[q].owner = node[WalkTo(q)].owner
      BY <3>2 DEF Entry
    <3>5. resp' = [req |-> req,
                   dataLength |-> Len(StoreView[q].data),
                   ephemeralOwner |-> StoreView[q].owner,
                   numChildren |-> Store!Cardinality(Store!Below(q)),
                   nodeType |-> StoreView[q].type]
      BY <1>3, <3>3, <3>4
    <3>6. resp'.req = req
      BY <3>5
    <3> QED
      BY <3>1, <3>2, <3>5, <3>6, Zenon DEF Store!Stat
  <2> QED
    BY <1>3, <2>1, Taken DEF Store!On
<1> QED
  BY <1>1, <1>2, <1>3 DEF StatNode, Lookup

LEMMA ExistsImplements ==
    ASSUME IInv, NEW raw \in RawPaths, ExistsNode(raw)
    PROVE  Store!On(raw, <<"exists", raw>>, Store!Exists)
<1> DEFINE q == SplitPath(raw)
           req == <<"exists", raw>>
<1>1. CASE Malformed(req, raw)
  BY <1>1, Refused DEF Store!On
<1>2. CASE q # <<>> /\ resp' = [req |-> req, exist |-> WalkTo(q) # Nil] /\ Quiet
  <2>1. Store!Exists(req, q) /\ resp'.req = req
    <3>1. StoreView' = StoreView
      BY <1>2, QuietView
    <3>2. q \in DOMAIN StoreView <=> WalkTo(q) # Nil
      BY <1>2, Taken
    <3> HIDE DEF q
    <3>3. (q \in DOMAIN StoreView) = (WalkTo(q) # Nil)
      BY <3>2
    <3>4. resp' = [req |-> req, exist |-> q \in DOMAIN StoreView]
      BY <1>2, <3>3
    <3> QED
      BY <3>1, <3>4 DEF Store!Exists
  <2> QED
    BY <1>2, <2>1, Taken DEF Store!On
<1> QED
  BY <1>1, <1>2 DEF ExistsNode

LEMMA CreateImplements ==
    ASSUME IInv, IInv', NEW s \in Sessions, NEW raw \in RawPaths, NEW d \in Data,
           NEW t \in NodeTypes, CreateNode(s, raw, d, t)
    PROVE  Store!On(raw, <<"create", raw, s, d, t>>, LAMBDA r, q : Store!Create(r, s, q, d, t))
<1> DEFINE q == SplitPath(raw)
           req == <<"create", raw, s, d, t>>
           curr == WalkTo(Parent(q))
<1>1. CASE Malformed(req, raw)
  BY <1>1, Refused DEF Store!On
<1>2. ASSUME q # <<>>, Store!Create(req, s, q, d, t), resp'.req = req
      PROVE  Store!On(raw, req, LAMBDA r, p : Store!Create(r, s, p, d, t))
  BY <1>2, Taken DEF Store!On
<1>3. ASSUME q # <<>>
      PROVE  /\ q \in CanonicalPaths /\ q \in Seq(Names) \ {<<>>}
             /\ q \in DOMAIN StoreView <=> WalkTo(q) # Nil
             /\ curr = Nil => Len(q) > 1 /\ Store!Above(q) \notin DOMAIN StoreView
             /\ curr # Nil => (Len(q) > 1 => Store!Above(q) \in DOMAIN StoreView)
             /\ curr # Nil => WalkTo(q) = children[curr][LastName(q)]
  <2>1. /\ q \in CanonicalPaths /\ q \in Seq(Names) \ {<<>>}
        /\ q \in DOMAIN StoreView <=> WalkTo(q) # Nil
    BY <1>3, Taken
  <2> HIDE DEF q
  <2>2. Store!Above(q) = Parent(q)
    BY DEF Store!Above, Parent
  <2>3. Len(q) > 1 => Parent(q) \in CanonicalPaths
    BY <2>1, PathsTyped
  <2>4. Parent(q) \in DOMAIN StoreView <=> Parent(q) \in CanonicalPaths /\ curr # Nil
    BY ViewFacts
  <2>5. Len(q) \in Nat /\ Len(q) > 0 /\ Parent(q) \in Seq(Names) /\ Len(Parent(q)) = Len(q) - 1
    BY <2>1, ParentFacts
  <2>6. ~ (Len(q) > 1) => Parent(q) = <<>>
    <3>1. \A n \in Nat : n > 0 /\ ~ (n > 1) => n - 1 = 0
      OBVIOUS
    <3> QED
      BY <2>5, <3>1, EmptySeq
  <2>7. Parent(q) = <<>> => curr # Nil
    BY WalkSteps, NodesAssumption
  <2>8. curr # Nil => WalkTo(q) = children[curr][LastName(q)]
    BY <2>1, WalkSteps
  <2> HIDE DEF curr
  <2> QED
    BY <2>1, <2>2, <2>3, <2>4, <2>6, <2>7, <2>8
<1>4. CASE q # <<>> /\ curr = Nil /\ Fail(req, "path not exists") /\ Quiet
  <2>1. Len(q) > 1 /\ Store!Above(q) \notin DOMAIN StoreView
    BY <1>3, <1>4
  <2>2. StoreView' = StoreView
    BY <1>4, QuietView
  <2> HIDE DEF q
  <2>3. Store!Create(req, s, q, d, t) /\ resp'.req = req
    BY <1>4, <2>1, <2>2 DEF Store!Create, Store!Fail, Fail
  <2> QED
    BY <1>2, <1>4, <2>3
<1>5. CASE /\ q # <<>> /\ curr # Nil /\ children[curr][LastName(q)] # Nil
           /\ Fail(req, "node already exists") /\ Quiet
  <2>1. q \in DOMAIN StoreView
    BY <1>3, <1>5
  <2>2. StoreView' = StoreView
    BY <1>5, QuietView
  <2> HIDE DEF q
  <2>3. Store!Create(req, s, q, d, t) /\ resp'.req = req
    BY <1>5, <2>1, <2>2 DEF Store!Create, Store!Fail, Fail
  <2> QED
    BY <1>2, <1>5, <2>3
<1>6. CASE /\ q # <<>> /\ curr # Nil /\ children[curr][LastName(q)] = Nil
           /\ \E n \in Allocatable : Attach(s, n, curr, LastName(q), d, t)
           /\ Done(req)
  <2>1. /\ q \in CanonicalPaths /\ q \in Seq(Names) \ {<<>>} /\ q \notin DOMAIN StoreView
        /\ Len(q) > 1 => Store!Above(q) \in DOMAIN StoreView
        /\ WalkTo(q) = Nil
    BY <1>3, <1>6
  <2> HIDE DEF q
  <2>2. PICK n \in Allocatable : Attach(s, n, curr, LastName(q), d, t)
    BY <1>6
  <2>3. /\ n \in Nodes /\ n \notin live /\ n # Nil
        /\ \A r \in Seq(Names) : WalkTo(r)' = IF r = q THEN n ELSE WalkTo(r)
    BY <1>6, <2>1, <2>2, AttachWalk
  <2>4. node' = [node EXCEPT ![n] = NewNode(s, curr, LastName(q), d, t)]
    BY <2>2 DEF Attach
  <2> DEFINE new == [data |-> d, type |-> t,
                     owner |-> IF t = "EPHEMERAL" THEN s ELSE NoOwner]
             D == DOMAIN StoreView \cup {q}
  <2>5. {r \in CanonicalPaths : WalkTo(r)' # Nil} = D
    <3>1. \A r \in CanonicalPaths : WalkTo(r)' = IF r = q THEN n ELSE WalkTo(r)
      BY <2>3, PathsTyped
    <3> QED
      BY <3>1, <2>1, <2>3, ViewFacts
  <2>6. ASSUME NEW r \in D
        PROVE  Entry(WalkTo(r))' = IF r = q THEN new ELSE StoreView[r]
    <3>1. r \in CanonicalPaths /\ r \in Seq(Names)
      BY <2>1, ViewFacts, PathsTyped
    <3>2. Entry(WalkTo(r))' = [data |-> node'[WalkTo(r)'].data, type |-> node'[WalkTo(r)'].type,
                               owner |-> node'[WalkTo(r)'].owner]
      BY DEF Entry
    <3>3. node \in [Nodes -> [name : Names, data : AllData, type : AllTypes,
                              owner : Sessions \cup {NoOwner}, parent : Nodes \cup {Nil}]]
      BY DEF IInv, TypeOK
    <3>4. CASE r = q
      <4>1. WalkTo(r)' = n
        BY <2>3, <3>1, <3>4
      <4>2. node'[n] = NewNode(s, curr, LastName(q), d, t)
        BY <2>3, <2>4, <3>3
      <4> QED
        BY <3>2, <3>4, <4>1, <4>2 DEF NewNode
    <3>5. CASE r # q
      <4>1. WalkTo(r)' = WalkTo(r) /\ WalkTo(r) # Nil
        BY <2>3, <3>1, <3>5, ViewFacts
      <4>2. WalkTo(r) \in Nodes /\ WalkTo(r) # n
        BY <2>3, <3>1, <4>1, WalkLive
      <4>3. node'[WalkTo(r)] = node[WalkTo(r)]
        BY <2>4, <3>3, <4>2
      <4>4. StoreView[r] = Entry(WalkTo(r))
        BY <3>1, <4>1, ViewFacts
      <4> QED
        BY <3>2, <3>5, <4>1, <4>3, <4>4 DEF Entry
    <3> QED
      BY <3>4, <3>5
  <2>7. StoreView' = [r \in D |-> IF r = q THEN new ELSE StoreView[r]]
    <3>1. StoreView' = [r \in D |-> Entry(WalkTo(r))']
      BY <2>5, ViewFactsAfter
    <3> HIDE DEF D, new
    <3> QED
      BY <3>1, <2>6
  <2>8. resp' = [req |-> req]
    BY <1>6 DEF Done
  <2>9. Store!Create(req, s, q, d, t) /\ resp'.req = req
    BY <2>1, <2>7, <2>8 DEF Store!Create
  <2> QED
    BY <1>2, <1>6, <2>9
<1> QED
  BY <1>1, <1>4, <1>5, <1>6 DEF CreateNode

LEMMA EndImplements ==
    ASSUME IInv, IInv', Known, NEW s \in Sessions, RemoveEphemeral(s)
    PROVE  Store!EndSession(s)
<1> DEFINE ch == CutOwned(s)
<1>1. ReleaseTo(ch) /\ UNCHANGED resp
  BY ErasedIsOwned DEF RemoveEphemeral
<1>2. ch \in Tables /\ \A p \in Nodes, m \in Names : ch[p][m] \in {children[p][m], Nil}
  BY CutOwnedTables
<1>3. \A r \in DOMAIN StoreView : Cut(ch, r) <=> \E q \in Store!Owned(s) : Store!IsPrefix(q, r)
  <2>1. \A r \in DOMAIN StoreView : r \in Seq(Names)
    BY ViewFacts, PathsTyped
  <2> QED
    BY <2>1, CutOwnedCuts
<1> HIDE DEF ch
<1>4. StoreView' = [r \in {r \in DOMAIN StoreView : ~ Cut(ch, r)} |-> StoreView[r]]
  BY <1>1, <1>2, ReleaseView
<1>5. {r \in DOMAIN StoreView : ~ Cut(ch, r)}
        = {r \in DOMAIN StoreView : \A q \in Store!Owned(s) : ~ Store!IsPrefix(q, r)}
  BY <1>3
<1>6. StoreView' = Store!Keep({r \in DOMAIN StoreView :
                                 \A q \in Store!Owned(s) : ~ Store!IsPrefix(q, r)})
  BY <1>4, <1>5 DEF Store!Keep
<1> QED
  BY <1>1, <1>6 DEF Store!EndSession

-----------------------------------------------------------------------------
(* The service implements the store *)

LEMMA StoreInit == Init => Store!Init
<1> SUFFICES ASSUME Init PROVE Store!Init
  OBVIOUS
<1>1. IInv /\ Known
  BY InitIInv, KnownInit
<1>2. WalkTo(<<EmptyName>>) = RootNode /\ <<EmptyName>> \in CanonicalPaths
  <2>1. <<EmptyName>> \in Seq(Names) \ {<<>>} /\ <<EmptyName>> \in CanonicalPaths
    BY PathsTyped
  <2>2. Parent(<<EmptyName>>) = <<>> /\ LastName(<<EmptyName>>) = EmptyName
    <3>1. SubSeq(<<EmptyName>>, 1, 0) = <<>>
      BY SubSeqEmpty
    <3> QED
      BY <3>1 DEF Parent, LastName
  <2>3. WalkTo(<<EmptyName>>) = IF WalkTo(<<>>) = Nil THEN Nil ELSE children[WalkTo(<<>>)][EmptyName]
    BY <2>1, <2>2, WalkSteps
  <2> QED
    BY <2>1, <2>3, WalkSteps, NodesAssumption, NamesAssumption DEF Init, NoChildren
<1>3. \A q \in CanonicalPaths : WalkTo(q) # Nil => q = <<EmptyName>>
  <2> TAKE q \in CanonicalPaths
  <2> SUFFICES ASSUME WalkTo(q) # Nil PROVE q = <<EmptyName>>
    OBVIOUS
  <2>1. q \in Seq(Names) \ {<<>>} /\ <<EmptyName>> \in Seq(Names)
    BY PathsTyped
  <2>2. WalkTo(q) \in live \ {Dummy}
    BY <1>1, <2>1, WalkUp
  <2>3. WalkTo(q) = RootNode
    BY <2>2 DEF Init
  <2> QED
    BY <1>1, <1>2, <2>1, <2>3, OnePath
<1>4. Entry(RootNode) = [data |-> RootData, type |-> "PERSISTENT", owner |-> NoOwner]
  BY NodesAssumption DEF Init, Entry
<1>5. {q \in CanonicalPaths : WalkTo(q) # Nil} = {<<EmptyName>>}
  BY <1>2, <1>3, NodesAssumption
<1>6. StoreView = [q \in {<<EmptyName>>} |-> Entry(WalkTo(q))]
  BY <1>5, ViewFacts
<1>7. StoreView = [q \in {<<EmptyName>>} |->
                     [data |-> RootData, type |-> "PERSISTENT", owner |-> NoOwner]]
  BY <1>2, <1>4, <1>6
<1> QED
  BY <1>7 DEF Store!Init, Store!RootPath, Init

LEMMA StoreStep == IInv /\ IInv' /\ Known /\ [Next]_vars => [Store!Next]_Store!vars
<1> SUFFICES ASSUME IInv, IInv', Known, [Next]_vars PROVE [Store!Next]_Store!vars
  OBVIOUS
<1>1. CASE Unreadable
  <2>1. Store!Unreadable
    BY <1>1, QuietView DEF Unreadable, Store!Unreadable, Fail, Store!Fail, Ops, Store!Ops
  <2> QED
    BY <2>1 DEF Store!Next
<1>2. ASSUME NEW raw \in RawPaths, GetNode(raw) PROVE Store!Next
  BY <1>2, GetImplements DEF Store!Next
<1>3. ASSUME NEW raw \in RawPaths, DeleteNode(raw) PROVE Store!Next
  BY <1>3, DeleteImplements DEF Store!Next
<1>4. ASSUME NEW raw \in RawPaths, LsNode(raw) PROVE Store!Next
  BY <1>4, LsImplements DEF Store!Next
<1>5. ASSUME NEW raw \in RawPaths, StatNode(raw) PROVE Store!Next
  BY <1>5, StatImplements DEF Store!Next
<1>6. ASSUME NEW raw \in RawPaths, ExistsNode(raw) PROVE Store!Next
  BY <1>6, ExistsImplements DEF Store!Next
<1>7. ASSUME NEW raw \in RawPaths, NEW d \in Data, SetNode(raw, d) PROVE Store!Next
  BY <1>7, SetImplements DEF Store!Next
<1>8. ASSUME NEW raw \in RawPaths, NEW s \in Sessions, NEW d \in Data, NEW t \in NodeTypes,
             CreateNode(s, raw, d, t)
      PROVE  Store!Next
  BY <1>8, CreateImplements DEF Store!Next
<1>9. ASSUME NEW s \in Sessions, RemoveEphemeral(s) PROVE Store!Next
  BY <1>9, EndImplements DEF Store!Next
<1>10. CASE UNCHANGED vars
  <2>1. StoreView' = StoreView /\ resp' = resp
    BY <1>10, QuietView DEF vars, Quiet
  <2> QED
    BY <2>1 DEF Store!vars
<1> QED
  BY <1>1, <1>2, <1>3, <1>4, <1>5, <1>6, <1>7, <1>8, <1>9, <1>10 DEF Next, Request, SessionEnd

\* Every object alive but the dummy is at one path that a request may name, and at
\* no other: nothing is kept that no request can reach.
THEOREM EveryObjectHasItsPath ==
    Spec => [](\A n \in live \ {Dummy} :
                 \E q \in CanonicalPaths :
                   WalkTo(q) = n /\ \A r \in CanonicalPaths : WalkTo(r) = n => r = q)
<1>1. IInv /\ Known => \A n \in live \ {Dummy} :
                         \E q \in CanonicalPaths :
                           WalkTo(q) = n /\ \A r \in CanonicalPaths : WalkTo(r) = n => r = q
  <2> SUFFICES ASSUME IInv, Known, NEW n \in live \ {Dummy}
               PROVE  \E q \in CanonicalPaths :
                        WalkTo(q) = n /\ \A r \in CanonicalPaths : WalkTo(r) = n => r = q
    OBVIOUS
  <2>1. PICK q \in CanonicalPaths : WalkTo(q) = n
    BY DEF Known
  <2>2. n # Nil
    BY NodesAssumption DEF IInv, TypeOK
  <2> QED
    BY <2>1, <2>2, OnePath, PathsTyped
<1>2. Spec => []Known
  BY KnownInit, NextKnown, Invariance, PTL DEF Spec
<1> QED
  BY <1>1, <1>2, Invariance, PTL

\* The object graph answers every request, and ends every session, as a map from
\* paths to nodes would.
THEOREM StoreImplemented == Spec => ImplementsStore
<1>1. Spec => []Known
  BY KnownInit, NextKnown, Invariance, PTL DEF Spec
<1> QED
  BY <1>1, StoreInit, StoreStep, Invariance, PTL DEF Spec, ImplementsStore, Store!Spec
=============================================================================
