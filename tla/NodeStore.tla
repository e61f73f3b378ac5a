----------------------------- MODULE NodeStore -----------------------------
(***************************************************************************)
(* What the node service promises to its clients, without the objects that *)
(* implement it: a finite map from paths to nodes, the answer of every     *)
(* operation as a function of that map, and the end of a session as a scan *)
(* of the whole map for the nodes the session owns.  Module Services, the  *)
(* object graph of Services.cpp, is shown to implement this one.           *)
(***************************************************************************)
EXTENDS Naturals, Sequences, FiniteSets

CONSTANTS
    Sessions,    \* session ids that requests carry
    NoOwner,     \* the owner of a node that belongs to no session
    EmptyName,   \* the name before the first slash
    Data,        \* node contents
    RootData,    \* the content of the root
    NodeTypes,   \* types a create request may ask for
    RawPaths     \* requested paths, as the names between their slashes

VARIABLES
    store,       \* path -> [data, type, owner]
    resp         \* the latest request and its answer

vars == <<store, resp>>

Ops == {"create", "get", "set", "delete", "ls", "stat", "exists"}

\* A path is one or more names of which only the first may be empty; a request
\* may write a slash after it.
Paths == {q \in RawPaths : \A i \in 2 .. Len(q) : q[i] # EmptyName}
RootPath == <<EmptyName>>
Denotes(raw, q) == raw = Append(q, EmptyName) \/ (raw = q /\ raw # RootPath)

Above(q) == SubSeq(q, 1, Len(q) - 1)
IsPrefix(p, q) == Len(p) <= Len(q) /\ SubSeq(q, 1, Len(p)) = p
Below(q) == {r \in DOMAIN store : Len(r) = Len(q) + 1 /\ IsPrefix(q, r)}

Fail(req, msg) == resp' = [req |-> req, err |-> msg]
Keep(D) == [q \in D |-> store[q]]

Init ==
    /\ store = [q \in {RootPath} |->
                  [data |-> RootData, type |-> "PERSISTENT", owner |-> NoOwner]]
    /\ resp = [req |-> <<>>]

\* A request whose kind is unknown, whose body cannot be read, or whose path is
\* not one: the store is not looked at.
Unreadable ==
    /\ \/ Fail(<<"unknown">>, "error")
       \/ \E op \in Ops : Fail(<<op>>, "parse error")
    /\ UNCHANGED store

Malformed(req) == Fail(req, "path error") /\ UNCHANGED store

Missing(req, q) ==
    /\ Fail(req, "node not exists")
    /\ q \notin DOMAIN store
    /\ UNCHANGED store

Create(req, s, q, d, t) ==
    \/ /\ Fail(req, "path not exists")
       /\ Len(q) > 1 /\ Above(q) \notin DOMAIN store
       /\ UNCHANGED store
    \/ /\ Fail(req, "node already exists")
       /\ q \in DOMAIN store
       /\ UNCHANGED store
    \/ /\ resp' = [req |-> req]
       /\ Len(q) > 1 => Above(q) \in DOMAIN store
       /\ q \notin DOMAIN store
       /\ store' = [r \in DOMAIN store \cup {q} |->
                      IF r = q
                      THEN [data |-> d, type |-> t,
                            owner |-> IF t = "EPHEMERAL" THEN s ELSE NoOwner]
                      ELSE store[r]]

Get(req, q) ==
    \/ Missing(req, q)
    \/ /\ q \in DOMAIN store
       /\ resp' = [req |-> req, data |-> store[q].data]
       /\ UNCHANGED store

Set(req, q, d) ==
    \/ Missing(req, q)
    \/ /\ resp' = [req |-> req]
       /\ q \in DOMAIN store
       /\ store' = [store EXCEPT ![q].data = d]

Delete(req, q) ==
    \/ /\ Fail(req, "delete the root node is not allowed")
       /\ Len(q) = 1
       /\ UNCHANGED store
    \/ Len(q) > 1 /\ Missing(req, q)
    \/ /\ resp' = [req |-> req]
       /\ Len(q) > 1 /\ q \in DOMAIN store
       /\ store' = Keep({r \in DOMAIN store : ~ IsPrefix(q, r)})

Ls(req, q) ==
    \/ Missing(req, q)
    \/ /\ q \in DOMAIN store
       /\ resp' = [req |-> req, children |-> {r[Len(r)] : r \in Below(q)}]
       /\ UNCHANGED store

Stat(req, q) ==
    \/ Missing(req, q)
    \/ /\ q \in DOMAIN store
       /\ resp' = [req |-> req, dataLength |-> Len(store[q].data),
                   ephemeralOwner |-> store[q].owner,
                   numChildren |-> Cardinality(Below(q)),
                   nodeType |-> store[q].type]
       /\ UNCHANGED store

Exists(req, q) ==
    /\ resp' = [req |-> req, exist |-> q \in DOMAIN store]
    /\ UNCHANGED store

\* A request Op(req, q) for what raw denotes, or its refusal.
On(raw, req, Op(_, _)) ==
    /\ resp'.req = req
    /\ \/ (\A q \in Paths : ~ Denotes(raw, q)) /\ Malformed(req)
       \/ \E q \in Paths : Denotes(raw, q) /\ Op(req, q)

\* The end of session s takes the nodes it owns, and what is below them.
Owned(s) == {q \in DOMAIN store : store[q].type = "EPHEMERAL" /\ store[q].owner = s}

EndSession(s) ==
    /\ UNCHANGED resp
    /\ store' = Keep({r \in DOMAIN store : \A q \in Owned(s) : ~ IsPrefix(q, r)})

Next ==
    \/ Unreadable
    \/ \E raw \in RawPaths :
         \/ On(raw, <<"get", raw>>, Get)
         \/ On(raw, <<"delete", raw>>, Delete)
         \/ On(raw, <<"ls", raw>>, Ls)
         \/ On(raw, <<"stat", raw>>, Stat)
         \/ On(raw, <<"exists", raw>>, Exists)
         \/ \E d \in Data : On(raw, <<"set", raw, d>>, LAMBDA r, q : Set(r, q, d))
         \/ \E s \in Sessions, d \in Data, t \in NodeTypes :
              On(raw, <<"create", raw, s, d, t>>, LAMBDA r, q : Create(r, s, q, d, t))
    \/ \E s \in Sessions : EndSession(s)

Spec == Init /\ [][Next]_vars
=============================================================================
