------------------------- MODULE IndexedHeapProofs -------------------------
(***************************************************************************)
(* Theorems about IndexedHeap, for every set of ids and keys and every     *)
(* capacity.                                                               *)
(***************************************************************************)
EXTENDS IndexedHeap, LeastNumber

-----------------------------------------------------------------------------
(* Positions *)

\* The parent of a position is below it, and the two children of a parent are its
\* only children.
LEMMA FaFacts ==
    ASSUME NEW i \in Nat, i > 0
    PROVE  /\ Fa(i) \in Nat /\ Fa(i) < i
           /\ i = Lc(Fa(i)) \/ i = Rc(Fa(i))
BY DEF Fa, Lc, Rc

LEMMA ChildFacts ==
    ASSUME NEW i \in Nat
    PROVE  /\ Lc(i) \in Nat /\ Lc(i) > i /\ Fa(Lc(i)) = i
           /\ Rc(i) \in Nat /\ Rc(i) > i /\ Fa(Rc(i)) = i
BY DEF Fa, Lc, Rc

-----------------------------------------------------------------------------
(* The inductive invariant *)

Ord(i) == slot[Fa(i)].key <= slot[i].key

\* The children of idx respect the parent of idx: what keeps the rest of the heap
\* in order while the entry at idx is on its way.
Bridge(idx) ==
    idx > 0 => \A i \in Held \ {0} : Fa(i) = idx => slot[Fa(idx)].key <= slot[i].key

\* In shift_up, the entry at idx may be out of order with its parent and with its
\* children; in shift_down, with its children only.
UpOrder(idx) ==
    /\ \A i \in Held \ {0} : i # idx /\ Fa(i) # idx => Ord(i)
    /\ Bridge(idx)
DownOrder(idx) ==
    /\ \A i \in Held \ {0} : Fa(i) # idx => Ord(i)
    /\ Bridge(idx)

Order ==
    /\ op.pc \in {"idle", "append"} => \A i \in Held \ {0} : Ord(i)
    /\ op.pc \in {"index", "up"} => UpOrder(op.idx)
    /\ op.pc = "down" => DownOrder(op.idx)

\* Where the operation is.
Place ==
    /\ op.pc = "append" => /\ op.call \in WithKey /\ op.call.name = "push"
                           /\ op.idx = size /\ size < Cap
                           /\ op.call.id \notin DOMAIN index
    /\ op.pc = "index" => op.call \in WithKey
    /\ op.pc \in {"index", "up", "down"} => op.idx \in Held

IInv == TypeOK /\ IndexExact /\ Order /\ Place

LEMMA InitIInv == Init => IInv
<1> SUFFICES ASSUME Init PROVE IInv
  OBVIOUS
<1>1. Pos \subseteq Nat /\ 0 \in Pos /\ Held = {} /\ size \in 0 .. Cap
  BY CapAssumption DEF Init, Pos, Held
<1>2. TypeOK
  <2>1. op \in Ops
    BY <1>1 DEF Init, Ops, Calls, Plain
  <2> QED
    BY <1>1, <2>1, KeysAssumption DEF Init, TypeOK, Entry, Vacant
<1>3. IndexExact
  BY <1>1 DEF Init, IndexExact
<1>4. Order
  BY <1>1 DEF Init, Order
<1>5. Place
  BY DEF Init, Place
<1> QED
  BY <1>2, <1>3, <1>4, <1>5 DEF IInv

-----------------------------------------------------------------------------
(* Swapping, rekeying, appending *)

\* m_map and m_heap are inverse to each other.
Inverse ==
    /\ \A i \in Held : slot[i].id \in DOMAIN index /\ index[slot[i].id] = i
    /\ \A id \in DOMAIN index : slot[index[id]].id = id

LEMMA PosFacts ==
    ASSUME TypeOK
    PROVE  /\ Held \subseteq Pos /\ Pos \subseteq Nat /\ size \in Nat
           /\ \A i \in Pos : slot[i] \in Entry /\ slot[i].key \in Int
           /\ \A i \in Nat : i \in Held <=> i < size
<1>1. Held \subseteq Pos /\ Pos \subseteq Nat /\ size \in Nat
  BY CapAssumption DEF TypeOK, Held, Pos
<1>2. \A i \in Pos : slot[i] \in Entry /\ slot[i].key \in Int
  BY KeysAssumption DEF TypeOK, Entry
<1> QED
  BY <1>1, <1>2 DEF Held

\* A position of the heap other than the top has its parent in the heap.
LEMMA HeldFacts ==
    ASSUME TypeOK, NEW i \in Held \ {0}
    PROVE  /\ i \in Nat /\ i > 0 /\ i < size /\ i \in Pos /\ slot[i].key \in Int
           /\ Fa(i) \in Held /\ Fa(i) \in Nat /\ Fa(i) < i /\ Fa(i) # i /\ Fa(i) \in Pos
           /\ slot[Fa(i)].key \in Int
<1>1. i \in Nat /\ i > 0 /\ i < size /\ i \in Pos
  BY PosFacts
<1>2. Fa(i) \in Nat /\ Fa(i) < i /\ Fa(i) \in Held
  BY <1>1, FaFacts, PosFacts
<1> QED
  BY <1>1, <1>2, PosFacts

\* swap_node keeps the map the inverse of the heap.
LEMMA SwapKeeps ==
    ASSUME TypeOK, Inverse, NEW a \in Held, NEW b \in Held, a # b,
           SwapNode(a, b), size' = size
    PROVE  /\ slot' \in [Pos -> Entry]
           /\ slot'[a] = slot[b] /\ slot'[b] = slot[a]
           /\ \A i \in Pos \ {a, b} : slot'[i] = slot[i]
           /\ \A i \in Pos : i \in Held' <=> slot'[i].id # NoId
           /\ index' \in [DOMAIN index' -> Held'] /\ DOMAIN index' = DOMAIN index
           /\ Inverse'
<1>1. a \in Pos /\ b \in Pos /\ Held' = Held
  BY PosFacts DEF Held
<1>2. /\ slot' \in [Pos -> Entry]
      /\ slot'[a] = slot[b] /\ slot'[b] = slot[a]
      /\ \A i \in Pos \ {a, b} : slot'[i] = slot[i]
  BY <1>1 DEF SwapNode, Swapped, TypeOK
<1>3. /\ slot[a].id \in DOMAIN index /\ slot[b].id \in DOMAIN index
      /\ slot[a].id # slot[b].id
  BY DEF Inverse
<1>4. /\ DOMAIN index' = DOMAIN index
      /\ \A x \in DOMAIN index :
           index'[x] = IF x = slot[a].id THEN b ELSE IF x = slot[b].id THEN a ELSE index[x]
  BY <1>3 DEF SwapNode, Indexed
<1>5. index' \in [DOMAIN index' -> Held']
  <2>1. index' = [x \in DOMAIN index' |-> index'[x]]
    BY DEF SwapNode, Indexed
  <2>2. \A x \in DOMAIN index' : index'[x] \in Held'
    BY <1>1, <1>4 DEF TypeOK
  <2> QED
    BY <2>1, <2>2
<1>6. Inverse'
  <2>1. ASSUME NEW i \in Held
        PROVE  slot'[i].id \in DOMAIN index' /\ index'[slot'[i].id] = i
    <3>1. i \in Pos /\ slot[i].id \in DOMAIN index /\ index[slot[i].id] = i
      BY PosFacts DEF Inverse
    <3>2. CASE i \notin {a, b}
      <4>1. slot[i].id # slot[a].id /\ slot[i].id # slot[b].id
        BY <3>1, <3>2 DEF Inverse
      <4> QED
        BY <3>1, <3>2, <4>1, <1>2, <1>4
    <3>3. CASE i = a
      BY <3>3, <1>2, <1>3, <1>4
    <3>4. CASE i = b
      BY <3>4, <1>2, <1>3, <1>4
    <3> QED
      BY <3>2, <3>3, <3>4
  <2>2. ASSUME NEW id \in DOMAIN index'
        PROVE  slot'[index'[id]].id = id
    <3>1. id \in DOMAIN index /\ index[id] \in Pos /\ slot[index[id]].id = id
      BY <2>2, <1>4, PosFacts DEF Inverse, TypeOK
    <3>2. CASE id = slot[a].id \/ id = slot[b].id
      BY <3>1, <3>2, <1>2, <1>3, <1>4
    <3>3. CASE id # slot[a].id /\ id # slot[b].id
      BY <3>1, <3>3, <1>2, <1>4
    <3> QED
      BY <3>2, <3>3
  <2> QED
    BY <2>1, <2>2, <1>1 DEF Inverse
<1>7. \A i \in Pos : i \in Held' <=> slot'[i].id # NoId
  BY <1>1, <1>2 DEF TypeOK
<1> QED
  BY <1>2, <1>4, <1>5, <1>6, <1>7

\* The operation record after a step.
LEMMA GoFacts ==
    ASSUME NEW pc \in {"idle", "append", "index", "up", "down"}, NEW c \in Calls,
           NEW i \in Pos, Go(pc, c, i)
    PROVE  op' \in Ops /\ op'.pc = pc /\ op'.call = c /\ op'.idx = i
BY DEF Go, Ops

LEMMA StutterKeeps == IInv /\ UNCHANGED vars => IInv'
BY DEF IInv, vars, TypeOK, IndexExact, Order, Place, Ord, UpOrder, DownOrder, Bridge,
       Held, Idle

\* An operation that returns without touching the heap.
LEMMA ReturnKeeps ==
    ASSUME IInv, NEW c \in Calls, Idle, Return(c), UNCHANGED <<slot, size, index>>
    PROVE  IInv'
<1>1. 0 \in Pos
  BY CapAssumption DEF Pos
<1>2. op' \in Ops /\ op'.pc = "idle"
  BY <1>1, GoFacts DEF Return
<1>3. TypeOK'
  BY <1>2 DEF IInv, TypeOK, Held
<1>4. IndexExact' /\ Order' /\ Place'
  BY <1>2 DEF IInv, Idle, IndexExact, Order, Place, Ord, Held
<1> QED
  BY <1>3, <1>4 DEF IInv

\* Giving one entry a new key disturbs nothing but its order with its neighbours.
LEMMA RekeyKeeps ==
    ASSUME IInv, NEW c \in Calls, NEW key \in Keys, Rekey(c, key)
    PROVE  IInv'
<1> DEFINE idx == index[c.id]
<1>1. Idle /\ idx \in Held /\ idx \in Pos
  BY PosFacts DEF IInv, Rekey, TypeOK
<1>2. op' \in Ops /\ op'.pc = "up" /\ op'.idx = idx
  BY <1>1, GoFacts DEF Rekey
<1>3. /\ slot' \in [Pos -> Entry]
      /\ slot'[idx].key = key
      /\ \A i \in Pos : slot'[i].id = slot[i].id
      /\ \A i \in Pos \ {idx} : slot'[i] = slot[i]
  BY <1>1 DEF Rekey, IInv, TypeOK, Entry
<1>4. size' = size /\ index' = index /\ Held' = Held
  BY DEF Rekey, Held
<1> HIDE DEF idx
<1>5. TypeOK'
  BY <1>2, <1>3, <1>4 DEF IInv, TypeOK
<1>6. IndexExact'
  <2>1. \A id \in DOMAIN index : index[id] \in Pos
    BY PosFacts DEF IInv, TypeOK
  <2> QED
    BY <2>1, <1>1, <1>2, <1>3, <1>4, PosFacts DEF IInv, Idle, IndexExact
<1>7. UpOrder(op.idx)'
  <2>1. \A i \in Held \ {0} : i \in Pos /\ Fa(i) \in Pos /\ slot[Fa(i)].key <= slot[i].key
    <3> SUFFICES ASSUME NEW i \in Held \ {0}
                 PROVE  i \in Pos /\ Fa(i) \in Pos /\ slot[Fa(i)].key <= slot[i].key
      OBVIOUS
    <3>1. i \in Nat /\ i > 0 /\ i < size
      BY PosFacts DEF IInv
    <3>2. Fa(i) \in Held
      BY <3>1, FaFacts, PosFacts DEF IInv
    <3> QED
      BY <3>2, <1>1, PosFacts DEF IInv, Idle, Order, Ord
  <2>2. \A i \in Held \ {0} : i # idx /\ Fa(i) # idx => slot'[Fa(i)].key <= slot'[i].key
    BY <2>1, <1>3
  <2>3. ASSUME idx > 0, NEW i \in Held \ {0}, Fa(i) = idx
        PROVE  slot'[Fa(idx)].key <= slot'[i].key
    <3>1. idx \in Held \ {0} /\ idx \in Nat /\ i \in Nat /\ i > 0
      BY <2>3, <1>1, PosFacts DEF IInv
    <3>2. /\ Fa(idx) < idx /\ idx < i /\ Fa(idx) \in Nat
          /\ Fa(idx) \in Pos /\ i \in Pos
      BY <2>1, <2>3, <3>1, FaFacts
    <3>3. slot'[Fa(idx)] = slot[Fa(idx)] /\ slot'[i] = slot[i]
      BY <3>1, <3>2, <1>3
    <3>4. slot[Fa(idx)].key <= slot[idx].key /\ slot[idx].key <= slot[i].key
      BY <2>1, <2>3, <3>1
    <3>5. slot[Fa(idx)].key \in Int /\ slot[idx].key \in Int /\ slot[i].key \in Int
      BY <3>2, <1>1, PosFacts DEF IInv
    <3> QED
      BY <3>3, <3>4, <3>5
  <2> QED
    BY <2>2, <2>3, <1>2, <1>4 DEF UpOrder, Ord, Bridge
<1>8. Order' /\ Place'
  BY <1>1, <1>2, <1>4, <1>7 DEF Order, Place
<1> QED
  BY <1>5, <1>6, <1>8 DEF IInv

LEMMA AppendKeeps == ASSUME IInv, Append PROVE IInv'
<1>1. /\ op.pc = "append" /\ op.call \in WithKey /\ op.idx = size /\ size < Cap
      /\ op.call.id \notin DOMAIN index
  BY DEF IInv, Append, Place
<1>2. /\ size \in Nat /\ size \in Pos /\ size \notin Held /\ size' = size + 1
      /\ Held' = Held \cup {size} /\ Held \subseteq Pos /\ index' = index
  BY <1>1, CapAssumption DEF IInv, TypeOK, Held, Pos, Append
<1>3. op' \in Ops /\ op'.pc = "index" /\ op'.call = op.call /\ op'.idx = size
  BY <1>1, <1>2, GoFacts DEF IInv, TypeOK, Append, Ops
<1>4. op.call.id \in Ids /\ op.call.key \in Keys
  BY <1>1 DEF WithKey
<1>5. /\ slot' \in [Pos -> Entry]
      /\ slot'[size].id = op.call.id
      /\ \A i \in Pos \ {size} : slot'[i] = slot[i]
  BY <1>2, <1>4 DEF IInv, TypeOK, Append, Entry
<1>6. TypeOK'
  <2>1. \A i \in Pos : i \in Held' <=> slot'[i].id # NoId
    BY <1>2, <1>4, <1>5, IdsAssumption DEF IInv, TypeOK
  <2>2. size' \in 0 .. Cap
    BY <1>1, <1>2, CapAssumption
  <2>3. index' \in [DOMAIN index' -> Held'] /\ DOMAIN index' \subseteq Ids
    BY <1>2 DEF IInv, TypeOK
  <2> QED
    BY <1>3, <1>5, <2>1, <2>2, <2>3 DEF TypeOK
<1>7. IndexExact'
  <2>1. size' - 1 = size /\ Held' \ {size} = Held
    BY <1>2
  <2>2. \A id \in DOMAIN index : index[id] \in Held
    BY DEF IInv, TypeOK
  <2>3. \A i \in Held : slot'[i] = slot[i]
    BY <1>2, <1>5
  <2>4. Inverse
    BY <1>1 DEF IInv, IndexExact, Inverse
  <2>5. \A i \in Held : slot'[i].id \in DOMAIN index' /\ index'[slot'[i].id] = i
    BY <2>3, <2>4, <1>2 DEF Inverse
  <2>6. \A id \in DOMAIN index' : slot'[index'[id]].id = id
    BY <2>2, <2>3, <2>4, <1>2 DEF Inverse
  <2> QED
    BY <1>1, <1>2, <1>3, <1>5, <2>1, <2>5, <2>6 DEF IndexExact
<1>8. Order'
  <2>1. ASSUME NEW i \in Held' \ {0}, i # size, Fa(i) # size
        PROVE  Ord(i)'
    <3>1. i \in Held \ {0}
      BY <2>1, <1>2
    <3>2. slot'[i] = slot[i] /\ slot'[Fa(i)] = slot[Fa(i)]
      BY <3>1, <2>1, <1>5, HeldFacts DEF IInv
    <3> QED
      BY <3>1, <3>2, <1>1 DEF IInv, Order, Ord
  <2>2. \A i \in Held' \ {0} : Fa(i) # size
    <3> SUFFICES ASSUME NEW i \in Held' \ {0} PROVE Fa(i) # size
      OBVIOUS
    <3>1. i \in Nat /\ i > 0 /\ i <= size
      BY <1>2 DEF Held
    <3> QED
      BY <3>1, <1>2, FaFacts
  <2> QED
    BY <1>3, <2>1, <2>2 DEF Order, UpOrder, Bridge
<1>9. Place'
  BY <1>1, <1>2, <1>3 DEF Place
<1> QED
  BY <1>6, <1>7, <1>8, <1>9 DEF IInv

LEMMA WriteIndexKeeps == ASSUME IInv, WriteIndex PROVE IInv'
<1>1. /\ op.pc = "index" /\ op.call \in WithKey /\ op.idx \in Held /\ op.idx = size - 1
      /\ slot[op.idx].id = op.call.id /\ op.call.id \notin DOMAIN index
  BY DEF IInv, WriteIndex, Place, IndexExact
<1>2. op.call.id \in Ids
  BY <1>1 DEF WithKey
<1>3. size' = size /\ slot' = slot /\ Held' = Held /\ op.idx \in Pos
  BY <1>1, PosFacts DEF IInv, WriteIndex, Held
<1>4. op' \in Ops /\ op'.pc = "up" /\ op'.idx = op.idx
  BY <1>3, GoFacts DEF IInv, TypeOK, Ops, WriteIndex
<1>5. /\ DOMAIN index' = DOMAIN index \cup {op.call.id}
      /\ index'[op.call.id] = op.idx
      /\ \A id \in DOMAIN index : index'[id] = index[id]
      /\ index' = [x \in DOMAIN index' |-> index'[x]]
  BY <1>1 DEF WriteIndex, Indexed
<1>6. TypeOK'
  <2>1. \A x \in DOMAIN index' : index'[x] \in Held'
    BY <1>1, <1>3, <1>5 DEF IInv, TypeOK
  <2>2. index' \in [DOMAIN index' -> Held']
    BY <1>5, <2>1
  <2> QED
    BY <1>2, <1>3, <1>4, <1>5, <2>2 DEF IInv, TypeOK
<1>7. IndexExact'
  BY <1>1, <1>3, <1>4, <1>5 DEF IInv, IndexExact
<1>8. Order'
  BY <1>1, <1>3, <1>4 DEF IInv, Order, UpOrder, Bridge, Ord
<1>9. Place'
  BY <1>1, <1>3, <1>4 DEF Place
<1> QED
  BY <1>6, <1>7, <1>8, <1>9 DEF IInv

\* delete_node: the last entry moves to i; it was below i's parent if it was below
\* i, and may belong above i's parent if it was not.
LEMMA DeleteKeeps ==
    ASSUME IInv, Idle, NEW c \in Calls, NEW i \in Held, DeleteNode(c, i)
    PROVE  IInv'
<1> DEFINE end == size - 1
<1> USE DEF IInv
<1>1. /\ i \in Pos /\ end \in Held /\ end \in Pos /\ i \in Nat /\ end \in Nat /\ i <= end
      /\ size' = end /\ Held' = Held \ {end} /\ Pos \subseteq Nat /\ Held \subseteq Pos
  BY CapAssumption DEF TypeOK, Held, Pos, DeleteNode
<1>2. Inverse
  BY DEF Idle, IndexExact, Inverse
<1>3. /\ slot' \in [Pos -> Entry]
      /\ slot'[end] = Vacant
      /\ i # end => slot'[i] = slot[end]
      /\ \A j \in Pos \ {i, end} : slot'[j] = slot[j]
  BY <1>1, KeysAssumption DEF TypeOK, DeleteNode, Swapped, Entry, Vacant
<1>4. slot[i].id \in DOMAIN index /\ slot[end].id \in DOMAIN index
  BY <1>1, <1>2 DEF Inverse
<1>5. /\ DOMAIN index' = DOMAIN index \ {slot[i].id}
      /\ i # end => index'[slot[end].id] = i
      /\ \A x \in DOMAIN index' : x # slot[end].id => index'[x] = index[x]
      /\ index' = [x \in DOMAIN index' |-> index'[x]]
  <2>1. CASE i < end
    <3>1. index' = Unindexed(Indexed(index, slot[end].id, i), slot[i].id)
      BY <2>1, <1>1 DEF DeleteNode
    <3>2. slot[end].id # slot[i].id
      BY <2>1, <1>1, <1>2 DEF Inverse
    <3> QED
      BY <3>1, <3>2, <1>4 DEF Unindexed, Indexed
  <2>2. CASE i = end
    <3>1. index' = Unindexed(index, slot[i].id)
      BY <2>2, <1>1 DEF DeleteNode
    <3> QED
      BY <3>1, <2>2 DEF Unindexed
  <2> QED
    BY <2>1, <2>2, <1>1
<1>0. size \in Nat /\ size = end + 1 /\ end < size /\ \A j \in Held : j \in Nat /\ j <= end
  BY <1>1, PosFacts DEF Held
<1> HIDE DEF end
<1>6. /\ op' \in Ops
      /\ \/ i < end /\ op'.pc = "up" /\ op'.idx = i
         \/ i = end /\ op'.pc = "idle"
  <2>1. 0 \in Pos
    BY CapAssumption DEF Pos
  <2>2. CASE i < end
    <3>1. Go("up", c, i)
      BY <2>2, <1>1 DEF DeleteNode, end
    <3> QED
      BY <3>1, <2>2, <1>1, GoFacts
  <2>3. CASE i = end
    <3>1. Go("idle", c, 0)
      BY <2>3, <1>1 DEF DeleteNode, end, Return
    <3> QED
      BY <3>1, <2>1, <2>3, <1>1, GoFacts
  <2> QED
    BY <2>2, <2>3, <1>1
<1>7. Inverse'
  <2>1. ASSUME NEW j \in Held'
        PROVE  slot'[j].id \in DOMAIN index' /\ index'[slot'[j].id] = j
    <3>1. j \in Held /\ j # end /\ j \in Pos
      BY <2>1, <1>1
    <3>2. CASE j = i
      BY <3>1, <3>2, <1>1, <1>2, <1>3, <1>4, <1>5 DEF Inverse
    <3>3. CASE j # i
      <4>1. slot'[j] = slot[j] /\ slot[j].id \in DOMAIN index /\ index[slot[j].id] = j
        BY <3>1, <3>3, <1>2, <1>3 DEF Inverse
      <4>2. slot[j].id # slot[i].id /\ slot[j].id # slot[end].id
        BY <3>1, <3>3, <4>1, <1>1, <1>2 DEF Inverse
      <4> QED
        BY <4>1, <4>2, <1>5
    <3> QED
      BY <3>2, <3>3
  <2>2. ASSUME NEW x \in DOMAIN index'
        PROVE  slot'[index'[x]].id = x
    <3>1. /\ x \in DOMAIN index /\ x # slot[i].id /\ index[x] \in Pos
          /\ slot[index[x]].id = x /\ index[x] # i
      BY <2>2, <1>1, <1>2, <1>5 DEF Inverse, TypeOK
    <3>2. CASE x = slot[end].id
      BY <3>1, <3>2, <1>3, <1>5
    <3>3. CASE x # slot[end].id
      BY <3>1, <3>3, <1>3, <1>5
    <3> QED
      BY <3>2, <3>3
  <2> QED
    BY <2>1, <2>2 DEF Inverse
<1>8. TypeOK'
  <2>1. \A j \in Pos : j \in Held' <=> slot'[j].id # NoId
    BY <1>1, <1>3 DEF TypeOK, Vacant
  <2>2. \A x \in DOMAIN index' : index'[x] \in Held'
    <3> SUFFICES ASSUME NEW x \in DOMAIN index' PROVE index'[x] \in Held'
      OBVIOUS
    <3>1. CASE x = slot[end].id
      <4>1. i # end
        BY <3>1, <1>5
      <4> QED
        BY <3>1, <4>1, <1>1, <1>5
    <3>2. CASE x # slot[end].id
      <4>1. index'[x] = index[x] /\ index[x] \in Held /\ slot[index[x]].id = x
        BY <3>2, <1>2, <1>5 DEF TypeOK, Inverse
      <4> QED
        BY <3>2, <4>1, <1>1
    <3> QED
      BY <3>1, <3>2
  <2>3. index' \in [DOMAIN index' -> Held'] /\ DOMAIN index' \subseteq Ids
    BY <2>2, <1>5 DEF TypeOK
  <2>4. size' \in 0 .. Cap
    BY <1>0, <1>1, CapAssumption DEF TypeOK
  <2> QED
    BY <1>3, <1>6, <2>1, <2>3, <2>4 DEF TypeOK
<1>9. IndexExact'
  BY <1>6, <1>7 DEF IndexExact, Inverse
<1>10. ASSUME NEW j \in Held' \ {0}, j # i, Fa(j) # i
       PROVE  Ord(j)'
  <2>1. j \in Held \ {0} /\ j # end
    BY <1>10, <1>1
  <2>2. Fa(j) \in Pos /\ Fa(j) # end /\ j \in Pos
    <3>1. j \in Nat /\ Fa(j) \in Nat /\ Fa(j) < j /\ Fa(j) \in Pos /\ j \in Pos
      BY <2>1, HeldFacts
    <3> QED
      BY <3>1, <2>1, <1>0, <1>1
  <2>3. slot'[j] = slot[j] /\ slot'[Fa(j)] = slot[Fa(j)]
    BY <2>1, <2>2, <1>10, <1>3
  <2> QED
    BY <2>1, <2>3 DEF Idle, Order, Ord
<1>11. ASSUME i # end, i > 0, NEW j \in Held' \ {0}, Fa(j) = i
       PROVE  slot'[Fa(i)].key <= slot'[j].key
  <2>1. j \in Held \ {0} /\ j # end /\ i \in Held \ {0}
    BY <1>11, <1>1
  <2>2. /\ Fa(i) \in Pos /\ Fa(i) # end /\ Fa(i) # i /\ j \in Pos /\ j # i
        /\ slot[j].key \in Int /\ slot[i].key \in Int /\ slot[Fa(i)].key \in Int
    <3>1. /\ j \in Nat /\ j \in Pos /\ slot[j].key \in Int
          /\ Fa(i) \in Nat /\ Fa(i) < i /\ Fa(i) \in Pos
          /\ slot[i].key \in Int /\ slot[Fa(i)].key \in Int /\ Fa(j) < j
      BY <2>1, HeldFacts
    <3> QED
      BY <3>1, <1>0, <1>1, <1>11
  <2>3. slot'[j] = slot[j] /\ slot'[Fa(i)] = slot[Fa(i)]
    BY <2>1, <2>2, <1>3
  <2>4. slot[Fa(i)].key <= slot[i].key /\ slot[i].key <= slot[j].key
    BY <2>1, <1>11 DEF Idle, Order, Ord
  <2> QED
    BY <2>2, <2>3, <2>4
<1>12. Order'
  <2>1. CASE op'.pc = "up"
    BY <2>1, <1>1, <1>6, <1>10, <1>11 DEF Order, UpOrder, Bridge
  <2>2. CASE op'.pc = "idle"
    <3>1. i = end
      BY <2>2, <1>6
    <3>2. \A j \in Held' \ {0} : j # i /\ Fa(j) # i
      <4> SUFFICES ASSUME NEW j \in Held' \ {0} PROVE j # i /\ Fa(j) # i
        OBVIOUS
      <4>1. j \in Held \ {0} /\ j # end
        BY <1>1
      <4>2. j \in Nat /\ Fa(j) \in Nat /\ Fa(j) < j
        BY <4>1, HeldFacts
      <4> QED
        BY <3>1, <4>1, <4>2, <1>0, <1>1
    <3> QED
      BY <2>2, <3>2, <1>10 DEF Order
  <2> QED
    BY <2>1, <2>2, <1>6
<1>13. Place'
  BY <1>1, <1>6 DEF Place
<1> QED
  BY <1>8, <1>9, <1>12, <1>13

LEMMA ClearKeeps == ASSUME IInv, Clear PROVE IInv'
<1>1. /\ Pos \subseteq Nat /\ 0 \in Pos /\ Held' = {} /\ size' \in 0 .. Cap
  BY CapAssumption DEF Clear, Pos, Held
<1>2. op' \in Ops /\ op'.pc = "idle"
  <2>1. [name |-> "clear"] \in Calls
    BY DEF Calls, Plain
  <2> QED
    BY <1>1, <2>1, GoFacts DEF Clear, Return
<1>3. slot' = [i \in Pos |-> Vacant] /\ index' = [id \in {} |-> 0]
  BY DEF Clear
<1>4. TypeOK'
  BY <1>1, <1>2, <1>3, KeysAssumption DEF TypeOK, Entry, Vacant
<1> QED
  BY <1>1, <1>2, <1>3, <1>4 DEF IInv, IndexExact, Order, Place

-----------------------------------------------------------------------------
(* The loops *)

LEMMA ShiftUpKeeps == ASSUME IInv, ShiftUp PROVE IInv'
<1> DEFINE idx == op.idx
           fa == Fa(op.idx)
<1> USE DEF IInv
<1>1. /\ op.pc = "up" /\ idx \in Held /\ idx \in Nat /\ idx \in Pos /\ op.call \in Calls
      /\ UpOrder(idx) /\ size' = size /\ Held' = Held /\ Inverse
  BY PosFacts DEF ShiftUp, Order, Place, TypeOK, Ops, IndexExact, Inverse, Held
<1>2. CASE /\ idx > 0 /\ slot[idx].key < slot[fa].key
           /\ SwapNode(idx, fa) /\ Go("up", op.call, fa)
  <2>1. /\ idx \in Held \ {0} /\ fa \in Held /\ fa \in Nat /\ fa < idx /\ fa \in Pos
        /\ slot[idx].key \in Int /\ slot[fa].key \in Int
    BY <1>1, <1>2, HeldFacts
  <2>2. op' \in Ops /\ op'.pc = "up" /\ op'.idx = fa
    BY <1>1, <1>2, <2>1, GoFacts
  <2> HIDE DEF idx, fa
  <2>3. /\ slot' \in [Pos -> Entry]
        /\ slot'[idx] = slot[fa] /\ slot'[fa] = slot[idx]
        /\ \A j \in Pos \ {idx, fa} : slot'[j] = slot[j]
        /\ \A j \in Pos : j \in Held' <=> slot'[j].id # NoId
        /\ index' \in [DOMAIN index' -> Held'] /\ DOMAIN index' = DOMAIN index
        /\ Inverse'
    BY <1>1, <1>2, <2>1, SwapKeeps
  <2>4. TypeOK' /\ IndexExact' /\ Place'
    BY <1>1, <2>1, <2>2, <2>3 DEF TypeOK, IndexExact, Inverse, Place
  <2>5. ASSUME NEW j \in Held \ {0}, j # fa, Fa(j) # fa
        PROVE  slot'[Fa(j)].key <= slot'[j].key
    <3>1. j \in Pos /\ Fa(j) \in Pos /\ j # idx
      BY <2>5, HeldFacts DEF fa, idx
    <3>2. slot'[j] = slot[j]
      BY <2>3, <2>5, <3>1
    <3>3. CASE Fa(j) = idx
      BY <1>1, <1>2, <2>3, <3>2, <3>3 DEF UpOrder, Bridge, fa, idx
    <3>4. CASE Fa(j) # idx
      <4>1. slot'[Fa(j)] = slot[Fa(j)]
        BY <2>3, <2>5, <3>1, <3>4
      <4> QED
        BY <1>1, <3>1, <3>2, <3>4, <4>1 DEF UpOrder, Ord
    <3> QED
      BY <3>3, <3>4
  <2>6. ASSUME fa > 0, NEW j \in Held \ {0}, Fa(j) = fa
        PROVE  slot'[Fa(fa)].key <= slot'[j].key
    <3>1. fa \in Held \ {0} /\ fa # idx
      BY <2>1, <2>6
    <3>2. /\ Fa(fa) \in Nat /\ Fa(fa) < fa /\ Fa(fa) \in Pos
          /\ slot[Fa(fa)].key \in Int /\ slot[fa].key \in Int
      BY <3>1, HeldFacts
    <3>3. Fa(fa) # idx /\ slot'[Fa(fa)] = slot[Fa(fa)]
      BY <2>1, <2>3, <3>2
    <3>4. slot[Fa(fa)].key <= slot[fa].key
      BY <1>1, <3>1, <3>3 DEF UpOrder, Ord
    <3>5. CASE j = idx
      BY <2>3, <3>3, <3>4, <3>5
    <3>6. CASE j # idx
      <4>1. j \in Pos /\ j # fa /\ slot[j].key \in Int
        BY <2>6, HeldFacts
      <4>2. slot'[j] = slot[j] /\ slot[fa].key <= slot[j].key
        BY <1>1, <2>3, <2>6, <3>1, <3>6, <4>1 DEF UpOrder, Ord
      <4> QED
        BY <3>2, <3>3, <3>4, <4>1, <4>2
    <3> QED
      BY <3>5, <3>6
  <2>7. Order'
    BY <1>1, <2>2, <2>5, <2>6 DEF Order, UpOrder, Bridge, Ord
  <2> QED
    BY <2>4, <2>7
<1>3. CASE /\ idx > 0 => slot[idx].key >= slot[fa].key
           /\ Go("down", op.call, idx) /\ UNCHANGED <<slot, index>>
  <2>1. op' \in Ops /\ op'.pc = "down" /\ op'.idx = idx
    BY <1>1, <1>3, GoFacts
  <2>2. \A j \in Held \ {0} : Fa(j) # idx => Ord(j)
    <3> SUFFICES ASSUME NEW j \in Held \ {0}, Fa(j) # idx PROVE Ord(j)
      OBVIOUS
    <3>1. CASE j = idx
      BY <1>3, <3>1, HeldFacts DEF Ord
    <3>2. CASE j # idx
      BY <1>1, <3>2 DEF UpOrder
    <3> QED
      BY <3>1, <3>2
  <2>3. DownOrder(op.idx)'
    BY <1>1, <1>3, <2>1, <2>2 DEF UpOrder, DownOrder, Ord, Bridge
  <2> QED
    BY <1>1, <1>3, <2>1, <2>3 DEF TypeOK, IndexExact, Inverse, Order, Place
<1> QED
  BY <1>2, <1>3 DEF ShiftUp

\* What shift_down compares: no child of idx is less than the one it chooses.
LEMMA SmallestFacts ==
    ASSUME TypeOK, NEW idx \in Held
    PROVE  /\ Smallest(idx) \in Held
           /\ Smallest(idx) # idx => /\ Smallest(idx) > idx
                                     /\ Fa(Smallest(idx)) = idx
                                     /\ slot[Smallest(idx)].key < slot[idx].key
           /\ \A j \in Held \ {0} :
                Fa(j) = idx => slot[Smallest(idx)].key <= slot[j].key
<1> DEFINE lc == Lc(idx)
           rc == Rc(idx)
           low == Lower(idx, lc)
           cur == Lower(low, rc)
<1>1. /\ idx \in Nat /\ idx < size /\ slot[idx].key \in Int
      /\ size \in Nat /\ \A i \in Held : slot[i].key \in Int
      /\ \A i \in Nat : i \in Held <=> i < size
  BY PosFacts
<1>2. /\ lc \in Nat /\ lc > idx /\ Fa(lc) = idx
      /\ rc \in Nat /\ rc > idx /\ Fa(rc) = idx
  BY <1>1, ChildFacts
<1>3. \A j \in Held \ {0} : Fa(j) = idx => j = lc \/ j = rc
  <2> SUFFICES ASSUME NEW j \in Held \ {0}, Fa(j) = idx PROVE j = lc \/ j = rc
    OBVIOUS
  <2>1. j \in Nat /\ j > 0
    BY HeldFacts
  <2> QED
    BY <2>1, FaFacts
<1>4. Smallest(idx) = cur
  BY DEF Smallest
<1> HIDE DEF lc, rc
<1>5. /\ low \in Held /\ low \in {idx, lc}
      /\ low = lc => slot[lc].key < slot[idx].key
      /\ lc \in Held => slot[low].key <= slot[lc].key
      /\ slot[low].key <= slot[idx].key
  BY <1>1, <1>2 DEF Lower
<1> HIDE DEF low
<1>6. /\ cur \in Held /\ cur \in {low, rc}
      /\ cur = rc => slot[rc].key < slot[low].key
      /\ rc \in Held => slot[cur].key <= slot[rc].key
      /\ slot[cur].key <= slot[low].key
  <2>1. low # rc
    BY <1>1, <1>5, <1>2 DEF lc, rc, Lc, Rc
  <2>2. slot[low].key \in Int /\ (rc \in Held <=> rc < size)
    BY <1>1, <1>2, <1>5
  <2>3. CASE rc < size /\ slot[rc].key < slot[low].key
    <3>1. cur = rc /\ rc \in Held /\ slot[rc].key \in Int
      BY <1>1, <2>2, <2>3 DEF Lower
    <3> QED
      BY <2>2, <2>3, <3>1
  <2>4. CASE ~(rc < size /\ slot[rc].key < slot[low].key)
    <3>1. cur = low
      BY <2>4 DEF Lower
    <3>2. rc \in Held => slot[rc].key \in Int
      BY <1>1
    <3> QED
      BY <1>5, <2>1, <2>2, <2>4, <3>1, <3>2
  <2> QED
    BY <2>3, <2>4
<1> HIDE DEF cur
<1>7. slot[cur].key \in Int /\ slot[low].key \in Int
  BY <1>1, <1>5, <1>6
<1>8. cur # idx => cur > idx /\ Fa(cur) = idx /\ slot[cur].key < slot[idx].key
  BY <1>1, <1>2, <1>5, <1>6, <1>7
<1>9. \A j \in Held \ {0} : Fa(j) = idx => slot[cur].key <= slot[j].key
  <2>1. ASSUME lc \in Held PROVE slot[cur].key <= slot[lc].key
    <3>1. slot[lc].key \in Int /\ slot[low].key <= slot[lc].key
      BY <2>1, <1>1, <1>5
    <3> QED
      BY <3>1, <1>6, <1>7
  <2> QED
    BY <2>1, <1>3, <1>6
<1> QED
  BY <1>4, <1>6, <1>8, <1>9

LEMMA ShiftDownKeeps == ASSUME IInv, ShiftDown PROVE IInv'
<1> DEFINE idx == op.idx
           cur == Smallest(op.idx)
<1> USE DEF IInv
<1>1. /\ op.pc = "down" /\ idx \in Held /\ idx \in Nat /\ idx \in Pos /\ op.call \in Calls
      /\ DownOrder(idx) /\ size' = size /\ Held' = Held /\ Inverse
  BY PosFacts DEF ShiftDown, Order, Place, TypeOK, Ops, IndexExact, Inverse, Held
<1>2. /\ cur \in Held /\ cur \in Nat /\ cur \in Pos
      /\ cur # idx => cur > idx /\ Fa(cur) = idx /\ slot[cur].key < slot[idx].key
      /\ \A j \in Held \ {0} : Fa(j) = idx => slot[cur].key <= slot[j].key
  BY <1>1, SmallestFacts, PosFacts
<1>3. CASE cur # idx /\ SwapNode(cur, idx) /\ Go("down", op.call, cur)
  <2>1. op' \in Ops /\ op'.pc = "down" /\ op'.idx = cur
    BY <1>1, <1>2, <1>3, GoFacts
  <2> HIDE DEF idx, cur
  <2>2. /\ slot' \in [Pos -> Entry]
        /\ slot'[cur] = slot[idx] /\ slot'[idx] = slot[cur]
        /\ \A j \in Pos \ {idx, cur} : slot'[j] = slot[j]
        /\ \A j \in Pos : j \in Held' <=> slot'[j].id # NoId
        /\ index' \in [DOMAIN index' -> Held'] /\ DOMAIN index' = DOMAIN index
        /\ Inverse'
    BY <1>1, <1>2, <1>3, SwapKeeps
  <2>3. TypeOK' /\ IndexExact' /\ Place'
    BY <1>1, <1>2, <2>1, <2>2 DEF TypeOK, IndexExact, Inverse, Place
  <2>4. slot[cur].key \in Int /\ slot[idx].key \in Int
    BY <1>1, <1>2, PosFacts
  <2>5. ASSUME NEW j \in Held \ {0}, Fa(j) # cur
        PROVE  slot'[Fa(j)].key <= slot'[j].key
    <3>1. j \in Pos /\ Fa(j) \in Pos /\ Fa(j) # j /\ Fa(j) \in Nat /\ j \in Nat /\ Fa(j) < j
      BY HeldFacts
    <3>2. CASE Fa(j) = idx
      <4>1. slot'[Fa(j)].key = slot[cur].key
        BY <2>2, <3>2
      <4>2. CASE j = cur
        BY <1>2, <1>3, <2>2, <2>4, <4>1, <4>2
      <4>3. CASE j # cur
        BY <1>2, <2>2, <3>1, <3>2, <4>1, <4>3
      <4> QED
        BY <4>2, <4>3
    <3>3. CASE Fa(j) # idx
      <4>1. slot'[Fa(j)] = slot[Fa(j)] /\ slot[Fa(j)].key <= slot[j].key
        BY <1>1, <2>2, <2>5, <3>1, <3>3 DEF DownOrder, Ord
      <4>2. CASE j = idx
        <5>1. idx > 0 /\ cur \in Held \ {0}
          BY <1>1, <1>2, <1>3, <4>2
        <5>2. slot[Fa(idx)].key <= slot[cur].key
          BY <1>1, <1>2, <1>3, <5>1 DEF DownOrder, Bridge
        <5> QED
          BY <2>2, <4>1, <4>2, <5>2
      <4>3. CASE j # idx
        <5>1. j # cur
          BY <1>2, <1>3, <3>3
        <5> QED
          BY <2>2, <3>1, <4>1, <4>3, <5>1
      <4> QED
        BY <4>2, <4>3
    <3> QED
      BY <3>2, <3>3
  <2>6. ASSUME cur > 0, NEW j \in Held \ {0}, Fa(j) = cur
        PROVE  slot'[Fa(cur)].key <= slot'[j].key
    <3>1. j \in Pos /\ j \in Nat /\ j > cur
      BY <2>6, HeldFacts
    <3>2. j # idx /\ j # cur
      BY <1>1, <1>2, <1>3, <3>1
    <3>3. slot'[j] = slot[j] /\ slot'[Fa(cur)] = slot[cur]
      BY <1>2, <1>3, <2>2, <3>1, <3>2
    <3> QED
      BY <1>1, <1>3, <2>6, <3>3 DEF DownOrder, Ord
  <2>7. Order'
    BY <1>1, <2>1, <2>5, <2>6 DEF Order, DownOrder, Bridge, Ord
  <2> QED
    BY <2>3, <2>7
<1>4. CASE cur = idx /\ Return(op.call) /\ UNCHANGED <<slot, index>>
  <2>1. 0 \in Pos
    BY CapAssumption DEF Pos
  <2>2. op' \in Ops /\ op'.pc = "idle"
    BY <1>1, <1>4, <2>1, GoFacts DEF Return
  <2>3. \A j \in Held \ {0} : Ord(j)
    BY <1>1, <1>2, <1>4 DEF DownOrder, Ord
  <2> QED
    BY <1>1, <1>4, <2>2, <2>3 DEF TypeOK, IndexExact, Inverse, Order, Place, Ord
<1> QED
  BY <1>3, <1>4 DEF ShiftDown

-----------------------------------------------------------------------------
(* The next-state relation *)

LEMMA PushKeeps ==
    ASSUME IInv, NEW id \in Ids, NEW key \in Keys, Push(id, key)
    PROVE  IInv'
<1> DEFINE c == [name |-> "push", id |-> id, key |-> key]
<1>1. c \in WithKey /\ c \in Calls /\ c.id = id /\ c.name = "push"
  BY DEF Calls, WithKey
<1> HIDE DEF c
<1>2. CASE Rekey(c, key)
  BY <1>1, <1>2, RekeyKeeps
<1>3. CASE /\ Idle /\ id \notin DOMAIN index /\ size < Cap
           /\ Go("append", c, size) /\ UNCHANGED <<slot, size, index>>
  <2>1. size \in Pos
    BY <1>3, CapAssumption DEF IInv, TypeOK, Pos
  <2>2. op' \in Ops /\ op'.pc = "append" /\ op'.call = c /\ op'.idx = size
    BY <1>1, <1>3, <2>1, GoFacts
  <2> QED
    BY <1>1, <1>3, <2>2
    DEF IInv, TypeOK, IndexExact, Order, Place, Ord, Held, Idle
<1> QED
  BY <1>2, <1>3 DEF Push, c

LEMMA AdjustKeeps ==
    ASSUME IInv, NEW id \in Ids, NEW key \in Keys, Adjust(id, key)
    PROVE  IInv'
<1> DEFINE c == [name |-> "adjust", id |-> id, key |-> key]
<1>1. c \in Calls
  BY DEF Calls, WithKey
<1> HIDE DEF c
<1>2. CASE Rekey(c, key)
  BY <1>1, <1>2, RekeyKeeps
<1>3. CASE Absent(c)
  BY <1>1, <1>3, ReturnKeeps DEF Absent
<1> QED
  BY <1>2, <1>3 DEF Adjust, c

LEMMA AddOneKeeps ==
    ASSUME IInv, NEW id \in Ids, AddOne(id)
    PROVE  IInv'
<1> DEFINE c == [name |-> "addOne", id |-> id]
<1>1. c \in Calls
  BY DEF Calls, WithId
<1> HIDE DEF c
<1>2. CASE \E key \in Keys : Rekey(c, key)
  BY <1>1, <1>2, RekeyKeeps
<1>3. CASE Absent(c)
  BY <1>1, <1>3, ReturnKeeps DEF Absent
<1> QED
  BY <1>2, <1>3 DEF AddOne, c

LEMMA DelKeeps ==
    ASSUME IInv, NEW id \in Ids, Del(id)
    PROVE  IInv'
<1> DEFINE c == [name |-> "del", id |-> id]
<1>1. c \in Calls
  BY DEF Calls, WithId
<1> HIDE DEF c
<1>2. CASE Absent(c)
  BY <1>1, <1>2, ReturnKeeps DEF Absent
<1>3. CASE Idle /\ id \in DOMAIN index /\ DeleteNode(c, index[id])
  <2>1. index[id] \in Held
    BY <1>3 DEF IInv, TypeOK
  <2> QED
    BY <1>1, <1>3, <2>1, DeleteKeeps
<1> QED
  BY <1>2, <1>3 DEF Del, c

LEMMA PopKeeps == ASSUME IInv, Pop PROVE IInv'
<1> DEFINE c == [name |-> "pop"]
<1>1. c \in Calls
  BY DEF Calls, Plain
<1> HIDE DEF c
<1>2. CASE Idle /\ Return(c) /\ UNCHANGED <<slot, size, index>>
  BY <1>1, <1>2, ReturnKeeps
<1>3. CASE Idle /\ size > 0 /\ DeleteNode(c, 0)
  <2>1. 0 \in Held
    BY <1>3, PosFacts DEF IInv
  <2> QED
    BY <1>1, <1>3, <2>1, DeleteKeeps
<1> QED
  BY <1>2, <1>3 DEF Pop, c

LEMMA NextKeeps == IInv /\ [Next]_vars => IInv'
<1> SUFFICES ASSUME IInv, [Next]_vars PROVE IInv'
  OBVIOUS
<1>1. ASSUME NEW id \in Ids, NEW key \in Keys, Push(id, key) \/ Adjust(id, key)
      PROVE  IInv'
  BY <1>1, PushKeeps, AdjustKeeps
<1>2. ASSUME NEW id \in Ids, AddOne(id) \/ Del(id)
      PROVE  IInv'
  BY <1>2, AddOneKeeps, DelKeeps
<1> QED
  BY <1>1, <1>2, PopKeeps, ClearKeeps, AppendKeeps, WriteIndexKeeps, ShiftUpKeeps,
     ShiftDownKeeps, StutterKeeps
  DEF Next

-----------------------------------------------------------------------------
(* Theorems *)

\* The inductive invariant holds in every reachable state.
THEOREM Invariance == Spec => []IInv
BY InitIInv, NextKeeps, PTL DEF Spec

\* Storage, map and operation keep their types; no position is read out of range.
THEOREM TypeCorrect == Spec => []TypeOK
<1>1. IInv => TypeOK
  BY DEF IInv
<1> QED
  BY <1>1, Invariance, PTL

\* m_map is the inverse of m_heap at every step of every operation.
THEOREM IndexCorrect == Spec => []IndexExact
<1>1. IInv => IndexExact
  BY DEF IInv
<1> QED
  BY <1>1, Invariance, PTL

\* shift_up and shift_down restore the order of the heap before any call returns.
THEOREM OrderCorrect == Spec => []HeapOrdered
<1>1. IInv => HeapOrdered
  BY DEF IInv, Order, HeapOrdered, Idle, Ord
<1> QED
  BY <1>1, Invariance, PTL

\* The entry tick looks at, m_heap.front(), is a least one: when it has not expired
\* (or has not reached the limit), nothing has.
TopLeast == Idle => \A i \in Held : slot[0].key <= slot[i].key

LEMMA TopIsLeast == IInv => TopLeast
<1>1. ASSUME IInv, Idle, NEW i \in Held, ~ (slot[0].key <= slot[i].key)
      PROVE  FALSE
  <2> DEFINE B == {k \in Held : ~ (slot[0].key <= slot[k].key)}
  <2>1. B # {} /\ B \subseteq Nat
    BY <1>1, PosFacts DEF IInv
  <2> HIDE DEF B
  <2>2. PICK k \in B : \A j \in B : ~ (j < k)
    BY <2>1, LeastNumber
  <2>3. k \in Held \ {0}
    <3>1. 0 \in Held => slot[0].key \in Int
      BY PosFacts, <1>1 DEF IInv
    <3> QED
      BY <2>2, <3>1 DEF B
  <2>4. /\ Fa(k) \in Held /\ Fa(k) < k
        /\ slot[k].key \in Int /\ slot[Fa(k)].key \in Int
    BY <1>1, <2>3, HeldFacts DEF IInv
  <2>5. slot[Fa(k)].key <= slot[k].key
    BY <1>1, <2>3 DEF IInv, Order, Idle, Ord
  <2>6. 0 \in Pos /\ slot[0].key \in Int
    BY <1>1, CapAssumption, PosFacts DEF IInv, Pos
  <2>7. Fa(k) \in B
    BY <2>2, <2>4, <2>5, <2>6 DEF B
  <2> QED
    BY <2>2, <2>4, <2>7
<1> QED
  BY <1>1 DEF TopLeast

\* tick() may stop at the top: whatever is due is not below an entry that is not.
THEOREM TopCorrect == Spec => []TopLeast
BY TopIsLeast, Invariance, PTL

-----------------------------------------------------------------------------
(* The heap is a priority map *)

\* The map from ids to keys that the first n entries of s are.
ContentOf(s, n) ==
    [id \in {s[i].id : i \in 0 .. n - 1} |->
       s[CHOOSE i \in 0 .. n - 1 : s[i].id = id].key]

LEMMA ContentBy ==
    ASSUME NEW s, NEW n, NEW f,
           \A i, j \in 0 .. n - 1 : s[i].id = s[j].id => i = j,
           f = [x \in DOMAIN f |-> f[x]], DOMAIN f = {s[i].id : i \in 0 .. n - 1},
           \A i \in 0 .. n - 1 : f[s[i].id] = s[i].key
    PROVE  ContentOf(s, n) = f
<1> DEFINE D == {s[i].id : i \in 0 .. n - 1}
           choice(x) == CHOOSE i \in 0 .. n - 1 : s[i].id = x
<1>1. \A x \in D : choice(x) \in 0 .. n - 1 /\ s[choice(x)].id = x
  OBVIOUS
<1> HIDE DEF choice
<1>2. \A x \in D : s[choice(x)].key = f[x]
  BY <1>1
<1>3. ContentOf(s, n) = [x \in D |-> s[choice(x)].key]
  BY DEF ContentOf, choice
<1> HIDE DEF D
<1>4. DOMAIN f = D
  BY DEF D
<1> QED
  BY <1>2, <1>3, <1>4

\* No id is in the heap twice.
Distinct == \A i, j \in Held : slot[i].id = slot[j].id => i = j

LEMMA IdsDistinct == IInv => Distinct
BY DEF IInv, IndexExact, Distinct

LEMMA IdsDistinctAfter == IInv' => Distinct'
BY IdsDistinct, PTL

LEMMA ContentFacts ==
    ASSUME IInv
    PROVE  /\ Content = [x \in DOMAIN Content |-> Content[x]]
           /\ DOMAIN Content = {slot[i].id : i \in Held}
           /\ \A i \in Held : Content[slot[i].id] = slot[i].key
           /\ op.pc # "index" => DOMAIN Content = DOMAIN index
<1>1. \A i \in Held : Content[slot[i].id] = slot[i].key
  <2> TAKE i \in Held
  <2> DEFINE k == CHOOSE j \in Held : slot[j].id = slot[i].id
  <2>1. k \in Held /\ slot[k].id = slot[i].id
    OBVIOUS
  <2>2. k = i
    BY <2>1, IdsDistinct DEF Distinct
  <2> QED
    BY <2>2 DEF Content
<1>2. ASSUME op.pc # "index" PROVE {slot[i].id : i \in Held} = DOMAIN index
  <2>1. \A i \in Held : slot[i].id \in DOMAIN index
    BY <1>2 DEF IInv, IndexExact
  <2>2. \A id \in DOMAIN index : index[id] \in Held /\ slot[index[id]].id = id
    BY DEF IInv, IndexExact, TypeOK
  <2> QED
    BY <2>1, <2>2
<1>3. DOMAIN Content = {slot[i].id : i \in Held} /\ Content = [x \in DOMAIN Content |-> Content[x]]
  BY DEF Content
<1> QED
  BY <1>1, <1>2, <1>3

\* The content after a step is the map that has the entries it leaves.
LEMMA ContentAfter ==
    ASSUME IInv', NEW f, f = [x \in DOMAIN f |-> f[x]],
           DOMAIN f = {slot'[i].id : i \in Held'},
           \A i \in Held' : f[slot'[i].id] = slot'[i].key
    PROVE  Content' = f
<1>1. Content' = ContentOf(slot', size')
  BY DEF Content, ContentOf, Held
<1>2. Held' = 0 .. size' - 1
  BY DEF Held
<1>3. \A i, j \in 0 .. size' - 1 : slot'[i].id = slot'[j].id => i = j
  BY <1>2, IdsDistinctAfter DEF Distinct
<1> QED
  BY <1>1, <1>2, <1>3, ContentBy

LEMMA ContentSame ==
    ASSUME UNCHANGED <<slot, size>>
    PROVE  Content' = Content
BY DEF Content, Held

LEMMA SwapContent ==
    ASSUME IInv, IInv', op.pc \in {"up", "down"}, NEW a \in Held, NEW b \in Held, a # b,
           SwapNode(a, b), size' = size
    PROVE  Content' = Content
<1>1. Inverse
  BY DEF IInv, IndexExact, Inverse
<1>2. /\ slot'[a] = slot[b] /\ slot'[b] = slot[a]
      /\ \A i \in Pos \ {a, b} : slot'[i] = slot[i]
  BY <1>1, SwapKeeps DEF IInv
<1>3. Held' = Held /\ Held \subseteq Pos
  BY PosFacts DEF Held, IInv
<1>4. \A i \in Held' : \E j \in Held : slot'[i] = slot[j]
  BY <1>2, <1>3
<1>5. \A j \in Held : \E i \in Held' : slot'[i] = slot[j]
  BY <1>2, <1>3
<1>6. DOMAIN Content = {slot'[i].id : i \in Held'}
  BY <1>4, <1>5, ContentFacts
<1>7. \A i \in Held' : Content[slot'[i].id] = slot'[i].key
  BY <1>4, ContentFacts
<1> QED
  BY <1>6, <1>7, ContentFacts, ContentAfter

LEMMA RekeyContent ==
    ASSUME IInv, IInv', NEW c \in Calls, NEW key \in Keys, Rekey(c, key)
    PROVE  /\ c.id \in DOMAIN Content /\ Content[c.id] = slot[index[c.id]].key
           /\ Content' = Map!With(c.id, key)
<1> DEFINE k == index[c.id]
<1>1. /\ Idle /\ c.id \in DOMAIN index /\ slot' = [slot EXCEPT ![k].key = key]
      /\ UNCHANGED <<size, index>>
  BY DEF Rekey
<1>2. k \in Held /\ k \in Pos /\ slot[k].id = c.id
  BY <1>1, PosFacts DEF IInv, TypeOK, IndexExact
<1>3. c.id \in DOMAIN Content /\ Content[c.id] = slot[k].key
  BY <1>1, <1>2, ContentFacts DEF Idle
<1> HIDE DEF k
<1>4. /\ slot'[k].key = key /\ slot'[k].id = c.id
      /\ \A i \in Pos \ {k} : slot'[i] = slot[i]
  <2>1. slot \in [Pos -> Entry]
    BY DEF IInv, TypeOK
  <2> QED
    BY <1>1, <1>2, <2>1 DEF Entry
<1>5. Held' = Held /\ Held \subseteq Pos
  BY <1>1, PosFacts DEF Held, IInv
<1>6. \A i \in Held : slot'[i].id = slot[i].id /\ (i # k => slot[i].id # c.id)
  BY <1>2, <1>4, <1>5, IdsDistinct DEF Distinct
<1> DEFINE f == Map!With(c.id, key)
<1>7. /\ DOMAIN f = DOMAIN Content /\ f = [x \in DOMAIN f |-> f[x]]
      /\ \A x \in DOMAIN Content : f[x] = IF x = c.id THEN key ELSE Content[x]
  BY <1>3 DEF Map!With
<1> HIDE DEF f
<1>8. DOMAIN f = {slot'[i].id : i \in Held'}
  BY <1>5, <1>6, <1>7, ContentFacts
<1>9. \A i \in Held' : f[slot'[i].id] = slot'[i].key
  <2> TAKE i \in Held'
  <2>1. i \in Held /\ slot'[i].id = slot[i].id /\ slot[i].id \in DOMAIN Content
        /\ Content[slot[i].id] = slot[i].key
    BY <1>5, <1>6, ContentFacts
  <2>2. CASE i = k
    BY <2>1, <2>2, <1>4, <1>7
  <2>3. CASE i # k
    BY <2>1, <2>3, <1>4, <1>5, <1>6, <1>7
  <2> QED
    BY <2>2, <2>3
<1>10. Content' = f
  BY <1>7, <1>8, <1>9, ContentAfter
<1> QED
  BY <1>3, <1>10 DEF f, k

LEMMA AppendContent ==
    ASSUME IInv, IInv', Append
    PROVE  Content' = Map!With(op.call.id, op.call.key)
<1> DEFINE c == op.call
           f == Map!With(c.id, c.key)
<1>1. /\ op.pc = "append" /\ size < Cap /\ size' = size + 1
      /\ slot' = [slot EXCEPT ![size] = [id |-> c.id, key |-> c.key]]
      /\ c.id \notin DOMAIN index
  BY DEF Append, IInv, Place
<1>2. size \in Pos /\ size \notin Held /\ Held' = Held \cup {size} /\ Held \subseteq Pos
  <2>1. size \in Nat /\ Held \subseteq Pos
    BY PosFacts DEF IInv
  <2> QED
    BY <1>1, <2>1, CapAssumption DEF Pos, Held
<1>3. slot'[size] = [id |-> c.id, key |-> c.key] /\ \A i \in Held : slot'[i] = slot[i]
  BY <1>1, <1>2 DEF IInv, TypeOK
<1>4. DOMAIN Content = DOMAIN index
  BY <1>1, ContentFacts
<1>5. /\ DOMAIN f = DOMAIN Content \cup {c.id} /\ f = [x \in DOMAIN f |-> f[x]]
      /\ \A x \in DOMAIN f : f[x] = IF x = c.id THEN c.key ELSE Content[x]
  BY DEF Map!With
<1> HIDE DEF c, f
<1>6. DOMAIN f = {slot'[i].id : i \in Held'}
  <2>1. \A x \in DOMAIN f : \E i \in Held' : x = slot'[i].id
    BY <1>2, <1>3, <1>5, ContentFacts
  <2>2. \A i \in Held' : slot'[i].id \in DOMAIN f
    BY <1>2, <1>3, <1>5, ContentFacts
  <2> QED
    BY <2>1, <2>2
<1>7. \A i \in Held' : f[slot'[i].id] = slot'[i].key
  <2> TAKE i \in Held'
  <2>1. CASE i = size
    BY <2>1, <1>3, <1>5
  <2>2. CASE i # size
    <3>1. i \in Held /\ slot'[i] = slot[i] /\ slot[i].id \in DOMAIN Content
      BY <2>2, <1>2, <1>3, ContentFacts
    <3> QED
      BY <3>1, <1>1, <1>4, <1>5, ContentFacts
  <2> QED
    BY <2>1, <2>2
<1>8. Content' = f
  BY <1>5, <1>6, <1>7, ContentAfter
<1> QED
  BY <1>8 DEF c, f

LEMMA DeleteContent ==
    ASSUME IInv, IInv', Idle, NEW c \in Calls, NEW i \in Held, DeleteNode(c, i)
    PROVE  Content' = Map!Without(slot[i].id)
<1> DEFINE end == size - 1
           f == Map!Without(slot[i].id)
<1>1. /\ i \in Pos /\ end \in Held /\ end \in Pos
      /\ Held' = Held \ {end} /\ Held \subseteq Pos
  BY CapAssumption DEF IInv, TypeOK, Held, Pos, DeleteNode
<1>2. /\ i # end => slot'[i] = slot[end]
      /\ \A j \in Pos \ {i, end} : slot'[j] = slot[j]
  BY <1>1 DEF IInv, TypeOK, DeleteNode, Swapped
<1> HIDE DEF end
<1>3. /\ DOMAIN f = DOMAIN Content \ {slot[i].id} /\ f = [x \in DOMAIN f |-> f[x]]
      /\ \A x \in DOMAIN f : f[x] = Content[x]
  BY DEF Map!Without
<1> HIDE DEF f
<1>4. \A j \in Held' : \E k \in Held \ {i} : slot'[j] = slot[k]
  BY <1>1, <1>2
<1>5. \A k \in Held \ {i} : \E j \in Held' : slot'[j] = slot[k]
  BY <1>1, <1>2
<1>6. \A k \in Held \ {i} : slot[k].id \in DOMAIN f /\ f[slot[k].id] = slot[k].key
  BY <1>3, ContentFacts, IdsDistinct DEF Distinct
<1>7. DOMAIN f = {slot'[j].id : j \in Held'}
  <2>1. \A x \in DOMAIN f : \E k \in Held \ {i} : x = slot[k].id
    BY <1>3, ContentFacts
  <2>2. \A x \in DOMAIN f : \E j \in Held' : x = slot'[j].id
    BY <2>1, <1>5
  <2>3. \A j \in Held' : slot'[j].id \in DOMAIN f
    BY <1>4, <1>6
  <2> QED
    BY <2>2, <2>3
<1>8. \A j \in Held' : f[slot'[j].id] = slot'[j].key
  BY <1>4, <1>6
<1>9. Content' = f
  BY <1>3, <1>7, <1>8, ContentAfter
<1> QED
  BY <1>9 DEF f

LEMMA MapStep ==
    ASSUME IInv, IInv', [Next]_vars
    PROVE  [Map!Next]_Map!vars
<1>1. ASSUME UNCHANGED <<slot, size>>, op'.call = op.call, op'.pc = "append" <=> op.pc = "append"
      PROVE  [Map!Next]_Map!vars
  BY <1>1, ContentSame DEF Map!vars
<1>2. ASSUME NEW c \in Calls, NEW key \in Keys, Rekey(c, key),
             Map!With(c.id, key) \in Map!Effects(c)
      PROVE  [Map!Next]_Map!vars
  <2>1. op.pc = "idle" /\ op'.pc = "up" /\ op'.call = c
    BY <1>2 DEF Rekey, Idle, Go
  <2>2. Map!Apply(c)
    BY <1>2, <2>1, RekeyContent DEF Map!Apply
  <2> QED
    BY <2>2 DEF Map!Next
<1>3. ASSUME NEW c \in Calls, Idle, Return(c), UNCHANGED <<slot, size>>,
             Content \in Map!Effects(c)
      PROVE  [Map!Next]_Map!vars
  <2>1. op.pc = "idle" /\ op'.pc = "idle" /\ op'.call = c
    BY <1>3 DEF Return, Idle, Go
  <2>2. Map!Apply(c)
    BY <1>3, <2>1, ContentSame DEF Map!Apply
  <2> QED
    BY <2>2 DEF Map!Next
<1>4. ASSUME NEW c \in Calls, Idle, NEW i \in Held, DeleteNode(c, i),
             Map!Without(slot[i].id) \in Map!Effects(c)
      PROVE  [Map!Next]_Map!vars
  <2>1. op.pc = "idle" /\ op'.pc \in {"idle", "up"} /\ op'.call = c
    BY <1>4 DEF DeleteNode, Return, Idle, Go
  <2>2. Map!Apply(c)
    BY <1>4, <2>1, DeleteContent DEF Map!Apply
  <2> QED
    BY <2>2 DEF Map!Next
<1>5. Idle => DOMAIN Content = DOMAIN index
  BY ContentFacts DEF Idle
<1>6. ASSUME NEW id \in Ids, NEW key \in Keys, Push(id, key) PROVE [Map!Next]_Map!vars
  <2> DEFINE c == [name |-> "push", id |-> id, key |-> key]
  <2>1. c \in Calls /\ c.name = "push" /\ c.id = id /\ c.key = key
    BY DEF Calls, WithKey
  <2>2. Map!Effects(c) = {Map!With(id, key)}
    BY <2>1 DEF Map!Effects
  <2> HIDE DEF c
  <2>3. CASE Rekey(c, key)
    BY <2>1, <2>2, <2>3, <1>2
  <2>4. CASE Idle /\ Go("append", c, size) /\ UNCHANGED <<slot, size, index>>
    <3>1. op.pc = "idle" /\ op'.pc = "append" /\ op'.call = c
      BY <2>4 DEF Idle, Go
    <3>2. Map!Begin(c)
      BY <2>4, <3>1, ContentSame DEF Map!Begin
    <3> QED
      BY <2>1, <3>2 DEF Map!Next
  <2> QED
    BY <1>6, <2>3, <2>4 DEF Push, c
<1>7. ASSUME NEW id \in Ids, NEW key \in Keys, Adjust(id, key) PROVE [Map!Next]_Map!vars
  <2> DEFINE c == [name |-> "adjust", id |-> id, key |-> key]
  <2>1. c \in Calls /\ c.name = "adjust" /\ c.id = id /\ c.key = key
    BY DEF Calls, WithKey
  <2>2. Map!Effects(c) = {IF id \in DOMAIN Content THEN Map!With(id, key) ELSE Content}
    BY <2>1 DEF Map!Effects
  <2> HIDE DEF c
  <2>3. CASE Rekey(c, key)
    <3>1. id \in DOMAIN Content
      BY <2>1, <2>3, RekeyContent
    <3> QED
      BY <2>1, <2>2, <2>3, <3>1, <1>2
  <2>4. CASE Absent(c)
    BY <2>1, <2>2, <2>4, <1>3, <1>5 DEF Absent
  <2> QED
    BY <1>7, <2>3, <2>4 DEF Adjust, c
<1>8. ASSUME NEW id \in Ids, AddOne(id) PROVE [Map!Next]_Map!vars
  <2> DEFINE c == [name |-> "addOne", id |-> id]
             key == slot[index[id]].key - 1
  <2>1. c \in Calls /\ c.name = "addOne" /\ c.id = id
    BY DEF Calls, WithId
  <2>2. Map!Effects(c) = {IF id \in DOMAIN Content THEN Map!With(id, Content[id] - 1) ELSE Content}
    BY <2>1 DEF Map!Effects
  <2> HIDE DEF c
  <2>3. CASE key \in Keys /\ Rekey(c, key)
    <3>1. id \in DOMAIN Content /\ Content[id] - 1 = key
      BY <2>1, <2>3, RekeyContent
    <3> QED
      BY <2>1, <2>2, <2>3, <3>1, <1>2
  <2>4. CASE Absent(c)
    BY <2>1, <2>2, <2>4, <1>3, <1>5 DEF Absent
  <2> QED
    BY <1>8, <2>3, <2>4 DEF AddOne, c
<1>9. ASSUME NEW id \in Ids, Del(id) PROVE [Map!Next]_Map!vars
  <2> DEFINE c == [name |-> "del", id |-> id]
  <2>1. c \in Calls /\ c.name = "del" /\ c.id = id
    BY DEF Calls, WithId
  <2>2. Map!Effects(c) = {Map!Without(id)}
    BY <2>1 DEF Map!Effects
  <2> HIDE DEF c
  <2>3. CASE Absent(c)
    <3>1. Idle /\ id \notin DOMAIN Content
      BY <2>1, <2>3, <1>5 DEF Absent
    <3>2. DOMAIN Content \ {id} = DOMAIN Content
      BY <3>1
    <3>3. Map!Without(id) = Content
      BY <3>2, ContentFacts DEF Map!Without
    <3> QED
      BY <2>1, <2>2, <2>3, <3>3, <1>3 DEF Absent
  <2>4. CASE Idle /\ id \in DOMAIN index /\ DeleteNode(c, index[id])
    <3>1. index[id] \in Held /\ slot[index[id]].id = id
      BY <2>4 DEF IInv, TypeOK, IndexExact
    <3> QED
      BY <2>1, <2>2, <2>4, <3>1, <1>4
  <2> QED
    BY <1>9, <2>3, <2>4 DEF Del, c
<1>10. ASSUME Pop PROVE [Map!Next]_Map!vars
  <2> DEFINE c == [name |-> "pop"]
  <2>1. c \in Calls /\ c.name = "pop"
    BY DEF Calls, Plain
  <2>2. Map!Effects(c) = IF DOMAIN Content = {} THEN {Content}
                         ELSE {Map!Without(id) : id \in Map!Least}
    BY <2>1 DEF Map!Effects
  <2> HIDE DEF c
  <2>3. CASE Idle /\ size = 0 /\ Return(c) /\ UNCHANGED <<slot, size, index>>
    <3>1. Held = {}
      BY <2>3 DEF Held
    <3>2. DOMAIN Content = {}
      BY <3>1, ContentFacts
    <3> QED
      BY <2>1, <2>2, <2>3, <3>2, <1>3
  <2>4. CASE Idle /\ size > 0 /\ DeleteNode(c, 0)
    <3>1. 0 \in Held
      BY <2>4, PosFacts DEF IInv
    <3>2. \A i \in Held : slot[0].key <= slot[i].key
      BY <2>4, TopIsLeast DEF TopLeast
    <3>3. slot[0].id \in Map!Least
      BY <3>1, <3>2, ContentFacts DEF Map!Least
    <3>4. Map!Without(slot[0].id) \in Map!Effects(c)
      BY <2>2, <3>1, <3>3, ContentFacts
    <3> QED
      BY <2>1, <2>4, <3>1, <3>4, <1>4
  <2> QED
    BY <1>10, <2>3, <2>4 DEF Pop, c
<1>11. ASSUME Clear PROVE [Map!Next]_Map!vars
  <2> DEFINE c == [name |-> "clear"]
  <2>1. c \in Calls /\ c.name = "clear"
    BY DEF Calls, Plain
  <2>2. op.pc = "idle" /\ op'.pc = "idle" /\ op'.call = c
    BY <1>11 DEF Clear, Return, Go, Idle
  <2>3. Held' = {}
    BY <1>11 DEF Clear, Held
  <2>4. Content' = [x \in {} |-> 0]
    BY <2>3 DEF Content
  <2>5. Map!Effects(c) = {[x \in {} |-> 0]}
    BY <2>1 DEF Map!Effects
  <2> HIDE DEF c
  <2>6. Map!Apply(c)
    BY <2>2, <2>4, <2>5 DEF Map!Apply
  <2> QED
    BY <2>1, <2>6 DEF Map!Next
<1>12. ASSUME Append PROVE [Map!Next]_Map!vars
  <2>1. /\ op.pc = "append" /\ op'.pc = "index" /\ op'.call = op.call
        /\ op.call.name = "push"
    BY <1>12 DEF Append, Go, IInv, Place
  <2>2. Map!Effects(op.call) = {Map!With(op.call.id, op.call.key)}
    BY <2>1 DEF Map!Effects
  <2>3. Content' \in Map!Effects(op.call)
    BY <1>12, <2>2, AppendContent
  <2>4. Map!Complete
    BY <2>1, <2>3 DEF Map!Complete
  <2> QED
    BY <2>4 DEF Map!Next
<1>13. ASSUME WriteIndex PROVE [Map!Next]_Map!vars
  <2>1. op.pc = "index" /\ op'.pc = "up" /\ op'.call = op.call
    BY <1>13 DEF WriteIndex, Go
  <2> QED
    BY <1>1, <1>13, <2>1 DEF WriteIndex
<1>14. ASSUME Content' = Content, op'.call = op.call,
              op.pc # "append", op'.pc # "append"
       PROVE  [Map!Next]_Map!vars
  BY <1>14 DEF Map!vars
<1>15. ASSUME ShiftUp PROVE [Map!Next]_Map!vars
  <2> DEFINE idx == op.idx
             fa == Fa(op.idx)
  <2>1. /\ op.pc = "up" /\ idx \in Held /\ size' = size
        /\ op'.call = op.call /\ op'.pc \in {"up", "down"}
    BY <1>15 DEF ShiftUp, Go, IInv, Place
  <2>2. CASE idx > 0 /\ SwapNode(idx, fa)
    <3>1. idx \in Held \ {0}
      BY <2>1, <2>2, PosFacts DEF IInv
    <3>2. fa \in Held /\ fa # idx
      BY <3>1, HeldFacts DEF IInv
    <3> HIDE DEF idx, fa
    <3>3. Content' = Content
      BY <2>1, <2>2, <3>2, SwapContent
    <3> QED
      BY <2>1, <3>3, <1>14
  <2>3. CASE UNCHANGED slot
    BY <2>1, <2>3, ContentSame, <1>14
  <2> QED
    BY <1>15, <2>2, <2>3 DEF ShiftUp
<1>16. ASSUME ShiftDown PROVE [Map!Next]_Map!vars
  <2> DEFINE idx == op.idx
             cur == Smallest(op.idx)
  <2>1. /\ op.pc = "down" /\ idx \in Held /\ size' = size
        /\ op'.call = op.call /\ op'.pc \in {"idle", "down"}
    BY <1>16 DEF ShiftDown, Go, Return, IInv, Place
  <2>2. CASE cur # idx /\ SwapNode(cur, idx)
    <3>1. cur \in Held
      BY <2>1, SmallestFacts DEF IInv
    <3> HIDE DEF idx, cur
    <3>2. Content' = Content
      BY <2>1, <2>2, <3>1, SwapContent
    <3> QED
      BY <2>1, <3>2, <1>14
  <2>3. CASE UNCHANGED slot
    BY <2>1, <2>3, ContentSame, <1>14
  <2> QED
    BY <1>16, <2>2, <2>3 DEF ShiftDown
<1>17. CASE UNCHANGED vars
  BY <1>1, <1>17 DEF vars
<1> QED
  BY <1>6, <1>7, <1>8, <1>9, <1>10, <1>11, <1>12, <1>13, <1>15, <1>16, <1>17 DEF Next

LEMMA MapInit == Init => Map!Init
<1> SUFFICES ASSUME Init PROVE Map!Init
  OBVIOUS
<1>1. Held = {}
  BY DEF Init, Held
<1>2. Content = [x \in {} |-> 0]
  BY <1>1 DEF Content
<1> QED
  BY <1>2 DEF Init, Map!Init

\* The heap and its index are a map whose pop removes a least entry: every operation
\* takes effect in one step, and the loops that restore the order change nothing
\* that a caller can see.
THEOREM MapImplemented == Spec => ImplementsMap
<1>1. IInv /\ IInv' /\ [Next]_vars => [Map!Next]_Map!vars
  BY MapStep
<1> QED
  BY <1>1, MapInit, Invariance, PTL DEF Spec, ImplementsMap, Map!Spec
=============================================================================
