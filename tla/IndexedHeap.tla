---------------------------- MODULE IndexedHeap ----------------------------
(***************************************************************************)
(* The binary heap with an index by id that HeapTimer.cpp and              *)
(* HeapHeartbeatCounter.cpp both implement: m_heap, a vector kept in heap  *)
(* order, and m_map, which finds an id's position in it.  The two classes  *)
(* differ in operator< alone: the timer's key is the expiry, the counter's *)
(* key is minus the heartbeat count, so that less comes first in both.     *)
(*                                                                         *)
(* One operation runs at a time here, in the steps of the code: the reads  *)
(* that choose a position, the statements that change the vector and the   *)
(* map, and each iteration of shift_up and shift_down.                     *)
(***************************************************************************)
EXTENDS Integers

CONSTANTS
    Ids,         \* node ids
    Keys,        \* keys, a bound on counts and times
    Cap          \* the most entries the heap holds: a bound, the vector grows

ASSUME KeysAssumption == Keys \subseteq Int /\ 0 \in Keys
ASSUME CapAssumption == Cap \in Nat \ {0}

NoId == "no id"
ASSUME IdsAssumption == NoId \notin Ids

VARIABLES
    slot,        \* the vector's storage: position -> [id, key]
    size,        \* m_heap.size()
    index,       \* m_map: id -> position
    op           \* the operation in progress: where it is, its call, its idx

vars == <<slot, size, index, op>>

Pos == 0 .. Cap - 1
Vacant == [id |-> NoId, key |-> 0]

WithKey == [name : {"push", "adjust"}, id : Ids, key : Keys]
WithId == [name : {"addOne", "del"}, id : Ids]
Plain == [name : {"pop", "clear", "none"}]
Calls == WithKey \cup WithId \cup Plain
Ops == [pc : {"idle", "append", "index", "up", "down"}, call : Calls, idx : Pos]

Init ==
    /\ slot = [i \in Pos |-> Vacant]
    /\ size = 0
    /\ index = [id \in {} |-> 0]
    /\ op = [pc |-> "idle", call |-> [name |-> "none"], idx |-> 0]

Fa(i) == (i - 1) \div 2
Lc(i) == i * 2 + 1
Rc(i) == i * 2 + 2

\* index with id at position i
Indexed(map, id, i) == [x \in DOMAIN map \cup {id} |-> IF x = id THEN i ELSE map[x]]

\* A fault: the deleted id stays in the map.
Reindexed(map, id) == map

Unindexed(map, id) == [x \in DOMAIN map \ {id} |-> map[x]]

Swapped(s, a, b) == [s EXCEPT ![a] = s[b], ![b] = s[a]]

\* A fault: only one of the two entries is told its new position.
SwapNodeHalf(a, b) ==
    /\ slot' = Swapped(slot, a, b)
    /\ index' = Indexed(index, slot[b].id, a)

\* swap_node
SwapNode(a, b) ==
    /\ slot' = Swapped(slot, a, b)
    /\ index' = Indexed(Indexed(index, slot[b].id, a), slot[a].id, b)

\* The call c goes on at pc with position i.
Go(pc, c, i) == op' = [pc |-> pc, call |-> c, idx |-> i]
Return(c) == Go("idle", c, 0)

-----------------------------------------------------------------------------
(* Operations: each starts when none is in progress *)

Idle == op.pc = "idle"

\* An absent id: adjust, addOne and del return at once.
Absent(c) ==
    /\ Idle /\ c.id \notin DOMAIN index
    /\ Return(c)
    /\ UNCHANGED <<slot, size, index>>

\* The entry of an id gets a new key, and shift_up starts from it.
Rekey(c, key) ==
    /\ Idle /\ c.id \in DOMAIN index
    /\ slot' = [slot EXCEPT ![index[c.id]].key = key]
    /\ Go("up", c, index[c.id])
    /\ UNCHANGED <<size, index>>

\* push of an id that is there updates it; of a new id, the position it will have
\* is read before the entry is appended and before the map is told.
Push(id, key) ==
    LET c == [name |-> "push", id |-> id, key |-> key]
    IN  \/ Rekey(c, key)
        \/ /\ Idle /\ id \notin DOMAIN index
           /\ size < Cap
           /\ Go("append", c, size)
           /\ UNCHANGED <<slot, size, index>>

Append ==
    /\ op.pc = "append" /\ size < Cap
    /\ slot' = [slot EXCEPT ![size] = [id |-> op.call.id, key |-> op.call.key]]
    /\ size' = size + 1
    /\ Go("index", op.call, op.idx)
    /\ UNCHANGED index

WriteIndex ==
    /\ op.pc = "index"
    /\ index' = Indexed(index, op.call.id, op.idx)
    /\ Go("up", op.call, op.idx)
    /\ UNCHANGED <<slot, size>>

Adjust(id, key) ==
    LET c == [name |-> "adjust", id |-> id, key |-> key]
    IN  Absent(c) \/ Rekey(c, key)

\* One more heartbeat missed: the counter's key goes down by one.
AddOne(id) ==
    LET c == [name |-> "addOne", id |-> id]
    IN  \/ Absent(c)
        \/ /\ id \in DOMAIN index /\ slot[index[id]].key - 1 \in Keys
           /\ Rekey(c, slot[index[id]].key - 1)

\* A fault the source remembers in a comment: the entry moved is left where it is.
DeleteNodeUnsifted(c, i) ==
    LET end == size - 1
    IN  /\ size' = size - 1
        /\ slot' = [Swapped(slot, i, end) EXCEPT ![end] = Vacant]
        /\ index' = Unindexed(IF i < end THEN Indexed(index, slot[end].id, i) ELSE index,
                              slot[i].id)
        /\ Return(c)

\* delete_node: the last entry takes the place of the one deleted.
DeleteNode(c, i) ==
    LET end == size - 1
    IN  /\ size' = size - 1
        /\ slot' = [Swapped(slot, i, end) EXCEPT ![end] = Vacant]
        /\ \/ /\ i < end
              /\ index' = Unindexed(Indexed(index, slot[end].id, i), slot[i].id)
              /\ Go("up", c, i)
           \/ /\ i >= end
              /\ index' = Unindexed(index, slot[i].id)
              /\ Return(c)

Del(id) ==
    LET c == [name |-> "del", id |-> id]
    IN  \/ Absent(c)
        \/ Idle /\ id \in DOMAIN index /\ DeleteNode(c, index[id])

Pop ==
    LET c == [name |-> "pop"]
    IN  \/ Idle /\ size = 0 /\ Return(c) /\ UNCHANGED <<slot, size, index>>
        \/ Idle /\ size > 0 /\ DeleteNode(c, 0)

Clear ==
    /\ Idle
    /\ slot' = [i \in Pos |-> Vacant]
    /\ size' = 0
    /\ index' = [id \in {} |-> 0]
    /\ Return([name |-> "clear"])

-----------------------------------------------------------------------------
(* The loops *)

\* An iteration of shift_up; where it stops, shift_down starts.
ShiftUp ==
    LET idx == op.idx
        fa == Fa(idx)
    IN  /\ op.pc = "up"
        /\ UNCHANGED size
        /\ \/ /\ idx > 0 /\ slot[idx].key < slot[fa].key
              /\ SwapNode(idx, fa)
              /\ Go("up", op.call, fa)
           \/ /\ idx > 0 => slot[idx].key >= slot[fa].key
              /\ Go("down", op.call, idx)
              /\ UNCHANGED <<slot, index>>

\* The child shift_down swaps with, or idx itself: first the left child if it is
\* less than idx, then the right child if it is less than that.
Lower(i, j) == IF j < size /\ slot[j].key < slot[i].key THEN j ELSE i

\* A fault: the right child is not looked at.
SmallestLeft(idx) == Lower(idx, Lc(idx))

Smallest(idx) == Lower(Lower(idx, Lc(idx)), Rc(idx))

\* An iteration of shift_down.
ShiftDown ==
    LET idx == op.idx
        cur == Smallest(idx)
    IN  /\ op.pc = "down"
        /\ UNCHANGED size
        /\ \/ /\ cur # idx
              /\ SwapNode(cur, idx)
              /\ Go("down", op.call, cur)
           \/ /\ cur = idx
              /\ Return(op.call)
              /\ UNCHANGED <<slot, index>>

Next ==
    \/ \E id \in Ids, key \in Keys : Push(id, key) \/ Adjust(id, key)
    \/ \E id \in Ids : AddOne(id) \/ Del(id)
    \/ Pop \/ Clear
    \/ Append \/ WriteIndex \/ ShiftUp \/ ShiftDown

Spec == Init /\ [][Next]_vars

-----------------------------------------------------------------------------
(* Properties *)

Held == 0 .. size - 1
Entry == [id : Ids \cup {NoId}, key : Keys]

\* The storage, the map and the operation have their types, and what is in the
\* heap carries an id.
TypeOK ==
    /\ size \in 0 .. Cap
    /\ slot \in [Pos -> Entry]
    /\ \A i \in Pos : i \in Held <=> slot[i].id # NoId
    /\ index \in [DOMAIN index -> Held] /\ DOMAIN index \subseteq Ids
    /\ op \in Ops

\* m_map is the inverse of m_heap at every step of every operation, save for the
\* entry that push has appended and not yet indexed: no id occurs twice, none is
\* lost, and none leads to another's position.
IndexExact ==
    LET unindexed == IF op.pc = "index" THEN {size - 1} ELSE {}
    IN  /\ \A i \in Held \ unindexed :
             slot[i].id \in DOMAIN index /\ index[slot[i].id] = i
        /\ \A id \in DOMAIN index : slot[index[id]].id = id
        /\ op.pc = "index" => op.idx = size - 1 /\ slot[op.idx].id = op.call.id
                              /\ op.call.id \notin DOMAIN index

\* When an operation returns, no entry is less than its parent, whichever entry
\* was rekeyed, appended or moved into the place of a deleted one.
HeapOrdered ==
    Idle => \A i \in Held \ {0} : slot[Fa(i)].key <= slot[i].key

\* The heap is the priority map it promises.
Content ==
    [id \in {slot[i].id : i \in Held} |->
       slot[CHOOSE i \in Held : slot[i].id = id].key]
Map == INSTANCE PriorityMap WITH
         prio <- Content, call <- op.call, pending <- (op.pc = "append")
ImplementsMap == Map!Spec
=============================================================================
