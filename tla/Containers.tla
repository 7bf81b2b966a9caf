----------------------------- MODULE Containers -----------------------------
(***************************************************************************)
(* The containers of array.c: the linked list with its cursor and its      *)
(* trash of removed nodes; the vector and the array of name and value      *)
(* pairs, whose index grows from the front of a pack allocator's memory    *)
(* while what it points to is cut from the rear; and the flat image of a   *)
(* vector, which the caches store.  Pointers are nodes and positions, and  *)
(* the sequence that each container stands for is kept beside it.          *)
(***************************************************************************)
EXTENDS Naturals, Sequences, FiniteSets, SequencesExt

CONSTANTS
  ListItems,      \* what lists and vectors hold: numbers, for the sort
  MaxNodes,       \* nodes the list's allocator can give, and items of a list
  VecSize,        \* the units of memory of a vector or an array
  ALIGN,          \* units of a pointer, to which the allocators align
  ItemSizes,      \* sizes of its items
  NULL, Garbage

ASSUME ContainersAssumption ==
  /\ ListItems \subseteq Nat /\ MaxNodes \in Nat /\ VecSize \in Nat /\ ALIGN \in Nat \ {0}
  /\ ItemSizes \subseteq Nat \ {0} /\ NULL \notin Nat /\ Garbage \notin Nat

VARIABLES
  list,           \* [items, last, trash, cursor, used] of a ci_list_t
  nextOf, item,     \* of each node
  listSeq,        \* ghost: the items the list should hold
  tailRemoved,    \* ghost: ci_list_remove has taken the last item out
  misled,         \* ghost: a call has used a `last` that was left by that
  vec,            \* [align, slots, last, count, curpos, endpos] of a ci_vector_t
  vecSeq,         \* ghost: the items added and not popped
  vecGap,         \* ghost: one was added behind a slot that a failed addition took
  arr,            \* [ptrs, slots, items, count, curpos, endpos] of a ci_array_t
  arrSeq, arrGap  \* ghosts, as of the vector

listVars == <<list, nextOf, item, listSeq, tailRemoved, misled>>
vecVars == <<vec, vecSeq, vecGap>>
arrVars == <<arr, arrSeq, arrGap>>

Nodes == 1..MaxNodes

ContainersInit ==
  /\ list = [items |-> NULL, last |-> NULL, trash |-> NULL, cursor |-> NULL, used |-> 0]
  /\ nextOf = [n \in Nodes |-> NULL] /\ item = [n \in Nodes |-> 0]
  /\ listSeq = <<>> /\ tailRemoved = FALSE /\ misled = FALSE
  /\ vec = [align |-> TRUE, slots |-> [i \in 0..VecSize |-> IF i = 0 THEN NULL ELSE Garbage],
            last |-> 0, count |-> 0, curpos |-> ALIGN, endpos |-> (VecSize \div ALIGN) * ALIGN]
  /\ vecSeq = <<>> /\ vecGap = FALSE
  /\ \E ptrs \in BOOLEAN :
       arr = [ptrs |-> ptrs, slots |-> [i \in 0..VecSize |-> Garbage], items |-> NULL,
              count |-> 0, curpos |-> 0, endpos |-> (VecSize \div ALIGN) * ALIGN]
  /\ arrSeq = <<>> /\ arrGap = FALSE

(***************************************************************************)
(* Lists                                                                   *)
(***************************************************************************)
(* The node k steps from n, and all nodes from n on.                       *)
After(n) == LET f[k \in 0..MaxNodes] == IF k = 0 THEN n ELSE IF f[k - 1] = NULL THEN NULL ELSE nextOf[f[k - 1]]
            IN  f
Chain(n) == LET f == After(n)
            IN  SelectSeq([k \in 1..MaxNodes |-> f[k - 1]], LAMBDA x : x # NULL)
ListContents == LET c == Chain(list.items) IN [i \in DOMAIN c |-> item[c[i]]]

(* `last` is not the last node, or the list is empty and has one.          *)
LastAstray == list.last # IF list.items = NULL THEN NULL ELSE Last(Chain(list.items))

(* list_alloc_item takes a node from the trash or a new one.               *)
Taken ==
  IF list.trash # NULL THEN {<<list.trash, [list EXCEPT !.trash = nextOf[list.trash]]>>}
  ELSE IF list.used < MaxNodes THEN {<<list.used + 1, [list EXCEPT !.used = @ + 1]>>}
  ELSE {}

ci_list_push(x) ==
  \E t \in Taken : LET n == t[1]  l == t[2] IN
    /\ item' = [item EXCEPT ![n] = x]
    /\ nextOf' = [nextOf EXCEPT ![n] = l.items]
    /\ list' = IF l.items # NULL THEN [l EXCEPT !.items = n] ELSE [l EXCEPT !.items = n, !.last = n]
    /\ listSeq' = <<x>> \o listSeq
    /\ UNCHANGED <<tailRemoved, misled>>

ci_list_push_back(x) ==
  \E t \in Taken : LET n == t[1]  l == t[2] IN
    /\ item' = [item EXCEPT ![n] = x]
    /\ IF l.last # NULL
       THEN /\ nextOf' = [nextOf EXCEPT ![n] = NULL, ![l.last] = n]
            /\ list' = [l EXCEPT !.last = n]
       ELSE /\ nextOf' = [nextOf EXCEPT ![n] = NULL]
            /\ list' = [l EXCEPT !.items = n, !.last = n]
    /\ listSeq' = Append(listSeq, x)
    /\ misled' = (misled \/ LastAstray)
    /\ UNCHANGED tailRemoved

Trashed(l, n) == [l EXCEPT !.trash = n]

(* Mutant: an iteration goes on at the item that has been popped.          *)
ci_list_pop_KeepsCursor ==
  /\ list.items # NULL
  /\ LET n == list.items
         l == IF list.last = n THEN [list EXCEPT !.last = NULL, !.items = NULL, !.cursor = NULL]
              ELSE [list EXCEPT !.items = nextOf[n]]
     IN  /\ list' = Trashed(l, n)
         /\ nextOf' = [nextOf EXCEPT ![n] = list.trash]
  /\ listSeq' = IF listSeq = <<>> THEN <<>> ELSE Tail(listSeq)
  /\ misled' = (misled \/ LastAstray)
  /\ UNCHANGED <<item, tailRemoved>>

ci_list_pop ==
  /\ list.items # NULL
  /\ LET n == list.items
         l == IF list.last = n THEN [list EXCEPT !.last = NULL, !.items = NULL, !.cursor = NULL]
              ELSE [list EXCEPT !.cursor = IF @ = n THEN nextOf[n] ELSE @, !.items = nextOf[n]]
     IN  /\ list' = Trashed(l, n)
         /\ nextOf' = [nextOf EXCEPT ![n] = list.trash]
  /\ listSeq' = IF listSeq = <<>> THEN <<>> ELSE Tail(listSeq)
  /\ misled' = (misled \/ LastAstray)
  /\ UNCHANGED <<item, tailRemoved>>

(* The node before the last one, which the loop looks for and asserts.     *)
BeforeLast == {n \in Range(Chain(list.items)) : nextOf[n] = list.last}

ci_list_pop_back ==
  /\ list.items # NULL /\ list.last # NULL
  /\ list.last = list.items \/ BeforeLast # {}
  /\ LET n == list.last IN
       IF n = list.items
       THEN /\ list' = Trashed([list EXCEPT !.last = NULL, !.items = NULL, !.cursor = NULL], n)
            /\ nextOf' = [nextOf EXCEPT ![n] = list.trash]
       ELSE LET b == CHOOSE m \in BeforeLast : TRUE IN
            /\ list' = Trashed([list EXCEPT !.cursor = IF @ = n THEN NULL ELSE @, !.last = b], n)
            /\ nextOf' = [nextOf EXCEPT ![b] = NULL, ![n] = list.trash]
  /\ listSeq' = IF listSeq = <<>> THEN <<>> ELSE Front(listSeq)
  /\ misled' = (misled \/ LastAstray)
  /\ UNCHANGED <<item, tailRemoved>>

(* ci_list_remove2 and ci_list_remove3 take the first equal item out.      *)
(* They leave last as it is.                                               *)
Removed(l, n, prev) ==
  [l EXCEPT !.items = IF prev = NULL THEN nextOf[n] ELSE @,
            !.cursor = IF @ = n THEN nextOf[n] ELSE @,
            !.trash = n]

ci_list_remove(x) ==
  LET c == Chain(list.items)
      at == {i \in DOMAIN c : item[c[i]] = x /\ \A j \in 1..(i - 1) : item[c[j]] # x}
  IN  \E i \in at :
        LET n == c[i]
            prev == IF i = 1 THEN NULL ELSE c[i - 1]
        IN  /\ list' = Removed(list, n, prev)
            /\ nextOf' = IF prev = NULL THEN [nextOf EXCEPT ![n] = list.trash]
                       ELSE [nextOf EXCEPT ![prev] = nextOf[n], ![n] = list.trash]
            /\ tailRemoved' = (tailRemoved \/ nextOf[n] = NULL)
            /\ listSeq' = IF Contains(listSeq, x) THEN RemoveFirst(listSeq, x) ELSE listSeq
            /\ UNCHANGED <<item, misled>>

(* ci_list_first, and each step of ci_list_next and ci_list_iterate, move  *)
(* the cursor before the caller sees the item; the caller may change the   *)
(* list before the next step.                                              *)
ci_list_first ==
  /\ list.items # NULL
  /\ list' = [list EXCEPT !.cursor = nextOf[list.items]]
  /\ UNCHANGED <<nextOf, item, listSeq, tailRemoved, misled>>

ci_list_next ==
  /\ list.cursor # NULL
  /\ list' = [list EXCEPT !.cursor = nextOf[list.cursor]]
  /\ UNCHANGED <<nextOf, item, listSeq, tailRemoved, misled>>

(* ci_list_sort2 moves one node after the other to its place behind the    *)
(* ones that are not greater.                                              *)
SortedChain == SortSeq(Chain(list.items), LAMBDA a, b : item[a] < item[b])

ci_list_sort ==
  /\ Len(Chain(list.items)) > 1
  /\ LET c == SortedChain IN
       /\ nextOf' = [n \in Nodes |->
                     IF n \notin Range(c) THEN nextOf[n]
                     ELSE LET i == CHOOSE j \in DOMAIN c : c[j] = n
                          IN  IF i = Len(c) THEN NULL ELSE c[i + 1]]
       /\ list' = [list EXCEPT !.items = c[1], !.last = Last(c)]
  /\ listSeq' = SortSeq(listSeq, <)
  /\ UNCHANGED <<item, tailRemoved, misled>>

ListNext ==
  \/ \E x \in ListItems :
       \/ Len(listSeq) < MaxNodes /\ (ci_list_push(x) \/ ci_list_push_back(x))
       \/ ci_list_remove(x)
  \/ ci_list_pop \/ ci_list_pop_back \/ ci_list_first \/ ci_list_next \/ ci_list_sort

(***************************************************************************)
(* The memory of vectors and arrays                                        *)
(***************************************************************************)
(* _CI_ALIGN rounds up; init_pack_allocator rounds the end down, while     *)
(* max_size keeps the size asked for.                                      *)
Up(n) == ((n + ALIGN - 1) \div ALIGN) * ALIGN
PackEnd == (VecSize \div ALIGN) * ALIGN

(* A slot of n units from the front, or n units from the rear.             *)
Room(v) == v.endpos - v.curpos
SlotTaken(v, n) == IF Room(v) >= n THEN [v EXCEPT !.curpos = @ + n] ELSE v
RearTaken(v, n) == IF Room(v) >= n THEN [v EXCEPT !.endpos = @ - n] ELSE v

(***************************************************************************)
(* Vectors: an index slot is a pointer                                     *)
(***************************************************************************)
ItemLen(v, size) == IF v.align THEN Up(size) ELSE size

(* ci_vector_add takes a slot for the new end of the index from the front, *)
(* then the item from the rear; what it has taken stays taken if the other *)
(* fails.                                                                  *)
ci_vector_add(x, size) ==
  LET v1 == SlotTaken(vec, ALIGN)
      v2 == RearTaken(v1, ItemLen(vec, size))
      ok == v1.curpos # vec.curpos /\ v2.endpos # v1.endpos
  IN  /\ vec' = IF ok THEN [v2 EXCEPT !.slots[vec.last] = [val |-> x, pos |-> v2.endpos],
                                      !.slots[vec.curpos] = NULL,
                                      !.last = vec.curpos, !.count = @ + 1]
                ELSE v2
      /\ vecSeq' = IF ok THEN Append(vecSeq, [val |-> x, size |-> size]) ELSE vecSeq
      /\ vecGap' = (vecGap \/ (ok /\ vec.curpos # vec.last + ALIGN))

(* ci_vector_pop gives the last slot and the last item back.               *)
ci_vector_pop ==
  /\ vec.count > 0
  /\ LET c == vec.count - 1 IN
       vec' = [vec EXCEPT !.curpos = vec.last, !.count = c, !.last = c * ALIGN,
                          !.endpos = IF c = 0 THEN PackEnd ELSE vec.slots[(c - 1) * ALIGN].pos,
                          !.slots[c * ALIGN] = NULL]
  /\ vecSeq' = Front(vecSeq)
  /\ UNCHANGED vecGap

ci_vector_set_align(onoff) ==
  /\ vec' = [vec EXCEPT !.align = onoff]
  /\ UNCHANGED <<vecSeq, vecGap>>

(* ci_vector_destroy and a new vector.                                     *)
RebuildVector ==
  /\ vec' = [vec EXCEPT !.last = 0, !.count = 0, !.curpos = ALIGN, !.endpos = PackEnd, !.slots[0] = NULL]
  /\ vecSeq' = <<>> /\ vecGap' = FALSE

VectorNext ==
  \/ \E x \in ListItems, size \in ItemSizes : ci_vector_add(x, size)
  \/ (~vecGap /\ ci_vector_pop)
  \/ \E onoff \in BOOLEAN : ci_vector_set_align(onoff)
  \/ RebuildVector

(***************************************************************************)
(* Arrays of names and values: an item is two pointers                     *)
(***************************************************************************)
ItemSlot == 2 * ALIGN
NameLen == Up(1)

(* ci_array_add takes the item from the front and the name and the copy of *)
(* the value from the rear; ci_ptr_array_add keeps a pointer and copies no *)
(* value.  The first item that is complete is the one items points to.     *)
ci_array_add(x, size) ==
  LET a1 == SlotTaken(arr, ItemSlot)
      slot == a1.curpos # arr.curpos
      a2 == IF slot THEN RearTaken(a1, NameLen) ELSE a1
      name == a2.endpos # a1.endpos
      a3 == IF slot /\ ~arr.ptrs THEN RearTaken(a2, Up(size)) ELSE a2
      ok == slot /\ name /\ (arr.ptrs \/ a3.endpos # a2.endpos)
  IN  /\ arr' = IF ok THEN [a3 EXCEPT !.slots[arr.curpos] = [val |-> x, pos |-> a3.endpos, name |-> a2.endpos],
                                      !.items = IF @ = NULL THEN arr.curpos ELSE @,
                                      !.count = @ + 1]
                ELSE a3
      /\ arrSeq' = IF ok THEN Append(arrSeq, [val |-> x, size |-> size]) ELSE arrSeq
      /\ arrGap' = (arrGap \/ (ok /\ arr.items # NULL /\ arr.curpos # arr.items + arr.count * ItemSlot))

ArrayItem(i) == arr.slots[arr.items + i * ItemSlot]

(* ci_array_search and ci_array_iterate go through the items.              *)
ArrayItems == [i \in 1..arr.count |-> ArrayItem(i - 1)]

(* ci_array_pop gives the item and what it points to back, which for the   *)
(* last item is everything; ci_ptr_array_pop leaves the name's memory.     *)
ci_array_pop ==
  /\ arr.count > 0
  /\ LET c == arr.count - 1 IN
       arr' = [arr EXCEPT !.count = c, !.curpos = arr.items + c * ItemSlot,
                          !.endpos = IF arr.ptrs THEN @ ELSE IF c = 0 THEN PackEnd ELSE ArrayItem(c - 1).pos]
  /\ arrSeq' = Front(arrSeq)
  /\ UNCHANGED arrGap

ci_array_rebuild ==
  /\ arr' = [arr EXCEPT !.items = NULL, !.count = 0, !.curpos = 0, !.endpos = PackEnd]
  /\ arrSeq' = <<>> /\ arrGap' = FALSE

ArrayNext ==
  \/ \E x \in ListItems, size \in ItemSizes : ci_array_add(x, size)
  \/ (~arrGap /\ ci_array_pop)
  \/ ci_array_rebuild

(* The flat image: the size, the offsets of the items, and their data,     *)
(* which starts at the last item and ends at the end of the memory, as     *)
(* max_size has it.                                                        *)
FlatArray(v) ==
  LET head == (v.count + 2) * ALIGN
      start == v.slots[(v.count - 1) * ALIGN].pos
  IN  [size |-> head + (VecSize - start),
       indx |-> [i \in 0..(v.count - 1) |-> head + (v.slots[i * ALIGN].pos - start)],
       data |-> [i \in 0..(v.count - 1) |-> v.slots[i * ALIGN].val]]

ci_flat_array_check(f) ==
  /\ f.indx[0] <= f.size
  /\ \A i \in DOMAIN f.indx \ {0} : f.indx[i] <= f.indx[i - 1]

(* ci_flat_array_item and ci_vector_get2: an item reaches to the one       *)
(* before it, the first one to the end.                                    *)
ci_flat_array_item(f, i) ==
  [val |-> f.data[i], size |-> (IF i = 0 THEN f.size ELSE f.indx[i - 1]) - f.indx[i]]

(***************************************************************************)
(* Properties                                                              *)
(***************************************************************************)
(* A list holds what was pushed and not popped or removed, in order, and   *)
(* the cursor of an iteration points into it whatever has been pushed,     *)
(* popped, removed or sorted since its last step (ci_list_push,            *)
(* ci_list_pop, ci_list_remove2).  ci_list_remove leaves `last` on the     *)
(* last item that it takes out, and nothing else leaves it astray; a list  *)
(* that is only pushed to, removed from and iterated, as COMMANDS_QUEUE is *)
(* (commands.c:240, :269), is right all the same.  Exception: what is said *)
(* ends when ci_list_push_back, ci_list_pop or ci_list_pop_back is led     *)
(* astray by such a `last` (memcached.c:289, :298 do push_back and         *)
(* remove).                                                                *)
ListIsSequence ==
  misled \/
    /\ ListContents = listSeq
    /\ LastAstray => tailRemoved
    /\ list.cursor # NULL => list.cursor \in Range(Chain(list.items))

(* Up to ALIGN - 1 units are added by aligning an item and, for the first  *)
(* one, by the end of the memory: array.h says that the size of an item    *)
(* may appear larger than it is.                                           *)
SizeAppears(f, size) == f >= size /\ f <= size + 2 * (ALIGN - 1)

(* The NULL terminated index of a vector lists the items that were added   *)
(* and not popped, with memory of their own, and its flat image gives them *)
(* back with sizes that are at most rounded; also after an addition that   *)
(* found room for only one of slot and item, up to the first one that      *)
(* succeeds before a pop (ci_vector_add, ci_vector_pop,                    *)
(* ci_flat_array_build_from_vector_to, ci_flat_array_item).                *)
VectorIsSequence ==
  ~vecGap =>
    /\ vec.count = Len(vecSeq) /\ vec.slots[vec.count * ALIGN] = NULL
    /\ vec.count > 0 =>
         /\ ci_flat_array_check(FlatArray(vec))
         /\ \A i \in 1..vec.count :
              LET it == ci_flat_array_item(FlatArray(vec), i - 1)
              IN  it.val = vecSeq[i].val /\ SizeAppears(it.size, vecSeq[i].size)
         /\ vec.last + ALIGN <= vec.slots[(vec.count - 1) * ALIGN].pos

(* An array gives the names and values that were added and not popped, in  *)
(* order, and no two of them share memory with each other or with the      *)
(* index; also after an addition that found room for only a part, up to    *)
(* the first one that succeeds before a pop (ci_array_add, ci_array_pop,   *)
(* ci_ptr_array_add, ci_ptr_array_pop).                                    *)
ArrayIsSequence ==
  ~arrGap =>
    /\ arr.count = Len(arrSeq)
    /\ \A i \in 1..arr.count :
         LET it == ArrayItems[i]
             top == IF arr.ptrs THEN it.pos ELSE it.pos + arrSeq[i].size
         IN  /\ it.val = arrSeq[i].val
             /\ arr.curpos <= it.pos /\ top <= it.name
             /\ it.name + NameLen <= IF i = 1 THEN PackEnd ELSE ArrayItems[i - 1].pos

(* The three kinds of containers at once.                                  *)
ContainersAreSequences == ListIsSequence /\ VectorIsSequence /\ ArrayIsSequence
=============================================================================
