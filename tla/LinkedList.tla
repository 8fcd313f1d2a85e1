----------------------------- MODULE LinkedList -----------------------------
(***************************************************************************)
(* linkedlist.c: a doubly linked list on the heap with one iterator, the   *)
(* list behind the function cache and the link requests.                   *)
(*                                                                         *)
(* The client of ListNext calls as jit.c, jit_runtime.c and linker.c do or *)
(* more freely, within bounds: ll_next only after ll_has_next said yes, no *)
(* node under an iterator freed behind its back, ll_add only between two   *)
(* items, ll_set and ll_remove only after an ll_next of their own.  The    *)
(* client of AnyNext does not keep to the last two, and may crash.         *)
(***************************************************************************)
EXTENDS Integers, Sequences, FiniteSets

CONSTANTS Node,                \* the nodes that the allocator can give out
          Item, Null

ASSUME NodeAssumption == IsFiniteSet(Node) /\ Null \notin Node \cup Item

VARIABLES
    alive,     \* the list exists
    head, tail,
    node,      \* the allocated nodes, with prev, next and item
    iterating, \* the iterator exists
    prev,      \* its fields
    may_set,
    stepped,   \* what the client remembers: ll_next was the last of the calls
               \* of ll_next, ll_add and ll_remove on the iterator
    ret,       \* what the last call returned; C's truth values are 0 and 1
    crashed

iterVars == <<iterating, prev, may_set, stepped>>
llVars   == <<alive, head, tail, node, iterVars, ret, crashed>>

Pointer == Node \cup {Null}

-----------------------------------------------------------------------------
LlInit ==
    /\ alive = FALSE
    /\ head = Null /\ tail = Null /\ node = [n \in {} |-> 0]
    /\ iterating = FALSE /\ prev = Null /\ may_set = 0 /\ stepped = FALSE
    /\ ret = Null
    /\ crashed = FALSE

Truth(b) == IF b THEN 1 ELSE 0

\* A call on the list that follows the pointers ps.
Calls(ps) == alive /\ ~crashed /\ ps \subseteq DOMAIN node

\* It crashes when one of them is NULL or freed.
Crash(ps) ==
    /\ alive /\ ~crashed /\ ~(ps \subseteq DOMAIN node)
    /\ crashed' = TRUE
    /\ UNCHANGED <<alive, head, tail, node, iterVars, ret>>

\* The heap with some fields assigned and some nodes freed.
With(n, field, value) == [node EXCEPT ![n] = [@ EXCEPT ![field] = value]]
Assign(n, field, value) == IF n = Null THEN node ELSE With(n, field, value)
Without(h, n) == [m \in DOMAIN h \ {n} |-> h[m]]

new_node(h, n, x, p, q) ==
    [m \in DOMAIN h \cup {n} |-> IF m = n THEN [prev |-> p, next |-> q, item |-> x] ELSE h[m]]

-----------------------------------------------------------------------------
\* calloc's block has the size of a pointer (linkedlist.c:22); it holds both fields
\* because no allocator's smallest block is smaller.  That it may be refused is left out.
ll_new ==
    /\ ~alive /\ ~crashed
    /\ alive' = TRUE /\ ret' = Null
    /\ UNCHANGED <<head, tail, node, iterVars, crashed>>

\* The nodes that a walk from the head along next comes to: the smallest set
\* with the head that holds what follows each of its nodes.
Reached ==
    {n \in Node :
        \A R \in SUBSET Node :
            (head \in R \cup {Null} /\ \A m \in R \cap DOMAIN node : node[m].next \in R \cup {Null})
                => n \in R}

\* An iterator that outlives its list is of no use any more.
ll_destroy ==
    /\ Calls(Reached)
    /\ alive' = FALSE
    /\ head' = Null /\ tail' = Null
    /\ node' = [n \in DOMAIN node \ Reached |-> node[n]]
    /\ iterating' = FALSE /\ prev' = Null /\ may_set' = 0 /\ stepped' = FALSE
    /\ ret' = Null
    /\ UNCHANGED crashed

\* The allocator may always refuse.
AddFails ==
    /\ Calls({})
    /\ ret' = 0
    /\ UNCHANGED <<alive, head, tail, node, iterVars, crashed>>

ll_add_front(x) ==
    /\ Calls(IF tail = Null THEN {} ELSE {head})
    /\ \E n \in Node \ DOMAIN node :
          /\ node' = new_node(IF tail = Null THEN node ELSE With(head, "prev", n), n, x, Null, head)
          /\ tail' = IF tail = Null THEN n ELSE tail
          /\ head' = n
    /\ ret' = 1
    /\ UNCHANGED <<alive, iterVars, crashed>>

ll_add_back(x) ==
    /\ Calls(IF head = Null THEN {} ELSE {tail})
    /\ \E n \in Node \ DOMAIN node :
          /\ node' = new_node(IF head = Null THEN node ELSE With(tail, "next", n), n, x, tail, Null)
          /\ head' = IF head = Null THEN n ELSE head
          /\ tail' = n
    /\ ret' = 1
    /\ UNCHANGED <<alive, iterVars, crashed>>

\* The client does not free the node the iterator has just passed.
ll_remove_front ==
    /\ Calls({head} \ {Null})
    /\ head # Null => head # prev
    /\ IF head = Null THEN ret' = Null /\ UNCHANGED <<head, tail, node>>
       ELSE LET next == node[head].next
            IN  /\ head' = next
                /\ tail' = IF next = Null THEN Null ELSE tail
                /\ node' = Without(Assign(next, "prev", Null), head)
                /\ ret' = node[head].item
    /\ UNCHANGED <<alive, iterVars, crashed>>

ll_remove_back ==
    /\ Calls({tail} \ {Null})
    /\ tail # Null => tail # prev
    /\ IF tail = Null THEN ret' = Null /\ UNCHANGED <<head, tail, node>>
       ELSE LET before == node[tail].prev
            IN  /\ tail' = before
                /\ head' = IF before = Null THEN Null ELSE head
                /\ node' = Without(Assign(before, "next", Null), tail)
                /\ ret' = node[tail].item
    /\ UNCHANGED <<alive, iterVars, crashed>>

-----------------------------------------------------------------------------
(* The calls that only look. *)
Look(ps, answer) ==
    /\ Calls(ps)
    /\ ret' = answer
    /\ UNCHANGED <<alive, head, tail, node, iterVars, crashed>>

ll_get_front == Look({head} \ {Null}, IF head = Null THEN Null ELSE node[head].item)
ll_get_back  == Look(IF head = Null THEN {} ELSE {tail},
                     IF head = Null THEN Null ELSE node[tail].item)
ll_is_empty  == Look({}, Truth(head = Null))

\* Mutant: the count starts at one.
ll_size_FromOne == Look(Reached, Cardinality(Reached) + 1)

ll_size == Look(Reached, Cardinality(Reached))

-----------------------------------------------------------------------------
(* The iterator. *)
\* That malloc may refuse the iterator, which the code does not test, is left out.
ll_iterator_new ==
    /\ Calls({}) /\ ~iterating
    /\ iterating' = TRUE /\ prev' = Null /\ may_set' = 0 /\ stepped' = FALSE
    /\ ret' = Null
    /\ UNCHANGED <<alive, head, tail, node, crashed>>

ll_iterator_destroy ==
    /\ Calls({}) /\ iterating
    /\ iterating' = FALSE /\ prev' = Null /\ may_set' = 0 /\ stepped' = FALSE
    /\ ret' = Null
    /\ UNCHANGED <<alive, head, tail, node, crashed>>

More == \/ prev = Null /\ head # Null
        \/ prev # Null /\ node[prev].next # Null

ll_has_next == iterating /\ Look({prev} \ {Null}, Truth(More))

ll_next ==
    /\ iterating /\ Calls({prev} \ {Null}) /\ More
    /\ LET n == IF prev = Null THEN head ELSE node[prev].next
       IN  prev' = n /\ ret' = node[n].item
    /\ may_set' = 1 /\ stepped' = TRUE
    /\ UNCHANGED <<alive, head, tail, node, iterating, crashed>>

\* Mutant: the node after the new one keeps its old predecessor.
ll_add_HalfLinked(x) ==
    /\ iterating /\ Calls({prev})
    /\ \E n \in Node \ DOMAIN node :
          /\ node' = new_node(With(prev, "next", n), n, x, prev, node[prev].next)
          /\ prev' = n
    /\ may_set' = 0 /\ stepped' = FALSE /\ ret' = 1
    /\ UNCHANGED <<alive, head, tail, iterating, crashed>>

\* new_node is given iter->prev->next before iter->prev is compared with NULL,
\* so there is no case for the front; tail is never assigned.
ll_add(x) ==
    /\ iterating /\ Calls({prev})
    /\ \E n \in Node \ DOMAIN node :
          LET after == node[prev].next
          IN  /\ node' = new_node([m \in DOMAIN node |->
                              CASE m = after -> [node[m] EXCEPT !.prev = n]
                                [] m = prev  -> [node[m] EXCEPT !.next = n]
                                [] OTHER     -> node[m]],
                              n, x, prev, after)
              /\ prev' = n
    /\ may_set' = 0 /\ stepped' = FALSE /\ ret' = 1
    /\ UNCHANGED <<alive, head, tail, iterating, crashed>>

\* Mutant: the new item is returned, not the old one.
ll_set_New(x) ==
    /\ iterating /\ Calls({prev} \ {Null})
    /\ IF may_set = 0 \/ prev = Null THEN ret' = Null /\ UNCHANGED node
       ELSE node' = With(prev, "item", x) /\ ret' = x
    /\ UNCHANGED <<alive, head, tail, iterVars, crashed>>

ll_set(x) ==
    /\ iterating /\ Calls({prev} \ {Null})
    /\ IF may_set = 0 \/ prev = Null THEN ret' = Null /\ UNCHANGED node
       ELSE node' = With(prev, "item", x) /\ ret' = node[prev].item
    /\ UNCHANGED <<alive, head, tail, iterVars, crashed>>

\* may_set keeps its value, and prev becomes the node before.
ll_remove ==
    /\ iterating /\ Calls({prev} \ {Null})
    /\ IF may_set = 0 \/ prev = Null
       THEN ret' = Null /\ UNCHANGED <<head, tail, node, prev, stepped>>
       ELSE LET before == node[prev].prev
                after  == node[prev].next
            IN  /\ node' = [m \in DOMAIN node \ {prev} |->
                              CASE m = before -> [node[m] EXCEPT !.next = after]
                                [] m = after  -> [node[m] EXCEPT !.prev = before]
                                [] OTHER      -> node[m]]
                /\ tail' = IF tail = prev THEN before ELSE tail
                /\ head' = IF head = prev THEN after ELSE head
                /\ prev' = before
                /\ stepped' = FALSE
                /\ ret' = node[prev].item
    /\ UNCHANGED <<alive, iterating, may_set, crashed>>

-----------------------------------------------------------------------------
\* Between two items.
InMiddle == iterating /\ prev # Null /\ More

Basic ==
    \/ ll_new \/ ll_destroy \/ AddFails
    \/ \E x \in Item : ll_add_front(x) \/ ll_add_back(x)
    \/ ll_remove_front \/ ll_remove_back
    \/ ll_get_front \/ ll_get_back \/ ll_size \/ ll_is_empty
    \/ ll_iterator_new \/ ll_iterator_destroy \/ ll_has_next \/ ll_next

ListNext ==
    \/ Basic
    \/ InMiddle /\ \E x \in Item : ll_add(x)
    \/ (stepped \/ may_set = 0) /\ (ll_remove \/ \E x \in Item : ll_set(x))

ListSpec == LlInit /\ [][ListNext]_llVars

AnyNext ==
    \/ Basic
    \/ ll_remove
    \/ \E x \in Item : ll_add(x) \/ ll_set(x)
    \/ iterating /\ Crash({prev})

AnySpec == LlInit /\ [][AnyNext]_llVars

-----------------------------------------------------------------------------
\* Every variable holds a value of its C type; pointers may still dangle.
LlTypeOK ==
    /\ {alive, iterating, stepped, crashed} \subseteq BOOLEAN
    /\ {head, tail, prev} \subseteq Pointer
    /\ DOMAIN node \subseteq Node
    /\ node \in [DOMAIN node -> [prev : Pointer, next : Pointer, item : Item]]
    /\ may_set \in {0, 1}
    /\ ret \in Item \cup {Null, 0, 1} \cup 0 .. Cardinality(Node)

\* s, of length n, is the chain of a heap from front to back: every allocated
\* node once, with its neighbours in the chain as prev and next.
Chain(h, front, back, s, n) ==
    /\ {s[i] : i \in 1 .. n} = DOMAIN h
    /\ \A i, j \in 1 .. n : s[i] = s[j] => i = j
    /\ front = IF n = 0 THEN Null ELSE s[1]
    /\ back  = IF n = 0 THEN Null ELSE s[n]
    /\ \A i \in 1 .. n : /\ h[s[i]].prev = IF i = 1 THEN Null ELSE s[i - 1]
                        /\ h[s[i]].next = IF i = n THEN Null ELSE s[i + 1]

Length == Cardinality(DOMAIN node)
Chains == {s \in [1 .. Length -> DOMAIN node] : Chain(node, head, tail, s, Length)}

\* The links are those of one chain from head to tail that holds every
\* allocated node once (none leaks, none is in it after it was freed), and the
\* iterator stands on a node of it: what every call of linkedlist.c relies on.
WellLinked ==
    /\ ~alive => DOMAIN node = {}
    /\ Chains # {}
    /\ prev \in DOMAIN node \cup {Null}

\* What the chain and the iterator stand for.
Links  == CHOOSE s \in Chains : TRUE
Items  == [i \in 1 .. Length |-> node[Links[i]].item]
Cursor == IF prev = Null THEN 0 ELSE CHOOSE i \in 1 .. Length : Links[i] = prev

List == INSTANCE ItemList WITH items <- Items, cursor <- Cursor

\* Every call on the heap does to the sequence of items, and returns, what
\* linkedlist.h's operation does: the heap implements the list.
ImplementsList == List!ListSpec

\* No call follows NULL or a freed node; linkedlist.c:213 has a branch "adding to
\* front of list" for the iterator that has not moved.
NoCrash == ~crashed

\* linkedlist.c:250: ll_remove returns NULL when the client has not "called
\* next() since the last modifying operation".
RemoveNeedsNext == [][ll_remove /\ ret' # Null => stepped]_llVars
=============================================================================
