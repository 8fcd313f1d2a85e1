------------------------------ MODULE ItemList ------------------------------
(***************************************************************************)
(* What linkedlist.h promises: a sequence of items and at most one         *)
(* iterator, which stands between two items.  An addition may fail for     *)
(* want of memory; an iterator sets or removes the item that ll_next       *)
(* returned, once.                                                         *)
(***************************************************************************)
EXTENDS Integers, Sequences

CONSTANTS Item, Null

VARIABLES
    alive,     \* the list exists
    items,     \* from front to back
    iterating, \* the iterator exists
    cursor,    \* the number of items the iterator has passed
    stepped,   \* the iterator has moved since it last added or removed
    ret        \* what the last call returned

listVars == <<alive, items, iterating, cursor, stepped, ret>>

Init ==
    /\ alive = FALSE /\ items = <<>>
    /\ iterating = FALSE /\ cursor = 0 /\ stepped = FALSE
    /\ ret = Null

Same == UNCHANGED <<alive, items, iterating, cursor, stepped>>

Create ==
    /\ ~alive
    /\ alive' = TRUE /\ ret' = Null
    /\ UNCHANGED <<items, iterating, cursor, stepped>>

Destroy ==
    /\ alive
    /\ alive' = FALSE /\ items' = <<>> /\ ret' = Null
    /\ iterating' = FALSE /\ cursor' = 0 /\ stepped' = FALSE

\* The items from position i on are replaced by s and those after the first n.
Splice(i, n, s) == SubSeq(items, 1, i) \o s \o SubSeq(items, i + n + 1, Len(items))

AddFails == alive /\ ret' = 0 /\ Same

AddFront(x) ==
    /\ alive
    /\ items' = Splice(0, 0, <<x>>)
    /\ cursor' = IF cursor = 0 THEN 0 ELSE cursor + 1
    /\ ret' = 1
    /\ UNCHANGED <<alive, iterating, stepped>>

AddBack(x) ==
    /\ alive
    /\ items' = Splice(Len(items), 0, <<x>>)
    /\ ret' = 1
    /\ UNCHANGED <<alive, iterating, cursor, stepped>>

RemoveFront ==
    /\ alive
    /\ IF items = <<>> THEN ret' = Null /\ UNCHANGED <<items, cursor>>
       ELSE /\ items' = Splice(0, 1, <<>>)
            /\ cursor' = IF cursor = 0 THEN 0 ELSE cursor - 1
            /\ ret' = items[1]
    /\ UNCHANGED <<alive, iterating, stepped>>

RemoveBack ==
    /\ alive
    /\ IF items = <<>> THEN ret' = Null /\ UNCHANGED items
       ELSE /\ items' = Splice(Len(items) - 1, 1, <<>>)
            /\ ret' = items[Len(items)]
    /\ UNCHANGED <<alive, iterating, cursor, stepped>>

\* The calls that only look; C's truth values are 0 and 1.
Look(answer) == alive /\ ret' = answer /\ Same

Truth(b) == IF b THEN 1 ELSE 0

GetFront == Look(IF items = <<>> THEN Null ELSE items[1])
GetBack  == Look(IF items = <<>> THEN Null ELSE items[Len(items)])
Size     == Look(Len(items))
IsEmpty  == Look(Truth(items = <<>>))
HasNext  == iterating /\ Look(Truth(cursor < Len(items)))

IteratorNew ==
    /\ alive /\ ~iterating
    /\ iterating' = TRUE /\ cursor' = 0 /\ stepped' = FALSE /\ ret' = Null
    /\ UNCHANGED <<alive, items>>

IteratorDestroy ==
    /\ iterating
    /\ iterating' = FALSE /\ cursor' = 0 /\ stepped' = FALSE /\ ret' = Null
    /\ UNCHANGED <<alive, items>>

Step ==
    /\ iterating /\ cursor < Len(items)
    /\ cursor' = cursor + 1 /\ stepped' = TRUE /\ ret' = items[cursor + 1]
    /\ UNCHANGED <<alive, items, iterating>>

Insert(x) ==
    /\ iterating
    /\ items' = Splice(cursor, 0, <<x>>)
    /\ cursor' = cursor + 1 /\ stepped' = FALSE /\ ret' = 1
    /\ UNCHANGED <<alive, iterating>>

Replace(x) ==
    /\ iterating
    /\ IF stepped
       THEN items' = Splice(cursor - 1, 1, <<x>>) /\ ret' = items[cursor]
       ELSE UNCHANGED items /\ ret' = Null
    /\ UNCHANGED <<alive, iterating, cursor, stepped>>

Delete ==
    /\ iterating
    /\ IF stepped
       THEN /\ items' = Splice(cursor - 1, 1, <<>>)
            /\ cursor' = cursor - 1 /\ stepped' = FALSE /\ ret' = items[cursor]
       ELSE UNCHANGED <<items, cursor, stepped>> /\ ret' = Null
    /\ UNCHANGED <<alive, iterating>>

ListNext ==
    \/ Create \/ Destroy \/ AddFails
    \/ \E x \in Item : AddFront(x) \/ AddBack(x) \/ Insert(x) \/ Replace(x)
    \/ RemoveFront \/ RemoveBack
    \/ GetFront \/ GetBack \/ Size \/ IsEmpty \/ HasNext
    \/ IteratorNew \/ IteratorDestroy \/ Step \/ Delete

ListSpec == Init /\ [][ListNext]_listVars
=============================================================================
