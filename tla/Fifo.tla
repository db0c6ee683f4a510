--------------------------------- MODULE Fifo ---------------------------------
(* A first-in first-out list, with the answer of its last operation.       *)
EXTENDS Sequences

CONSTANT Elements

VARIABLES items, answer

First == IF items = <<>> THEN <<>> ELSE <<Head(items)>>

Init == items = <<>> /\ answer = <<>>

Enqueue(x) == items' = Append(items, x) /\ answer' = <<>>
Peek == answer' = First /\ UNCHANGED items
Dequeue ==
    /\ answer' = First
    /\ items' = IF items = <<>> THEN <<>> ELSE Tail(items)

Next == (\E x \in Elements : Enqueue(x)) \/ Peek \/ Dequeue

Spec == Init /\ [][Next]_<<items, answer>>
===============================================================================
