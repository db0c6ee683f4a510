---------------------------- MODULE FunctionalQueue ----------------------------
(***************************************************************************)
(* The queue of modula/module_exercise.ml: a pair of lists, of which the   *)
(* back one is reversed into the front one when the front one runs out.    *)
(***************************************************************************)
EXTENDS Naturals, Sequences, SequencesExt

CONSTANT Elements

VARIABLES
    queue,    \* the pair: its two lists
    answer    \* what the last operation returned, in a sequence: <<>> is None

queuevars == <<queue, answer>>

(* Mutant: the back list is not reversed.                                   *)
NormUnreversed(q) == IF q.front = <<>> THEN [front |-> q.back, back |-> <<>>] ELSE q

norm(q) == IF q.front = <<>> THEN [front |-> Reverse(q.back), back |-> <<>>] ELSE q

QueueInit == queue = [front |-> <<>>, back |-> <<>>] /\ answer = <<>>

enqueue(x) ==
    /\ queue' = norm([queue EXCEPT !.back = <<x>> \o @])
    /\ answer' = <<>>

peek ==
    /\ answer' = IF queue.front = <<>> THEN <<>> ELSE <<Head(queue.front)>>
    /\ UNCHANGED queue

dequeue ==
    \/ /\ queue.front = <<>>
       /\ answer' = <<>>
       /\ UNCHANGED queue
    \/ /\ queue.front # <<>>
       /\ answer' = <<Head(queue.front)>>
       /\ queue' = norm([queue EXCEPT !.front = Tail(@)])

QueueNext == (\E x \in Elements : enqueue(x)) \/ peek \/ dequeue

QueueSpec == QueueInit /\ [][QueueNext]_queuevars

-------------------------------------------------------------------------------
(* The elements of the queue, the one to be taken next first.               *)
Held == queue.front \o Reverse(queue.back)

List == INSTANCE Fifo WITH items <- Held

(* The queue is a first-in first-out list: in particular, peek and dequeue, *)
(* which look at the front list only, miss no element.                      *)
ImplementsFifo == List!Spec
===============================================================================
