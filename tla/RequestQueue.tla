---------------------------- MODULE RequestQueue ----------------------------
(***************************************************************************)
(* FIFOClientQueue (ocppj/queue.go): the operations on the slice of        *)
(* elements.  Each runs under the queue's own mutex, so each is one step.  *)
(* Peek on an empty queue returns nil: callers test IsEmpty.               *)
(***************************************************************************)
EXTENDS Naturals, Sequences

EmptyQueue == <<>>

IsEmpty(elements) == elements = <<>>

IsFull(elements, capacity) == Len(elements) >= capacity /\ capacity > 0

(* Fault: the new element overtakes the others. *)
PushFront(elements, element) == <<element>> \o elements

(* Callers test IsFull first: Push reports the full queue as an error. *)
Push(elements, element) == Append(elements, element)

Peek(elements) == Head(elements)

Pop(elements) == IF elements = <<>> THEN <<>> ELSE Tail(elements)
=============================================================================
