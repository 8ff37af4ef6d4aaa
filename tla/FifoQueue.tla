----------------------------- MODULE FifoQueue -----------------------------
(***************************************************************************)
(* What Ext::Queue::eventQueue promises its users, with threads, mutex and *)
(* condition variable left out: items leave in the order they entered,     *)
(* none is lost, repeated or invented, and once the queue is closed at     *)
(* most one more item comes out (that of a DeQueue which had already read  *)
(* _isStop == false when Stop was called).                                 *)
(*                                                                         *)
(* EventQueue implements this specification; EventQueueProofs proves it.   *)
(***************************************************************************)
EXTENDS Naturals, Sequences

CONSTANT Items          \* the values that may be queued

VARIABLES queue,        \* the items still queued, oldest first
          closed,       \* TRUE once the queue was closed
          enqueued,     \* history: every item put, in order
          delivered,    \* history: every item taken, in order
          late          \* history: how many were taken after closing

vars == <<queue, closed, enqueued, delivered, late>>

Init ==
    /\ queue = <<>>
    /\ closed = FALSE
    /\ enqueued = <<>>
    /\ delivered = <<>>
    /\ late = 0

Put(x) ==
    /\ queue' = Append(queue, x)
    /\ enqueued' = Append(enqueued, x)
    /\ UNCHANGED <<closed, delivered, late>>

Take ==
    /\ queue # <<>>
    /\ closed => late = 0
    /\ delivered' = Append(delivered, Head(queue))
    /\ queue' = Tail(queue)
    /\ late' = IF closed THEN late + 1 ELSE late
    /\ UNCHANGED <<closed, enqueued>>

Close ==
    /\ closed' = TRUE
    /\ UNCHANGED <<queue, enqueued, delivered, late>>

Next == (\E x \in Items : Put(x)) \/ Take \/ Close

Spec == Init /\ [][Next]_vars

-----------------------------------------------------------------------------
TypeOK ==
    /\ queue \in Seq(Items)
    /\ closed \in BOOLEAN
    /\ enqueued \in Seq(Items)
    /\ delivered \in Seq(Items)
    /\ late \in 0..1

(***************************************************************************)
(* Nothing is lost, repeated, invented or reordered: what was taken        *)
(* followed by what is still queued is exactly what was put.               *)
(***************************************************************************)
Fifo == enqueued = delivered \o queue

=============================================================================
