--------------------------- MODULE AtomicMailbox ---------------------------
(***************************************************************************)
(* What a mailbox promises: a FIFO queue of messages, at most Capacity of    *)
(* them at a time, and of signals, which are not counted; closed once, with  *)
(* whatever is queued discarded.  A send may be refused at any time, which  *)
(* is no step at all: the mailbox is full or closed, or close to it.        *)
(***************************************************************************)
EXTENDS Naturals, Sequences, FiniteSets

CONSTANTS
    Item,     \* messages and signals
    Capacity  \* the messages that may be queued

VARIABLES
    queue,    \* what has been sent and not received
    open,     \* the actor still receives
    received  \* what it has received, in order

vars == <<queue, open, received>>

QueuedMessages == {i \in DOMAIN queue : queue[i].kind = "message"}

Deliver(item) ==
    /\ open
    /\ item.kind = "message" => Cardinality(QueuedMessages) < Capacity
    /\ queue' = Append(queue, item)
    /\ UNCHANGED <<open, received>>

Receive ==
    /\ open
    /\ queue # <<>>
    /\ queue' = Tail(queue)
    /\ received' = Append(received, Head(queue))
    /\ UNCHANGED open

Close ==
    /\ open
    /\ open' = FALSE
    /\ queue' = <<>>
    /\ UNCHANGED received

Init == queue = <<>> /\ open = TRUE /\ received = <<>>

Next == (\E item \in Item : Deliver(item)) \/ Receive \/ Close

Spec == Init /\ [][Next]_vars
=============================================================================
