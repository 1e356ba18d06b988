----------------------------- MODULE DeathWatch -----------------------------
(***************************************************************************)
(* What waltz promises of mailboxes and watches, with no registry, lock, run *)
(* loop or tree in sight: whoever watches an actor is owed one signal, which *)
(* arrives behind everything that actor has sent, unless the watch is taken  *)
(* back first.  ActorsDeathWatch shows that the run loop implements this;    *)
(* the models of the examples assume it.                                     *)
(***************************************************************************)
EXTENDS Naturals, Sequences

CONSTANTS
    Actor,   \* the actors that may ever exist
    Root,    \* the actor there is from the start
    System   \* code outside of any actor

VARIABLES
    spawned,    \* actors that exist or have existed
    silent,     \* of these, the ones that send nothing any more
    queue,      \* the mailbox of each actor
    receiving,  \* actors whose mailbox is connected
    watched,    \* whom each actor watches
    owed        \* pairs <<a, b>>: b owes a its signal

vars == <<spawned, silent, queue, receiving, watched, owed>>

Message(s)    == [kind |-> "message", from |-> s]
Terminated(b) == [kind |-> "terminated", from |-> b]

Delivered(a, incoming) ==
    IF a \in receiving THEN [queue EXCEPT ![a] = Append(@, incoming)] ELSE queue

Spawn(c) ==
    /\ c \notin spawned
    /\ spawned' = spawned \cup {c}
    /\ receiving' = receiving \cup {c}
    /\ UNCHANGED <<silent, queue, watched, owed>>

Tell(s, a) ==
    /\ s \in {System} \cup (spawned \ silent)
    /\ a \in spawned
    /\ queue' = Delivered(a, Message(s))
    /\ UNCHANGED <<spawned, silent, receiving, watched, owed>>

\* Whoever is silent already signals at once.
Watch(a, b) ==
    /\ a \in spawned \ silent
    /\ b \in spawned
    /\ watched' = [watched EXCEPT ![a] = @ \cup {b}]
    /\ IF b \in silent
       THEN queue' = [queue EXCEPT ![a] = Append(@, Terminated(b))] /\ UNCHANGED owed
       ELSE owed' = owed \cup {<<a, b>>} /\ UNCHANGED queue
    /\ UNCHANGED <<spawned, silent, receiving>>

\* By unwatch, or because the watcher terminates.  A signal that has already
\* begun to be sent is sent all the same.
Unwatch(a, b) ==
    /\ b \in watched[a]
    /\ watched' = [watched EXCEPT ![a] = @ \ {b}]
    /\ owed' = IF b \in silent THEN owed ELSE owed \ {<<a, b>>}
    /\ UNCHANGED <<spawned, silent, queue, receiving>>

\* A signal ends the watch it is received for.
Receive(a) ==
    /\ queue[a] # <<>>
    /\ queue' = [queue EXCEPT ![a] = Tail(@)]
    /\ watched' = IF Head(queue[a]).kind = "terminated"
                  THEN [watched EXCEPT ![a] = @ \ {Head(queue[a]).from}]
                  ELSE watched
    /\ UNCHANGED <<spawned, silent, receiving, owed>>

Disconnect(a) ==
    /\ receiving' = receiving \ {a}
    /\ queue' = [queue EXCEPT ![a] = <<>>]
    /\ UNCHANGED <<spawned, silent, watched, owed>>

FallSilent(b) ==
    /\ b \in spawned \ silent
    /\ silent' = silent \cup {b}
    /\ UNCHANGED <<spawned, queue, receiving, watched, owed>>

Signal(a, b) ==
    /\ b \in silent
    /\ <<a, b>> \in owed
    /\ owed' = owed \ {<<a, b>>}
    /\ queue' = Delivered(a, Terminated(b))
    /\ UNCHANGED <<spawned, silent, receiving, watched>>

Init ==
    /\ spawned = {Root}
    /\ silent = {}
    /\ queue = [a \in Actor |-> <<>>]
    /\ receiving = {Root}
    /\ watched = [a \in Actor |-> {}]
    /\ owed = {}

Next ==
    \/ \E a \in Actor : Spawn(a) \/ Receive(a) \/ Disconnect(a) \/ FallSilent(a)
    \/ \E s \in Actor \cup {System}, a \in Actor : Tell(s, a)
    \/ \E a, b \in Actor : Watch(a, b) \/ Unwatch(a, b) \/ Signal(a, b)

Spec == Init /\ [][Next]_vars
=============================================================================
