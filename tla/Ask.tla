-------------------------------- MODULE Ask --------------------------------
(***************************************************************************)
(* Asking an actor from outside (actor_ref.rs, ask.rs): the request carries  *)
(* a ReplyTo, whose oneshot the asker awaits under a timeout while the       *)
(* responder receives, keeps, drops or answers the request, or terminates    *)
(* with it still queued (terminate in actor_context.rs).  The mailbox is     *)
(* the queue of AtomicMailbox, with the window between drain and disconnect. *)
(***************************************************************************)
EXTENDS Naturals, Sequences, FiniteSets

CONSTANTS
    Asker,    \* tasks outside of any actor, each asking once
    Capacity  \* of the responder's mailbox

ASSUME AskAssumption == Capacity \in Nat \ {0}

VARIABLES
    asker,    \* where each asker is in ask
    result,   \* what ask has returned
    replyTo,  \* where the ReplyTo is, or what has become of it
    channel,  \* the oneshot: "empty", or "full" with a reply not yet read
    logged,   \* askers whose reply was logged as a dead letter
    inTime,   \* askers that had not given up when their reply was sent
    queue,    \* the requests in the responder's mailbox
    responder \* where the responder is

askerVars == <<asker, result>>
replyVars == <<channel, logged, inTime>>
vars == <<askerVars, replyTo, replyVars, queue, responder>>

\* The request is alive: its ReplyTo may still be consumed.
Alive == {"queued", "turn", "kept", "drained", "slipped"}

-----------------------------------------------------------------------------
\* The asker.

Resolve(a, outcome) ==
    /\ asker' = [asker EXCEPT ![a] = "done"]
    /\ result' = [result EXCEPT ![a] = outcome]

\* The request cannot be sent and is dropped, its ReplyTo with it.
Refused(a, outcome) ==
    /\ Resolve(a, outcome)
    /\ replyTo' = [replyTo EXCEPT ![a] = "dropped"]
    /\ UNCHANGED queue

Sent(a, place) ==
    /\ asker' = [asker EXCEPT ![a] = "awaiting"]
    /\ replyTo' = [replyTo EXCEPT ![a] = place]
    /\ UNCHANGED result

\* The places taken: a drain gives none back.
Held ==
    IF responder = "drained"
    THEN Cardinality({a \in Asker : replyTo[a] \in {"drained", "slipped"}})
    ELSE Len(queue)

\* Variant: one place too many.
Overfull == Held > Capacity

Full == Held >= Capacity

\* try_send_message
Request(a) ==
    /\ asker[a] = "idle"
    /\ IF responder = "gone" THEN Refused(a, "terminated")
       ELSE IF Full THEN Refused(a, "full")
       ELSE IF responder = "drained" THEN Sent(a, "slipped") /\ UNCHANGED queue
       ELSE Sent(a, "queued") /\ queue' = Append(queue, a)
    /\ UNCHANGED <<replyVars, responder>>

\* Variant: a request that is going to be dropped counts as dropped.
ReadyEarly(a) == channel[a] = "full" \/ replyTo[a] \in {"kept", "dropped"}

\* The oneshot is ready: it holds a reply, or its sender has gone without one.
Ready(a) == channel[a] = "full" \/ replyTo[a] = "dropped"

\* timeout polls the reply first ...
Receive(a) ==
    /\ asker[a] = "awaiting"
    /\ Ready(a)
    /\ Resolve(a, IF channel[a] = "full" THEN "ok" ELSE "no_reply")
    /\ channel' = [channel EXCEPT ![a] = "empty"]
    /\ UNCHANGED <<replyTo, logged, inTime, queue, responder>>

\* Variant: timeout looks at the clock first.
Whatever(a) == TRUE

\* Variant: the clock runs only once the request has been received.
PendingInTurn(a) == ~Ready(a) /\ replyTo[a] \notin {"queued", "slipped"}

Pending(a) == ~Ready(a)

\* ... and the deadline second: it may have passed once the reply is pending.
Expire(a) ==
    /\ asker[a] = "awaiting"
    /\ Pending(a)
    /\ asker' = [asker EXCEPT ![a] = "expired"]
    /\ UNCHANGED <<result, replyTo, replyVars, queue, responder>>

\* The awaited future is dropped, and the receiver with it.
GiveUp(a) ==
    /\ asker[a] = "expired"
    /\ Resolve(a, "timeout")
    /\ channel' = [channel EXCEPT ![a] = "empty"]
    /\ UNCHANGED <<replyTo, logged, inTime, queue, responder>>

-----------------------------------------------------------------------------
\* The responder, and whoever it has handed a ReplyTo to.

Take ==
    /\ responder = "running"
    /\ queue # <<>>
    /\ responder' = "turn"
    /\ queue' = Tail(queue)
    /\ replyTo' = [replyTo EXCEPT ![Head(queue)] = "turn"]
    /\ UNCHANGED <<askerVars, replyVars>>

\* ReplyTo::reply: without a receiver the reply is dropped and logged.
Reply(a) ==
    /\ replyTo[a] \in {"turn", "kept"}
    /\ replyTo' = [replyTo EXCEPT ![a] = "replied"]
    /\ IF asker[a] = "done"
       THEN logged' = logged \cup {a} /\ UNCHANGED <<channel, inTime>>
       ELSE /\ channel' = [channel EXCEPT ![a] = "full"]
            /\ inTime' = IF asker[a] = "awaiting" THEN inTime \cup {a} ELSE inTime
            /\ UNCHANGED logged
    /\ UNCHANGED <<askerVars, queue, responder>>

\* What receive has not answered it has kept, or dropped, as it must by failing.
EndTurn ==
    /\ responder = "turn"
    /\ responder' \in {"running", "terminate"}
    /\ \E place \in {"kept", "dropped"} :
         replyTo' = [a \in Asker |-> IF replyTo[a] = "turn" THEN place
                                     ELSE replyTo[a]]
    /\ UNCHANGED <<askerVars, replyVars, queue>>

\* A ReplyTo kept in the state, in the actor or in another task is dropped.
Drop(a) ==
    /\ replyTo[a] = "kept"
    /\ replyTo' = [replyTo EXCEPT ![a] = "dropped"]
    /\ UNCHANGED <<askerVars, replyVars, queue, responder>>

\* The parent stops the responder.
Stop ==
    /\ responder = "running"
    /\ responder' = "terminate"
    /\ UNCHANGED <<askerVars, replyTo, replyVars, queue>>

\* Variant: the queue is left to whoever holds the last reference.
DrainNothing == [a \in Asker |-> IF replyTo[a] = "queued" THEN "slipped"
                                 ELSE replyTo[a]]

DrainQueue == [a \in Asker |-> IF replyTo[a] = "queued" THEN "drained"
                               ELSE replyTo[a]]

Drain ==
    /\ responder = "terminate"
    /\ responder' = "drained"
    /\ queue' = <<>>
    /\ replyTo' = DrainQueue
    /\ UNCHANGED <<askerVars, replyVars>>

Disconnect ==
    /\ responder = "drained"
    /\ responder' = "gone"
    /\ UNCHANGED <<askerVars, replyTo, replyVars, queue>>

DropDrained(a) ==
    /\ responder = "gone"
    /\ replyTo[a] = "drained"
    /\ replyTo' = [replyTo EXCEPT ![a] = "dropped"]
    /\ UNCHANGED <<askerVars, replyVars, queue, responder>>

\* The last reference to the responder is dropped, and the channel with it.
DropChannel ==
    /\ responder = "gone"
    /\ \E a \in Asker : replyTo[a] = "slipped"
    /\ replyTo' = [a \in Asker |-> IF replyTo[a] = "slipped" THEN "dropped"
                                   ELSE replyTo[a]]
    /\ UNCHANGED <<askerVars, replyVars, queue, responder>>

Init ==
    /\ asker = [a \in Asker |-> "idle"]
    /\ result = [a \in Asker |-> "none"]
    /\ replyTo = [a \in Asker |-> "none"]
    /\ channel = [a \in Asker |-> "empty"]
    /\ logged = {}
    /\ inTime = {}
    /\ queue = <<>>
    /\ responder = "running"

Next ==
    \/ \E a \in Asker : Request(a) \/ Receive(a) \/ Expire(a) \/ GiveUp(a)
    \/ \E a \in Asker : Reply(a) \/ Drop(a) \/ DropDrained(a)
    \/ Take \/ EndTurn \/ Stop \/ Drain \/ Disconnect \/ DropChannel

Spec == Init /\ [][Next]_vars

\* Tasks that are ready are polled and turns end.  Nobody has to answer, to drop
\* a ReplyTo it keeps or to drop its last reference.
Fairness ==
    /\ \A a \in Asker : WF_vars(Receive(a) \/ GiveUp(a)) /\ WF_vars(DropDrained(a))
    /\ WF_vars(Take) /\ WF_vars(EndTurn) /\ WF_vars(Drain) /\ WF_vars(Disconnect)

FairSpec == Spec /\ Fairness

\* The clock runs, and a deadline that may expire does.
ClockRuns(a) == WF_vars(Expire(a))

-----------------------------------------------------------------------------
\* Properties.

\* Every variable has its type and the mailbox its bound.
AskTypeOK ==
    /\ asker \in [Asker -> {"idle", "awaiting", "expired", "done"}]
    /\ result \in [Asker -> {"none", "ok", "no_reply", "timeout", "full",
                             "terminated"}]
    /\ replyTo \in [Asker -> Alive \cup {"none", "replied", "dropped"}]
    /\ channel \in [Asker -> {"empty", "full"}]
    /\ logged \subseteq Asker
    /\ inTime \subseteq Asker
    /\ queue \in Seq(Asker)
    /\ Len(queue) <= Capacity
    /\ responder \in {"running", "turn", "terminate", "drained", "gone"}

\* NoReply is final: whoever is told so will never be answered, nobody holds the
\* ReplyTo anymore (ask.rs:50-52).
NoReplyIsFinal ==
    \A a \in Asker : result[a] = "no_reply" => replyTo[a] = "dropped"

\* A reply sent while the asker was still waiting is the one it gets, even if
\* the deadline passes before it is polled (actor_ref.rs:83-86).
InTimeIsReceived ==
    \A a \in inTime : asker[a] = "done" => result[a] = "ok"

\* A reply that comes too late is dropped and logged as a dead letter
\* (ask.rs:21-22, 55-56, actor_ref.rs:53-54).
LateReplyIsLogged ==
    \A a \in Asker :
        (result[a] = "timeout" /\ replyTo[a] = "replied") => a \in logged

\* An ask whose request is queued when the responder terminates resolves without
\* waiting for its deadline, whoever still holds references to the responder
\* (docs/actors.md:235-238).
QueuedAsksResolve ==
    \A a \in Asker :
        (replyTo[a] = "queued" /\ responder = "terminate") ~> asker[a] = "done"

\* If the clock runs every ask resolves, if only by its deadline: a request that
\* slips past the drain keeps its asker waiting no longer than that
\* (actor_ref.rs:50-54).
AskResolves ==
    \A a \in Asker :
        ClockRuns(a) => (asker[a] = "awaiting" ~> asker[a] = "done")
=============================================================================
