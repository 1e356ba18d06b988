------------------------------ MODULE Mailbox ------------------------------
(***************************************************************************)
(* One bounded mailbox: senders on any thread, the quota in front of the    *)
(* channel (quota.rs) and the receiver, the actor's own task (mailbox.rs,   *)
(* terminate in actor_context.rs).  A send is two or three atomic steps on  *)
(* the count and the channel, a receive is two, closing the mailbox is two. *)
(* An unbounded mailbox is one whose Capacity is never reached.             *)
(*                                                                         *)
(* The count is read and written with Relaxed ordering.  Its updates are    *)
(* read-modify-writes and see the latest value; the load that finds the     *)
(* quota full may be older, but no older than what its thread has seen.     *)
(***************************************************************************)
EXTENDS Naturals, Sequences, FiniteSets

CONSTANTS
    Sender,    \* the threads that send
    Capacity,  \* MailboxCapacity::Bounded
    MaxSends   \* bound: sends, messages and signals, of each sender

ASSUME MailboxAssumption ==
    /\ IsFiniteSet(Sender)
    /\ Capacity \in Nat \ {0}
    /\ MaxSends \in Nat

VARIABLES
    count,      \* Quota's count
    channel,    \* the flume channel
    connected,  \* the receiver has not been dropped
    sending,    \* where each sender is in try_send_counted
    sent,       \* how many sends each sender has begun
    mayBeStale, \* a full count is among the values the sender may still load
    receiving,  \* where the receiver is
    held,       \* the message dequeued and not yet released
    delivered,  \* what recv has returned so far
    drained,    \* what terminate has drained
    late,       \* the sender's latest send began after the disconnection
    outcome     \* what that send has returned

senderVars == <<sending, sent, late, outcome>>
vars == <<count, channel, connected, senderVars, mayBeStale, receiving, held,
          delivered, drained>>

Item      == [kind : {"message", "signal"}, from : Sender, number : 1 .. MaxSends]
Message(s) == [kind |-> "message", from |-> s, number |-> sent[s]]
Signal(s)  == [kind |-> "signal", from |-> s, number |-> sent'[s]]

Messages(seq) == {i \in DOMAIN seq : seq[i].kind = "message"}

-----------------------------------------------------------------------------
\* Senders.

Begin(s) ==
    /\ sending[s] = "idle"
    /\ sent[s] < MaxSends
    /\ sent' = [sent EXCEPT ![s] = @ + 1]
    /\ late' = [late EXCEPT ![s] = ~connected]

Return(s, result) ==
    /\ sending' = [sending EXCEPT ![s] = "idle"]
    /\ outcome' = [outcome EXCEPT ![s] = result]

\* The count now has the given value: whoever has written it can load no older
\* one, and anybody else may load it for as long as they have not.
Count(value, s) ==
    /\ count' = value
    /\ mayBeStale' = IF value = Capacity THEN Sender ELSE mayBeStale \ {s}

\* Variant: one reservation too many.
HasRoom == count <= Capacity

HasCapacity == count < Capacity

\* Quota::reserve takes one of the places ...
Reserve(s) ==
    /\ Begin(s)
    /\ HasCapacity
    /\ Count(count + 1, s)
    /\ sending' = [sending EXCEPT ![s] = "reserved"]
    /\ outcome' = [outcome EXCEPT ![s] = "pending"]
    /\ UNCHANGED <<channel, connected, receiving, held, delivered, drained>>

\* ... or fails, on a count that is full or was when it was loaded.
ReserveFull(s) ==
    /\ Begin(s)
    /\ s \in mayBeStale
    /\ sending' = [sending EXCEPT ![s] = "full"]
    /\ outcome' = [outcome EXCEPT ![s] = "pending"]
    /\ UNCHANGED <<count, channel, connected, mayBeStale, receiving, held,
                   delivered, drained>>

\* The channel takes the message and commit leaves the place to the receiver.
Enqueue(s) ==
    /\ sending[s] = "reserved"
    /\ connected
    /\ channel' = Append(channel, Message(s))
    /\ Return(s, "ok")
    /\ UNCHANGED <<count, connected, sent, late, mayBeStale, receiving, held,
                   delivered, drained>>

\* The channel refuses it and the reservation is dropped ...
EnqueueFails(s) ==
    /\ sending[s] = "reserved"
    /\ ~connected
    /\ sending' = [sending EXCEPT ![s] = "failed"]
    /\ UNCHANGED <<count, channel, connected, sent, late, outcome, mayBeStale,
                   receiving, held, delivered, drained>>

\* Variant: a reservation whose send failed keeps its place.
Kept == count

Released == count - 1

\* ... which releases the place.
Release(s) ==
    /\ sending[s] = "failed"
    /\ Count(Released, s)
    /\ Return(s, "terminated")
    /\ UNCHANGED <<channel, connected, sent, late, receiving, held, delivered,
                   drained>>

\* Variant: a full quota is reported without looking at the channel.
ReportFull == "full"

\* A full quota never drains after termination, hence the second look.
FullOrTerminated == IF connected THEN "full" ELSE "terminated"

ReturnFull(s) ==
    /\ sending[s] = "full"
    /\ Return(s, FullOrTerminated)
    /\ UNCHANGED <<count, channel, connected, sent, late, mayBeStale, receiving,
                   held, delivered, drained>>

\* Variant: signals have a channel of their own, which is polled first.
Overtaking(item) == <<item>> \o channel

Behind(item) == Append(channel, item)

\* try_send_uncounted: straight into the channel.
SendSignal(s) ==
    /\ Begin(s)
    /\ channel' = IF connected THEN Behind(Signal(s)) ELSE channel
    /\ Return(s, IF connected THEN "ok" ELSE "terminated")
    /\ UNCHANGED <<count, connected, mayBeStale, receiving, held, delivered,
                   drained>>

-----------------------------------------------------------------------------
\* The receiver.

\* recv_async: a signal is delivered as it is, a message holds a place.
Dequeue ==
    /\ receiving = "running"
    /\ channel # <<>>
    /\ channel' = Tail(channel)
    /\ IF Head(channel).kind = "message"
       THEN /\ held' = <<Head(channel)>>
            /\ receiving' = "dequeued"
            /\ UNCHANGED delivered
       ELSE /\ delivered' = Append(delivered, Head(channel))
            /\ UNCHANGED <<held, receiving>>
    /\ UNCHANGED <<count, connected, senderVars, mayBeStale, drained>>

Unreserve ==
    /\ receiving = "dequeued"
    /\ count' = Released
    /\ receiving' = "running"
    /\ delivered' = delivered \o held
    /\ held' = <<>>
    /\ UNCHANGED <<channel, connected, senderVars, mayBeStale, drained>>

\* terminate: what is queued is moved out, its places are never released ...
Drain ==
    /\ receiving = "running"
    /\ receiving' = "drained"
    /\ drained' = channel
    /\ channel' = <<>>
    /\ UNCHANGED <<count, connected, senderVars, mayBeStale, held, delivered>>

\* ... and the receiver is dropped, with whatever has slipped in since.
Disconnect ==
    /\ receiving = "drained"
    /\ receiving' = "gone"
    /\ connected' = FALSE
    /\ UNCHANGED <<count, channel, senderVars, mayBeStale, held, delivered,
                   drained>>

Init ==
    /\ count = 0
    /\ channel = <<>>
    /\ connected = TRUE
    /\ sending = [s \in Sender |-> "idle"]
    /\ sent = [s \in Sender |-> 0]
    /\ late = [s \in Sender |-> FALSE]
    /\ outcome = [s \in Sender |-> "pending"]
    /\ mayBeStale = {}
    /\ receiving = "running"
    /\ held = <<>>
    /\ delivered = <<>>
    /\ drained = <<>>

SendStep(s) ==
    \/ Reserve(s)
    \/ ReserveFull(s)
    \/ Enqueue(s)
    \/ EnqueueFails(s)
    \/ Release(s)
    \/ ReturnFull(s)
    \/ SendSignal(s)

Next ==
    \/ \E s \in Sender : SendStep(s)
    \/ Dequeue \/ Unreserve \/ Drain \/ Disconnect

Spec == Init /\ [][Next]_vars

-----------------------------------------------------------------------------
\* Properties.

\* Every variable has its type; the count is bounded by CountExact below.
TypeOK ==
    /\ count \in 0 .. Capacity
    /\ channel \in Seq(Item)
    /\ connected \in BOOLEAN
    /\ sending \in [Sender -> {"idle", "reserved", "failed", "full"}]
    /\ sent \in [Sender -> 0 .. MaxSends]
    /\ late \in [Sender -> BOOLEAN]
    /\ outcome \in [Sender -> {"pending", "ok", "full", "terminated"}]
    /\ mayBeStale \subseteq Sender
    /\ receiving \in {"running", "dequeued", "drained", "gone"}
    /\ held \in Seq(Item)
    /\ delivered \in Seq(Item)
    /\ drained \in Seq(Item)

\* The senders that hold a reservation
Reserving == {s \in Sender : sending[s] \in {"reserved", "failed"}}

\* Every place that is taken is accounted for: by a send under way, by a message
\* queued or just dequeued, or by one that was drained.  Hence the count neither
\* leaks capacity nor underflows, and never exceeds the capacity (quota.rs:66-70).
CountExact ==
    count = Cardinality(Reserving) + Cardinality(Messages(channel))
          + Cardinality(Messages(held)) + Cardinality(Messages(drained))

\* Messages and signals of one sender stay in the order they were sent in, from
\* the send to recv: a signal bypasses the quota, not the queue (mailbox.rs:30-31).
InOrder ==
    LET all == delivered \o held \o drained \o channel IN
    \A i, j \in DOMAIN all :
        i < j /\ all[i].from = all[j].from => all[i].number < all[j].number

\* Whoever sends after the actor has disconnected its mailbox is told that it has
\* terminated, and never that the mailbox is full or that the message was taken
\* (quota.rs:31-32).
LateIsTerminated ==
    \A s \in Sender : late[s] => outcome[s] \in {"pending", "terminated"}

\* What the rest of the runtime, and the module Actors, makes of it: a queue with
\* one atomic step per send, receive and close.  A message that slips in between
\* drain and disconnect counts as refused (actor_context.rs:351-355).
Atomic == INSTANCE AtomicMailbox WITH
    open     <- receiving \in {"running", "dequeued"},
    queue    <- IF receiving \in {"running", "dequeued"} THEN held \o channel
                ELSE <<>>,
    received <- delivered

ImplementsAtomic == Atomic!Spec
=============================================================================
