------------------------------ MODULE AskProofs ------------------------------
(***************************************************************************)
(* Theorems about Ask, for any number of askers and any capacity: what the   *)
(* outcome of an ask proves of its request and its reply.                   *)
(***************************************************************************)
EXTENDS Ask, SequenceTheorems, TLAPS

USE AskAssumption

\* A request is in the mailbox once, and nowhere else.
QueueInv ==
    /\ \A i \in DOMAIN queue : replyTo[queue[i]] = "queued"
    /\ \A i, j \in DOMAIN queue : queue[i] = queue[j] => i = j

\* Nothing is known of an ask before it resolves, and nothing has happened to its
\* request before it has been made.
AskerInv ==
    \A a \in Asker :
        /\ asker[a] = "idle" => replyTo[a] = "none"
        /\ asker[a] # "done" => result[a] = "none"

\* A reply in time is in the oneshot until the asker has received it.
InTimeInv ==
    \A a \in inTime :
        IF asker[a] = "done" THEN result[a] = "ok"
        ELSE asker[a] = "awaiting" /\ channel[a] = "full"

AskInv == AskTypeOK /\ QueueInv /\ AskerInv /\ InTimeInv /\ NoReplyIsFinal

-----------------------------------------------------------------------------
\* Lemma: the mailbox takes another request.
LEMMA QueuedOnce ==
    ASSUME AskTypeOK, QueueInv, NEW a \in Asker, replyTo[a] # "queued",
           queue' = Append(queue, a), replyTo' = [replyTo EXCEPT ![a] = "queued"]
    PROVE  QueueInv'
  <1>1. queue \in Seq(Asker)
    BY DEF AskTypeOK
  <1>2. /\ Len(queue') = Len(queue) + 1
        /\ \A i \in 1 .. Len(queue) : queue'[i] = queue[i]
        /\ queue'[Len(queue) + 1] = a
    BY <1>1, AppendProperties
  <1>3. \A i \in DOMAIN queue : queue[i] \in Asker /\ queue[i] # a
    BY <1>1 DEF QueueInv
  <1>4. DOMAIN queue = 1 .. Len(queue) /\ DOMAIN queue' = 1 .. Len(queue) + 1
    BY <1>1, <1>2
  <1> QED BY <1>1, <1>2, <1>3, <1>4 DEF QueueInv, AskTypeOK

\* Lemma: the next request is taken out of the mailbox.
LEMMA TakenOnce ==
    ASSUME AskTypeOK, QueueInv, queue # <<>>, queue' = Tail(queue),
           replyTo' = [replyTo EXCEPT ![Head(queue)] = "turn"]
    PROVE  QueueInv' /\ Head(queue) \in Asker /\ replyTo[Head(queue)] = "queued"
  <1>1. queue \in Seq(Asker)
    BY DEF AskTypeOK
  <1>2. /\ Head(queue) = queue[1] /\ 1 \in DOMAIN queue
        /\ DOMAIN queue = 1 .. Len(queue) /\ Len(queue) \in Nat
        /\ DOMAIN queue' = 1 .. Len(queue) - 1
        /\ \A i \in 1 .. Len(queue) - 1 : queue'[i] = queue[i + 1]
    BY <1>1, HeadTailProperties, EmptySeq, LenProperties
  <1>3. \A i \in DOMAIN queue : queue[i] \in Asker
    BY <1>1
  <1>4. \A i \in DOMAIN queue' :
          /\ i + 1 \in DOMAIN queue /\ queue'[i] = queue[i + 1]
          /\ queue[i + 1] # queue[1]
    BY <1>2 DEF QueueInv
  <1>5. \A i \in DOMAIN queue' : replyTo'[queue'[i]] = "queued"
    BY <1>2, <1>3, <1>4 DEF QueueInv, AskTypeOK
  <1>6. \A i, j \in DOMAIN queue' : queue'[i] = queue'[j] => i = j
    BY <1>2, <1>4 DEF QueueInv
  <1> QED BY <1>2, <1>3, <1>5, <1>6 DEF QueueInv

\* Lemma: what happens to requests that are not queued does not concern the queue.
LEMMA ElsewhereInQueue ==
    ASSUME QueueInv, queue' = queue,
           \A i \in DOMAIN queue : replyTo'[queue[i]] = replyTo[queue[i]]
    PROVE  QueueInv'
  BY DEF QueueInv

-----------------------------------------------------------------------------
\* Lemma: every step preserves the invariant.
LEMMA AskStep ==
    ASSUME AskInv, [Next]_vars
    PROVE  AskInv'
<1> USE DEF AskInv
<1>q. \A i \in DOMAIN queue : queue[i] \in Asker
  BY DEF AskTypeOK
<1>1. ASSUME NEW a \in Asker, Request(a) PROVE AskInv'
  <2>1. /\ asker[a] = "idle" /\ replyTo[a] = "none" /\ result[a] = "none"
        /\ UNCHANGED <<replyVars, responder>>
    BY <1>1 DEF Request, AskerInv
  <2>2. CASE \E outcome \in {"terminated", "full"} : Refused(a, outcome)
    <3>1. PICK outcome \in {"terminated", "full"} : Refused(a, outcome)
      BY <2>2
    <3>2. /\ asker' = [asker EXCEPT ![a] = "done"]
          /\ result' = [result EXCEPT ![a] = outcome]
          /\ replyTo' = [replyTo EXCEPT ![a] = "dropped"]
          /\ queue' = queue
      BY <3>1 DEF Refused, Resolve
    <3>3. AskTypeOK'
      BY <2>1, <3>2 DEF AskTypeOK, replyVars
    <3>4. QueueInv'
      BY <1>q, <2>1, <3>2, ElsewhereInQueue DEF AskTypeOK, QueueInv
    <3> QED
      BY <2>1, <3>2, <3>3, <3>4
      DEF AskTypeOK, AskerInv, InTimeInv, NoReplyIsFinal, replyVars
  <2>3. CASE Sent(a, "slipped") /\ UNCHANGED queue
    <3>1. /\ asker' = [asker EXCEPT ![a] = "awaiting"]
          /\ replyTo' = [replyTo EXCEPT ![a] = "slipped"]
          /\ queue' = queue /\ result' = result
      BY <2>3 DEF Sent
    <3>2. AskTypeOK'
      BY <2>1, <3>1 DEF AskTypeOK, replyVars, Alive
    <3>3. QueueInv'
      BY <1>q, <2>1, <3>1, ElsewhereInQueue DEF AskTypeOK, QueueInv
    <3> QED
      BY <2>1, <3>1, <3>2, <3>3
      DEF AskTypeOK, AskerInv, InTimeInv, NoReplyIsFinal, replyVars
  <2>4. CASE /\ responder # "drained" /\ ~Full
             /\ Sent(a, "queued") /\ queue' = Append(queue, a)
    <3>1. /\ asker' = [asker EXCEPT ![a] = "awaiting"]
          /\ replyTo' = [replyTo EXCEPT ![a] = "queued"]
          /\ result' = result
      BY <2>4 DEF Sent
    <3>2. queue' \in Seq(Asker) /\ Len(queue') <= Capacity
      BY <2>4, AppendProperties, LenProperties DEF Full, Held, AskTypeOK
    <3>3. AskTypeOK'
      BY <2>1, <3>1, <3>2 DEF AskTypeOK, replyVars, Alive
    <3>4. QueueInv'
      BY <2>1, <2>4, <3>1, QueuedOnce
    <3> QED
      BY <2>1, <3>1, <3>3, <3>4
      DEF AskTypeOK, AskerInv, InTimeInv, NoReplyIsFinal, replyVars
  <2>5. \/ \E outcome \in {"terminated", "full"} : Refused(a, outcome)
        \/ Sent(a, "slipped") /\ UNCHANGED queue
        \/ /\ responder # "drained" /\ ~Full
           /\ Sent(a, "queued") /\ queue' = Append(queue, a)
    <3>1. CASE responder = "gone"
      BY <1>1, <3>1 DEF Request
    <3>2. CASE responder = "drained"
      BY <1>1, <3>2 DEF Request
    <3>3. CASE responder \notin {"gone", "drained"}
      BY <1>1, <3>3 DEF Request
    <3> QED BY <3>1, <3>2, <3>3
  <2> QED BY <2>2, <2>3, <2>4, <2>5
<1>2. ASSUME NEW a \in Asker, Receive(a) PROVE AskInv'
  <2>1. /\ asker[a] = "awaiting"
        /\ asker' = [asker EXCEPT ![a] = "done"]
        /\ result' = [result EXCEPT ![a] =
                        IF channel[a] = "full" THEN "ok" ELSE "no_reply"]
        /\ channel' = [channel EXCEPT ![a] = "empty"]
        /\ UNCHANGED <<replyTo, logged, inTime, queue, responder>>
    BY <1>2 DEF Receive, Resolve
  <2>2. channel[a] = "full" \/ replyTo[a] = "dropped"
    BY <1>2 DEF Receive, Ready
  <2>3. AskTypeOK'
    BY <2>1 DEF AskTypeOK
  <2>4. QueueInv'
    BY <2>1 DEF QueueInv
  <2>5. AskerInv' /\ NoReplyIsFinal'
    BY <2>1, <2>2 DEF AskTypeOK, AskerInv, NoReplyIsFinal
  <2>6. InTimeInv'
    BY <2>1 DEF AskTypeOK, InTimeInv
  <2> QED BY <2>3, <2>4, <2>5, <2>6
<1>3. ASSUME NEW a \in Asker, Expire(a) PROVE AskInv'
  <2>1. a \notin inTime
    BY <1>3 DEF Expire, Pending, Ready, InTimeInv
  <2> QED
    BY <1>3, <2>1
    DEF Expire, AskTypeOK, QueueInv, AskerInv, InTimeInv, NoReplyIsFinal,
        replyVars
<1>4. ASSUME NEW a \in Asker, GiveUp(a) PROVE AskInv'
  <2>1. a \notin inTime
    BY <1>4 DEF GiveUp, InTimeInv
  <2> QED
    BY <1>4, <2>1
    DEF GiveUp, Resolve, AskTypeOK, QueueInv, AskerInv, InTimeInv,
        NoReplyIsFinal
<1>5. ASSUME Take PROVE AskInv'
  <2>1. /\ queue # <<>> /\ queue' = Tail(queue) /\ responder' = "turn"
        /\ replyTo' = [replyTo EXCEPT ![Head(queue)] = "turn"]
        /\ UNCHANGED <<askerVars, replyVars>>
    BY <1>5 DEF Take
  <2>2. /\ QueueInv'
        /\ Head(queue) \in Asker /\ replyTo[Head(queue)] = "queued"
    BY <2>1, TakenOnce
  <2>3. queue' \in Seq(Asker) /\ Len(queue') <= Capacity
    BY <2>1, HeadTailProperties, EmptySeq, LenProperties DEF AskTypeOK
  <2>4. AskTypeOK'
    BY <2>1, <2>2, <2>3 DEF AskTypeOK, askerVars, replyVars, Alive
  <2> QED
    BY <2>1, <2>2, <2>4
    DEF AskTypeOK, AskerInv, InTimeInv, NoReplyIsFinal, askerVars, replyVars
<1>6. ASSUME NEW a \in Asker, Reply(a) PROVE AskInv'
  <2>1. /\ replyTo[a] \in {"turn", "kept"}
        /\ replyTo' = [replyTo EXCEPT ![a] = "replied"]
        /\ UNCHANGED <<askerVars, queue, responder>>
    BY <1>6 DEF Reply
  <2>2. QueueInv'
    BY <1>q, <2>1, ElsewhereInQueue DEF AskTypeOK, QueueInv
  <2>3. AskTypeOK' /\ AskerInv' /\ NoReplyIsFinal'
    BY <1>6, <2>1
    DEF Reply, AskTypeOK, AskerInv, NoReplyIsFinal, askerVars, Alive
  <2>4. InTimeInv'
    BY <1>6, <2>1 DEF Reply, AskTypeOK, InTimeInv, askerVars
  <2> QED BY <2>2, <2>3, <2>4
<1>7. ASSUME UNCHANGED <<askerVars, replyVars>>,
             responder' \in {"running", "turn", "terminate", "drained", "gone"},
             QueueInv', queue' \in Seq(Asker), Len(queue') <= Capacity,
             replyTo' \in [Asker -> Alive \cup {"none", "replied", "dropped"}],
             \A a \in Asker : \/ replyTo'[a] = replyTo[a]
                              \/ replyTo[a] \in Alive
      PROVE  AskInv'
  <2>1. AskTypeOK'
    BY <1>7 DEF AskTypeOK, askerVars, replyVars
  <2>2. AskerInv' /\ NoReplyIsFinal'
    BY <1>7 DEF AskerInv, NoReplyIsFinal, askerVars, Alive
  <2>3. InTimeInv'
    BY <1>7 DEF InTimeInv, askerVars, replyVars
  <2> QED BY <1>7, <2>1, <2>2, <2>3
<1>8. CASE EndTurn
  <2>1. PICK place \in {"kept", "dropped"} :
          replyTo' = [a \in Asker |-> IF replyTo[a] = "turn" THEN place
                                      ELSE replyTo[a]]
    BY <1>8 DEF EndTurn
  <2>2. QueueInv'
    BY <1>8, <1>q, <2>1, ElsewhereInQueue DEF EndTurn, QueueInv
  <2> QED BY <1>7, <1>8, <2>1, <2>2 DEF EndTurn, AskTypeOK, Alive
<1>9. CASE \E a \in Asker : Drop(a)
  <2>1. PICK a \in Asker : Drop(a)
    BY <1>9
  <2>2. QueueInv'
    BY <1>q, <2>1, ElsewhereInQueue DEF Drop, QueueInv, AskTypeOK
  <2> QED BY <1>7, <2>1, <2>2 DEF Drop, AskTypeOK, Alive
<1>10. CASE Stop
  BY <1>7, <1>10 DEF Stop, AskTypeOK, QueueInv
<1>11. CASE Drain
  <2>1. QueueInv' /\ queue' \in Seq(Asker) /\ Len(queue') = 0
    BY <1>11, EmptySeq DEF Drain, QueueInv
  <2> QED
    BY <1>7, <1>11, <2>1 DEF Drain, DrainQueue, AskTypeOK, Alive
<1>12. CASE Disconnect
  BY <1>7, <1>12 DEF Disconnect, AskTypeOK, QueueInv
<1>13. CASE \E a \in Asker : DropDrained(a)
  <2>1. PICK a \in Asker : DropDrained(a)
    BY <1>13
  <2>2. QueueInv'
    BY <1>q, <2>1, ElsewhereInQueue DEF DropDrained, QueueInv, AskTypeOK
  <2> QED BY <1>7, <2>1, <2>2 DEF DropDrained, AskTypeOK, Alive
<1>14. CASE DropChannel
  <2>1. QueueInv'
    BY <1>14, <1>q, ElsewhereInQueue DEF DropChannel, QueueInv
  <2> QED BY <1>7, <1>14, <2>1 DEF DropChannel, AskTypeOK, Alive
<1>15. CASE UNCHANGED vars
  BY <1>7, <1>15 DEF vars, AskTypeOK, QueueInv
<1> QED
  BY <1>1, <1>2, <1>3, <1>4, <1>5, <1>6, <1>8, <1>9, <1>10, <1>11, <1>12,
     <1>13, <1>14, <1>15 DEF Next

(***************************************************************************)
(* The invariant of an ask: a request has one place, and its outcome agrees   *)
(* with it (actor_ref.rs:61-87, ask.rs).                                     *)
(***************************************************************************)
THEOREM AsksAreConsistent == Spec => []AskInv
<1>1. Init => AskInv
  <2> SUFFICES ASSUME Init PROVE AskInv
    OBVIOUS
  <2>1. queue \in Seq(Asker) /\ Len(queue) = 0
    BY EmptySeq DEF Init
  <2> QED
    BY <2>1
    DEF Init, AskInv, AskTypeOK, QueueInv, AskerInv, InTimeInv, NoReplyIsFinal,
        Alive
<1>2. AskInv /\ [Next]_vars => AskInv'
  BY AskStep
<1> QED BY <1>1, <1>2, PTL DEF Spec

\* Whatever becomes of a request, every variable of an ask keeps its type, and the
\* mailbox its bound.
THEOREM AskTypeCorrect == Spec => []AskTypeOK
  BY AsksAreConsistent, PTL DEF AskInv

\* Whoever is told that no reply will come is never answered (ask.rs:50-52).
THEOREM NoReplyProvesTheEnd == Spec => []NoReplyIsFinal
  BY AsksAreConsistent, PTL DEF AskInv

\* A reply sent in time is received, however late its asker is polled
\* (actor_ref.rs:83-86).
THEOREM RepliesInTimeCount == Spec => []InTimeIsReceived
<1>1. AskInv => InTimeIsReceived
  BY DEF AskInv, InTimeInv, InTimeIsReceived
<1> QED BY <1>1, AsksAreConsistent, PTL
=============================================================================
