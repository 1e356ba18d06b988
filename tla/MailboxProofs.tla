--------------------------- MODULE MailboxProofs ---------------------------
(***************************************************************************)
(* Theorems about Mailbox, for any number of senders and any capacity: the   *)
(* count is exact, and quota and channel implement an atomic queue.          *)
(***************************************************************************)
EXTENDS Mailbox, FiniteSetTheorems, FunctionTheorems, SequenceTheorems, TLAPS

USE MailboxAssumption

\* The places that the messages of a sequence hold
Places(seq) == Cardinality(Messages(seq))

-----------------------------------------------------------------------------
\* Lemmas on sequences of messages and signals.

LEMMA PlacesType ==
    ASSUME NEW seq \in Seq(Item)
    PROVE  IsFiniteSet(Messages(seq)) /\ Places(seq) \in Nat
  <1>1. Len(seq) \in Nat /\ Messages(seq) \in SUBSET (1 .. Len(seq))
    BY LenProperties DEF Messages
  <1>2. IsFiniteSet(1 .. Len(seq))
    BY <1>1, FS_Interval
  <1>3. IsFiniteSet(Messages(seq))
    BY <1>1, <1>2, FS_Subset
  <1> QED BY <1>3, FS_CardinalityType DEF Places

LEMMA PlacesNone == Places(<<>>) = 0
  <1>1. Messages(<<>>) = {}
    BY DEF Messages
  <1> QED BY <1>1, FS_EmptySet DEF Places

LEMMA PlacesAppend ==
    ASSUME NEW seq \in Seq(Item), NEW item \in Item
    PROVE  Places(Append(seq, item)) =
             IF item.kind = "message" THEN Places(seq) + 1 ELSE Places(seq)
  <1> DEFINE n == Len(seq) + 1
  <1>1. /\ DOMAIN Append(seq, item) = 1 .. n /\ DOMAIN seq = 1 .. Len(seq)
        /\ Len(seq) \in Nat /\ Append(seq, item)[n] = item
        /\ \A i \in 1 .. Len(seq) : Append(seq, item)[i] = seq[i]
    BY AppendProperties, LenProperties
  <1>2. n \notin Messages(seq)
    BY <1>1 DEF Messages
  <1>3. CASE item.kind = "message"
    <2>1. Messages(Append(seq, item)) = Messages(seq) \cup {n}
      BY <1>1, <1>3 DEF Messages
    <2> QED BY <1>2, <1>3, <2>1, PlacesType, FS_AddElement DEF Places
  <1>4. CASE item.kind # "message"
    <2>1. Messages(Append(seq, item)) = Messages(seq)
      BY <1>1, <1>4 DEF Messages
    <2> QED BY <1>4, <2>1 DEF Places
  <1> QED BY <1>3, <1>4

LEMMA PlacesTail ==
    ASSUME NEW seq \in Seq(Item), seq # <<>>
    PROVE  Places(seq) =
             IF Head(seq).kind = "message" THEN Places(Tail(seq)) + 1
             ELSE Places(Tail(seq))
  <1> DEFINE S == Messages(Tail(seq))
             T == Messages(seq) \ {1}
             shift == [i \in S |-> i + 1]
  <1>1. /\ Tail(seq) \in Seq(Item) /\ Head(seq) = seq[1]
        /\ Len(seq) \in Nat \ {0} /\ DOMAIN seq = 1 .. Len(seq)
        /\ DOMAIN Tail(seq) = 1 .. Len(seq) - 1
        /\ \A i \in 1 .. Len(seq) - 1 : Tail(seq)[i] = seq[i + 1]
    BY HeadTailProperties, LenProperties, EmptySeq
  <1>2. shift \in [S -> T]
    BY <1>1 DEF Messages
  <1>3. \A i, j \in S : shift[i] = shift[j] => i = j
    BY <1>1 DEF Messages
  <1>4. \A k \in T : k - 1 \in S /\ shift[k - 1] = k
    BY <1>1 DEF Messages
  <1>5. shift \in Bijection(S, T)
    BY <1>2, <1>3, <1>4, Fun_IsBij
  <1>6. Cardinality(S) = Cardinality(T)
    BY <1>1, <1>5, PlacesType, FS_Bijection DEF ExistsBijection
  <1>7. 1 \in Messages(seq) <=> Head(seq).kind = "message"
    BY <1>1 DEF Messages
  <1>8. /\ IsFiniteSet(Messages(seq)) /\ Cardinality(Messages(seq)) \in Nat
        /\ IsFiniteSet(S) /\ Cardinality(S) \in Nat
    BY <1>1, PlacesType DEF Places
  <1>9. Cardinality(T) =
          IF 1 \in Messages(seq) THEN Cardinality(Messages(seq)) - 1
          ELSE Cardinality(Messages(seq))
    BY <1>8, FS_RemoveElement
  <1> QED
    BY <1>6, <1>7, <1>8, <1>9 DEF Places

LEMMA PlacesOne ==
    ASSUME NEW m \in Item, m.kind = "message"
    PROVE  Places(<<m>>) = 1
  <1>1. Messages(<<m>>) = {1}
    BY DEF Messages
  <1> QED BY <1>1, FS_Singleton DEF Places

LEMMA AppendBehind ==
    ASSUME NEW s \in Seq(Item), NEW t \in Seq(Item), NEW item \in Item
    PROVE  s \o Append(t, item) = Append(s \o t, item)
  <1>1. Append(t, item) = t \o <<item>> /\ <<item>> \in Seq(Item)
    BY AppendIsConcat
  <1>2. s \o t \in Seq(Item)
    BY ConcatProperties
  <1>3. Append(s \o t, item) = (s \o t) \o <<item>>
    BY <1>2, AppendIsConcat
  <1> QED BY <1>1, <1>3, ConcatAssociative

LEMMA HeadMoves ==
    ASSUME NEW s \in Seq(Item), NEW t \in Seq(Item), t # <<>>
    PROVE  Append(s, Head(t)) \o Tail(t) = s \o t
  <1>1. /\ Head(t) \in Item /\ Tail(t) \in Seq(Item) /\ Head(t) = t[1]
        /\ Len(Tail(t)) = Len(t) - 1 /\ Len(t) \in Nat \ {0} /\ Len(s) \in Nat
        /\ \A i \in 1 .. Len(t) - 1 : Tail(t)[i] = t[i + 1]
    BY HeadTailProperties, EmptySeq, LenProperties
  <1>2. /\ Append(s, Head(t)) \in Seq(Item)
        /\ Len(Append(s, Head(t))) = Len(s) + 1
        /\ \A i \in 1 .. Len(s) : Append(s, Head(t))[i] = s[i]
        /\ Append(s, Head(t))[Len(s) + 1] = t[1]
    BY <1>1, AppendProperties
  <1> DEFINE l == Append(s, Head(t)) \o Tail(t)
             r == s \o t
  <1>3. /\ l \in Seq(Item) /\ Len(l) = Len(s) + Len(t)
        /\ \A i \in 1 .. Len(s) + Len(t) :
             l[i] = IF i <= Len(s) + 1 THEN Append(s, Head(t))[i]
                    ELSE Tail(t)[i - (Len(s) + 1)]
    <2> HIDE DEF l
    <2>1. Len(Append(s, Head(t))) + Len(Tail(t)) = Len(s) + Len(t)
      BY <1>1, <1>2
    <2>2. /\ l \in Seq(Item) /\ Len(l) = Len(s) + Len(t)
          /\ \A i \in 1 .. Len(s) + Len(t) :
               l[i] = IF i <= Len(Append(s, Head(t))) THEN Append(s, Head(t))[i]
                      ELSE Tail(t)[i - Len(Append(s, Head(t)))]
      BY <1>1, <1>2, <2>1, ConcatProperties DEF l
    <2> QED BY <1>2, <2>2
  <1>4. /\ r \in Seq(Item) /\ Len(r) = Len(s) + Len(t)
        /\ \A i \in 1 .. Len(s) + Len(t) :
             r[i] = IF i <= Len(s) THEN s[i] ELSE t[i - Len(s)]
    BY ConcatProperties
  <1> HIDE DEF l, r
  <1>5. \A i \in 1 .. Len(l) : l[i] = r[i]
    <2> TAKE i \in 1 .. Len(l)
    <2>1. CASE i <= Len(s)
      BY <1>1, <1>2, <1>3, <1>4, <2>1
    <2>2. CASE i = Len(s) + 1
      BY <1>1, <1>2, <1>3, <1>4, <2>2
    <2>3. CASE i > Len(s) + 1
      <3>1. i - (Len(s) + 1) \in 1 .. Len(t) - 1
        BY <1>1, <1>3, <2>3
      <3>2. i - (Len(s) + 1) + 1 = i - Len(s)
        BY <1>1, <1>3
      <3> QED BY <1>1, <1>3, <1>4, <2>3, <3>1, <3>2
    <2> QED BY <1>1, <1>3, <2>1, <2>2, <2>3
  <1>6. l = r
    BY <1>3, <1>4, <1>5, SeqEqual
  <1> QED BY <1>6 DEF l, r

-----------------------------------------------------------------------------
\* The count is exact.

\* What the receiver holds at each of its points, and what a sender knows of its
\* latest send
Shape ==
    /\ receiving = "dequeued" =>
         \E m \in Item : m.kind = "message" /\ held = <<m>>
    /\ receiving # "dequeued" => held = <<>>
    /\ receiving \in {"running", "dequeued"} => drained = <<>>
    /\ connected <=> receiving # "gone"
    /\ \A s \in Sender : sending[s] \in {"reserved", "failed"} => sent[s] >= 1
    /\ \A s \in Sender : late[s] => ~connected

MailboxInv == TypeOK /\ CountExact /\ Shape

\* Reserving and the places of the three sequences are finite.
LEMMA Terms ==
    ASSUME TypeOK
    PROVE  /\ IsFiniteSet(Reserving) /\ Cardinality(Reserving) \in Nat
           /\ Places(channel) \in Nat /\ Places(held) \in Nat
           /\ Places(drained) \in Nat
  <1>1. Reserving \in SUBSET Sender
    BY DEF Reserving
  <1>2. IsFiniteSet(Reserving)
    BY <1>1, FS_Subset, MailboxAssumption DEF MailboxAssumption
  <1> QED
    BY <1>2, FS_CardinalityType, PlacesType DEF TypeOK

\* A sender that reserves or gives up its reservation counts by one.
LEMMA OneMore ==
    ASSUME TypeOK, NEW s \in Sender, sending[s] = "idle",
           sending' = [sending EXCEPT ![s] = "reserved"]
    PROVE  Cardinality(Reserving') = Cardinality(Reserving) + 1
  <1>1. s \notin Reserving /\ Reserving' = Reserving \cup {s}
    BY DEF Reserving, TypeOK
  <1> QED BY <1>1, Terms, FS_AddElement

LEMMA OneLess ==
    ASSUME TypeOK, NEW s \in Sender, sending[s] \in {"reserved", "failed"},
           sending' = [sending EXCEPT ![s] = "idle"]
    PROVE  /\ Cardinality(Reserving') = Cardinality(Reserving) - 1
           /\ Cardinality(Reserving) >= 1
  <1>1. s \in Reserving /\ Reserving' = Reserving \ {s}
    BY DEF Reserving, TypeOK
  <1>2. Cardinality(Reserving') = Cardinality(Reserving) - 1
    BY <1>1, Terms, FS_RemoveElement
  <1>3. IsFiniteSet(Reserving')
    BY <1>1, Terms, FS_RemoveElement
  <1>4. Cardinality(Reserving') \in Nat
    BY <1>3, FS_CardinalityType
  <1> QED BY <1>2, <1>4, Terms

LEMMA SameReserving ==
    ASSUME TypeOK, NEW s \in Sender, NEW old, NEW new, sending[s] = old,
           sending' = [sending EXCEPT ![s] = new],
           old \in {"reserved", "failed"} <=> new \in {"reserved", "failed"}
    PROVE  Reserving' = Reserving
  BY DEF Reserving, TypeOK

LEMMA InitInv == Init => MailboxInv
  <1> SUFFICES ASSUME Init PROVE MailboxInv
    OBVIOUS
  <1>1. Reserving = {}
    BY DEF Init, Reserving
  <1>2. CountExact
    BY <1>1, FS_EmptySet, PlacesNone DEF Init, CountExact, Places
  <1>3. TypeOK /\ Shape
    BY EmptySeq, MailboxAssumption DEF Init, TypeOK, Shape, MailboxAssumption
  <1> QED BY <1>2, <1>3 DEF MailboxInv

\* A place is taken: the compare-and-swap has seen that there is one.
LEMMA ReserveStep ==
    ASSUME MailboxInv, NEW s \in Sender, Reserve(s)
    PROVE  MailboxInv'
  <1>1. Cardinality(Reserving') = Cardinality(Reserving) + 1
    BY OneMore DEF MailboxInv, Reserve, Begin
  <1>2. count' = count + 1 /\ UNCHANGED <<channel, held, drained>>
    BY DEF Reserve, Count
  <1>3. CountExact'
    BY <1>1, <1>2, Terms DEF MailboxInv, CountExact, Places, Messages
  <1>4. TypeOK'
    BY MailboxAssumption
    DEF MailboxInv, TypeOK, Reserve, Begin, Count, HasCapacity, MailboxAssumption
  <1>5. Shape'
    BY DEF MailboxInv, TypeOK, Shape, Reserve, Begin
  <1> QED BY <1>3, <1>4, <1>5 DEF MailboxInv

LEMMA ReserveFullStep ==
    ASSUME MailboxInv, NEW s \in Sender, ReserveFull(s)
    PROVE  MailboxInv'
  <1>1. Reserving' = Reserving
    BY SameReserving DEF MailboxInv, ReserveFull, Begin
  <1>2. CountExact'
    BY <1>1 DEF MailboxInv, CountExact, ReserveFull, Messages
  <1>3. TypeOK'
    BY MailboxAssumption
    DEF MailboxInv, TypeOK, ReserveFull, Begin, MailboxAssumption
  <1>4. Shape'
    BY DEF MailboxInv, TypeOK, Shape, ReserveFull, Begin
  <1> QED BY <1>2, <1>3, <1>4 DEF MailboxInv

\* The place passes from the sender to the message.
LEMMA EnqueueStep ==
    ASSUME MailboxInv, NEW s \in Sender, Enqueue(s)
    PROVE  MailboxInv'
  <1>1. /\ Cardinality(Reserving') = Cardinality(Reserving) - 1
        /\ Cardinality(Reserving) >= 1
    BY OneLess DEF MailboxInv, Enqueue, Return
  <1>2. Message(s) \in Item
    BY MailboxAssumption
    DEF MailboxInv, TypeOK, Shape, Enqueue, Message, Item, MailboxAssumption
  <1>3. Places(channel') = Places(channel) + 1
    BY <1>2, PlacesAppend DEF MailboxInv, TypeOK, Enqueue, Message
  <1>4. CountExact'
    <2>1. UNCHANGED <<count, held, drained>>
      BY DEF Enqueue
    <2> QED
      BY <1>1, <1>3, <2>1, Terms DEF MailboxInv, CountExact, Places, Messages
  <1>5. TypeOK'
    BY <1>2, AppendProperties DEF MailboxInv, TypeOK, Enqueue, Return
  <1>6. Shape'
    BY DEF MailboxInv, TypeOK, Shape, Enqueue, Return
  <1> QED BY <1>4, <1>5, <1>6 DEF MailboxInv

LEMMA EnqueueFailsStep ==
    ASSUME MailboxInv, NEW s \in Sender, EnqueueFails(s)
    PROVE  MailboxInv'
  <1>1. Reserving' = Reserving
    BY SameReserving DEF MailboxInv, EnqueueFails
  <1>2. CountExact'
    BY <1>1 DEF MailboxInv, CountExact, EnqueueFails, Messages
  <1>3. TypeOK' /\ Shape'
    BY DEF MailboxInv, TypeOK, Shape, EnqueueFails
  <1> QED BY <1>2, <1>3 DEF MailboxInv

\* The place is given back: there is one to give back.
LEMMA ReleaseStep ==
    ASSUME MailboxInv, NEW s \in Sender, Release(s)
    PROVE  MailboxInv'
  <1>1. /\ Cardinality(Reserving') = Cardinality(Reserving) - 1
        /\ Cardinality(Reserving) >= 1
    BY OneLess DEF MailboxInv, Release, Return
  <1>2. count' = count - 1 /\ UNCHANGED <<channel, held, drained>>
    BY DEF Release, Count, Released
  <1>3. CountExact' /\ count >= 1
    BY <1>1, <1>2, Terms DEF MailboxInv, CountExact, Places, Messages
  <1>4. TypeOK'
    BY <1>3, MailboxAssumption
    DEF MailboxInv, TypeOK, Release, Return, Count, Released, MailboxAssumption
  <1>5. Shape'
    BY DEF MailboxInv, TypeOK, Shape, Release, Return
  <1> QED BY <1>3, <1>4, <1>5 DEF MailboxInv

LEMMA ReturnFullStep ==
    ASSUME MailboxInv, NEW s \in Sender, ReturnFull(s)
    PROVE  MailboxInv'
  <1>1. Reserving' = Reserving
    BY SameReserving DEF MailboxInv, ReturnFull, Return
  <1>2. CountExact'
    BY <1>1 DEF MailboxInv, CountExact, ReturnFull, Messages
  <1>3. TypeOK' /\ Shape'
    BY DEF MailboxInv, TypeOK, Shape, ReturnFull, Return, FullOrTerminated
  <1> QED BY <1>2, <1>3 DEF MailboxInv

\* Signals bypass the quota.
LEMMA SendSignalStep ==
    ASSUME MailboxInv, NEW s \in Sender, SendSignal(s)
    PROVE  MailboxInv'
  <1>1. Reserving' = Reserving
    BY SameReserving DEF MailboxInv, SendSignal, Begin, Return
  <1>2. Signal(s) \in Item /\ Signal(s).kind = "signal"
    BY MailboxAssumption
    DEF MailboxInv, TypeOK, SendSignal, Begin, Signal, Item, MailboxAssumption
  <1>3. Places(channel') = Places(channel) /\ channel' \in Seq(Item)
    <2>1. CASE connected
      BY <1>2, <2>1, PlacesAppend, AppendProperties
      DEF MailboxInv, TypeOK, SendSignal, Behind
    <2>2. CASE ~connected
      BY <2>2 DEF MailboxInv, TypeOK, SendSignal
    <2> QED BY <2>1, <2>2
  <1>4. CountExact'
    BY <1>1, <1>3 DEF MailboxInv, CountExact, Places, SendSignal, Messages
  <1>5. TypeOK'
    BY <1>3, MailboxAssumption
    DEF MailboxInv, TypeOK, SendSignal, Begin, Return, MailboxAssumption
  <1>6. Shape'
    BY DEF MailboxInv, TypeOK, Shape, SendSignal, Begin, Return
  <1> QED BY <1>4, <1>5, <1>6 DEF MailboxInv

\* The place stays with the message that the receiver now holds.
LEMMA DequeueStep ==
    ASSUME MailboxInv, Dequeue
    PROVE  MailboxInv'
  <1>1. Head(channel) \in Item /\ channel' \in Seq(Item)
    BY HeadTailProperties DEF MailboxInv, TypeOK, Dequeue
  <1>2. Reserving' = Reserving
    BY DEF Reserving, Dequeue, senderVars
  <1>3. Places(channel) =
          IF Head(channel).kind = "message" THEN Places(channel') + 1
          ELSE Places(channel')
    BY PlacesTail DEF MailboxInv, TypeOK, Dequeue
  <1>4. Places(channel') \in Nat
    BY <1>1, PlacesType
  <1>5. CASE Head(channel).kind = "message"
    <2>1. /\ held = <<>> /\ held' = <<Head(channel)>> /\ receiving' = "dequeued"
          /\ UNCHANGED <<count, connected, sending, sent, late, outcome,
                         mayBeStale, drained, delivered>>
          /\ drained = <<>> /\ receiving = "running"
      BY <1>5 DEF MailboxInv, Shape, Dequeue, senderVars
    <2>2. Places(held) = 0 /\ Places(held') = 1
      BY <1>1, <1>5, <2>1, PlacesNone, PlacesOne
    <2>3. CountExact'
      BY <1>2, <1>3, <1>4, <1>5, <2>1, <2>2, Terms
      DEF MailboxInv, CountExact, Places, Messages
    <2>4. held' \in Seq(Item)
      BY <1>1, <2>1
    <2>5. TypeOK'
      BY <1>1, <2>1, <2>4 DEF MailboxInv, TypeOK
    <2>6. Shape'
      BY <1>1, <1>5, <2>1 DEF MailboxInv, Shape
    <2> QED BY <2>3, <2>5, <2>6 DEF MailboxInv
  <1>6. CASE Head(channel).kind # "message"
    <2>1. /\ delivered' = Append(delivered, Head(channel))
          /\ UNCHANGED <<count, connected, sending, sent, late, outcome,
                         mayBeStale, drained, held, receiving>>
      BY <1>6 DEF Dequeue, senderVars
    <2>2. CountExact'
      BY <1>2, <1>3, <1>4, <1>6, <2>1 DEF MailboxInv, CountExact, Places, Messages
    <2>3. TypeOK'
      BY <1>1, <2>1, AppendProperties DEF MailboxInv, TypeOK
    <2>4. Shape'
      BY <2>1 DEF MailboxInv, Shape
    <2> QED BY <2>2, <2>3, <2>4 DEF MailboxInv
  <1> QED BY <1>5, <1>6

LEMMA UnreserveStep ==
    ASSUME MailboxInv, Unreserve
    PROVE  MailboxInv'
  <1>1. PICK m \in Item : m.kind = "message" /\ held = <<m>>
    BY DEF MailboxInv, Shape, Unreserve
  <1>2. Reserving' = Reserving
    BY DEF Reserving, Unreserve, senderVars
  <1>3. Places(held) = 1 /\ Places(held') = 0
    BY <1>1, PlacesOne, PlacesNone DEF Unreserve
  <1>4. count' = count - 1 /\ UNCHANGED <<channel, drained>>
    BY DEF Unreserve, Released
  <1>5. CountExact' /\ count >= 1
    BY <1>2, <1>3, <1>4, Terms DEF MailboxInv, CountExact, Places, Messages
  <1>6. held' \in Seq(Item) /\ delivered' \in Seq(Item)
    BY ConcatProperties, EmptySeq DEF MailboxInv, TypeOK, Unreserve
  <1>7. TypeOK'
    BY <1>4, <1>5, <1>6, MailboxAssumption
    DEF MailboxInv, TypeOK, Unreserve, senderVars, MailboxAssumption
  <1>8. Shape'
    BY DEF MailboxInv, Shape, Unreserve, senderVars
  <1> QED BY <1>5, <1>7, <1>8 DEF MailboxInv

\* What is drained keeps its places.
LEMMA DrainStep ==
    ASSUME MailboxInv, Drain
    PROVE  MailboxInv'
  <1>1. Reserving' = Reserving
    BY DEF Reserving, Drain, senderVars
  <1>2. /\ drained = <<>> /\ drained' = channel /\ channel' = <<>>
        /\ UNCHANGED <<count, held>>
    BY DEF MailboxInv, Shape, Drain
  <1>3. CountExact'
    BY <1>1, <1>2, PlacesNone, Terms DEF MailboxInv, CountExact, Places, Messages
  <1>4. TypeOK'
    BY <1>2, EmptySeq DEF MailboxInv, TypeOK, Drain, senderVars
  <1>5. Shape'
    BY DEF MailboxInv, Shape, Drain, senderVars
  <1> QED BY <1>3, <1>4, <1>5 DEF MailboxInv

LEMMA DisconnectStep ==
    ASSUME MailboxInv, Disconnect
    PROVE  MailboxInv'
  <1>1. Reserving' = Reserving
    BY DEF Reserving, Disconnect, senderVars
  <1>2. CountExact'
    BY <1>1 DEF MailboxInv, CountExact, Disconnect, Messages
  <1>3. TypeOK' /\ Shape'
    BY DEF MailboxInv, TypeOK, Shape, Disconnect, senderVars
  <1> QED BY <1>2, <1>3 DEF MailboxInv

LEMMA StutterStep ==
    ASSUME MailboxInv, UNCHANGED vars
    PROVE  MailboxInv'
  BY DEF MailboxInv, TypeOK, CountExact, Shape, Reserving, Messages, vars, senderVars

LEMMA StepInv == MailboxInv /\ [Next]_vars => MailboxInv'
  <1> SUFFICES ASSUME MailboxInv, [Next]_vars PROVE MailboxInv'
    OBVIOUS
  <1>1. ASSUME NEW s \in Sender, SendStep(s) PROVE MailboxInv'
    BY <1>1, ReserveStep, ReserveFullStep, EnqueueStep, EnqueueFailsStep,
       ReleaseStep, ReturnFullStep, SendSignalStep DEF SendStep
  <1>2. CASE Dequeue \/ Unreserve \/ Drain \/ Disconnect
    BY <1>2, DequeueStep, UnreserveStep, DrainStep, DisconnectStep
  <1>3. CASE UNCHANGED vars
    BY <1>3, StutterStep
  <1> QED BY <1>1, <1>2, <1>3 DEF Next

\* The count, the channel and the receiver always fit together.
THEOREM MailboxIsConsistent == Spec => []MailboxInv
  BY InitInv, StepInv, PTL DEF Spec

\* The types; in particular the count is never negative nor over the capacity,
\* neither of which quota.rs checks when it releases a place.
THEOREM MailboxTypeCorrect == Spec => []TypeOK
  <1>1. MailboxInv => TypeOK
    BY DEF MailboxInv
  <1> QED BY <1>1, MailboxIsConsistent, PTL

\* No place leaks and none is given back twice, however sends, receives and the
\* closing of the mailbox interleave.
THEOREM CountIsExact == Spec => []CountExact
  <1>1. MailboxInv => CountExact
    BY DEF MailboxInv
  <1> QED BY <1>1, MailboxIsConsistent, PTL

\* A send that begins after the receiver is gone is told so: it cannot reserve
\* and enqueue, and the second look at a full quota finds the channel closed.
THEOREM LateSendsAreRefused == Spec => []LateIsTerminated
  <1>1. Init => LateIsTerminated
    BY DEF Init, LateIsTerminated
  <1>2. MailboxInv /\ LateIsTerminated /\ [Next]_vars => LateIsTerminated'
    <2> SUFFICES ASSUME MailboxInv, LateIsTerminated, [Next]_vars,
                        NEW s \in Sender, late'[s]
                 PROVE  outcome'[s] \in {"pending", "terminated"}
      BY DEF LateIsTerminated
    <2>1. ASSUME NEW t \in Sender, SendStep(t)
          PROVE  outcome'[s] \in {"pending", "terminated"}
      BY <2>1 DEF MailboxInv, TypeOK, Shape, LateIsTerminated, SendStep, Reserve,
        ReserveFull, Enqueue, EnqueueFails, Release, ReturnFull, SendSignal,
        Begin, Return, FullOrTerminated
    <2>2. CASE Dequeue \/ Unreserve \/ Drain \/ Disconnect \/ UNCHANGED vars
      BY <2>2 DEF LateIsTerminated, Dequeue, Unreserve, Drain, Disconnect, vars,
        senderVars
    <2> QED BY <2>1, <2>2 DEF Next
  <1> QED BY <1>1, <1>2, MailboxIsConsistent, PTL DEF Spec
-----------------------------------------------------------------------------
\* Quota and channel are an atomic queue.

Queue    == IF receiving \in {"running", "dequeued"} THEN held \o channel ELSE <<>>
IsOpen   == receiving \in {"running", "dequeued"}

\* The messages queued and those reserved fit into the capacity.
LEMMA RoomInQueue ==
    ASSUME MailboxInv, IsOpen
    PROVE  Cardinality(Reserving) + Places(Queue) <= Capacity
  <1>1. /\ Places(Queue) = Places(held) + Places(channel) /\ drained = <<>>
    <2>1. CASE receiving = "running"
      <3>1. held = <<>> /\ drained = <<>> /\ channel \in Seq(Item)
        BY <2>1 DEF MailboxInv, Shape, TypeOK
      <3>2. Queue = channel
        BY <2>1, <3>1, ConcatEmptySeq DEF Queue
      <3> QED BY <3>1, <3>2, PlacesNone, PlacesType
    <2>2. CASE receiving = "dequeued"
      <3>1. /\ drained = <<>> /\ channel \in Seq(Item)
            /\ \E m \in Item : m.kind = "message" /\ held = <<m>>
        BY <2>2 DEF MailboxInv, Shape, TypeOK
      <3>2. PICK m \in Item : m.kind = "message" /\ held = <<m>>
        BY <3>1
      <3>3. <<m>> \o channel \in Seq(Item) /\ <<m>> \o channel # <<>>
        <4>1. <<m>> \in Seq(Item) /\ <<m>> # <<>>
          OBVIOUS
        <4> QED BY <3>1, <4>1, ConcatProperties, ConcatSimplifications!concIsEmpty
      <3>4. Head(<<m>> \o channel) = m /\ Tail(<<m>> \o channel) = channel
        BY <3>1
      <3>5. Places(<<m>> \o channel) = Places(channel) + 1
        BY <3>2, <3>3, <3>4, PlacesTail
      <3>6. Places(held) = 1
        BY <3>2, PlacesOne
      <3> QED BY <2>2, <3>1, <3>2, <3>5, <3>6, PlacesType DEF Queue
    <2> QED BY <2>1, <2>2 DEF IsOpen
  <1>2. /\ count \in 0 .. Capacity
        /\ count = Cardinality(Reserving) + Places(channel) + Places(held)
                  + Places(drained)
    BY DEF MailboxInv, TypeOK, CountExact, Places
  <1>3. Places(drained) = 0
    BY <1>1, PlacesNone
  <1> QED BY <1>1, <1>2, <1>3, Terms, MailboxAssumption
      DEF MailboxInv, MailboxAssumption

\* Everything but enqueueing, receiving and draining is no step of the queue.
LEMMA QuietSteps ==
    ASSUME UNCHANGED <<channel, receiving, held, delivered>>
    PROVE  UNCHANGED Atomic!vars
  BY DEF Atomic!vars

LEMMA EnqueueDelivers ==
    ASSUME MailboxInv, NEW s \in Sender, Enqueue(s)
    PROVE  [Atomic!Next]_(Atomic!vars)
  <1>1. Message(s) \in Item /\ Message(s).kind = "message"
    BY MailboxAssumption
    DEF MailboxInv, TypeOK, Shape, Enqueue, Message, Item, MailboxAssumption
  <1>2. CASE IsOpen
    <2>1. s \in Reserving
      BY DEF Enqueue, Reserving
    <2>2. Cardinality(Reserving) >= 1
      BY <2>1, Terms, FS_EmptySet DEF MailboxInv
    <2>3. Places(Queue) < Capacity
      <3>1. held \o channel \in Seq(Item)
        BY ConcatProperties DEF MailboxInv, TypeOK
      <3>2. Places(Queue) \in Nat
        BY <1>2, <3>1, PlacesType DEF Queue, IsOpen
      <3> QED BY <1>2, <2>2, <3>2, RoomInQueue, Terms, MailboxAssumption
          DEF MailboxInv, MailboxAssumption
    <2>4. held \o Append(channel, Message(s)) = Append(held \o channel, Message(s))
      BY <1>1, AppendBehind DEF MailboxInv, TypeOK
    <2>5. Atomic!QueuedMessages = Messages(Queue)
      BY DEF Atomic!QueuedMessages, Queue, Messages
    <2>6. Atomic!Cardinality(Atomic!QueuedMessages) < Capacity
      <3>1. Atomic!Cardinality(Atomic!QueuedMessages) = Cardinality(Messages(Queue))
        BY <2>5 DEF Cardinality, Atomic!Cardinality
      <3> QED BY <2>3, <3>1 DEF Places
    <2>7. Atomic!Deliver(Message(s))
      BY <1>2, <2>4, <2>6 DEF Atomic!Deliver, Enqueue, IsOpen
    <2> QED BY <1>1, <2>7 DEF Atomic!Next
  <1>3. CASE ~IsOpen
    BY <1>3 DEF IsOpen, Enqueue, Atomic!vars
  <1> QED BY <1>2, <1>3

LEMMA SignalDelivers ==
    ASSUME MailboxInv, NEW s \in Sender, SendSignal(s)
    PROVE  [Atomic!Next]_(Atomic!vars)
  <1>1. Signal(s) \in Item /\ Signal(s).kind = "signal"
    BY MailboxAssumption
    DEF MailboxInv, TypeOK, SendSignal, Begin, Signal, Item, MailboxAssumption
  <1>2. CASE IsOpen
    <2>1. connected
      BY <1>2 DEF MailboxInv, Shape, IsOpen
    <2>2. held \o Append(channel, Signal(s)) = Append(held \o channel, Signal(s))
      BY <1>1, AppendBehind DEF MailboxInv, TypeOK
    <2>3. Atomic!Deliver(Signal(s))
      BY <1>1, <1>2, <2>1, <2>2 DEF Atomic!Deliver, SendSignal, Behind, IsOpen
    <2> QED BY <1>1, <2>3 DEF Atomic!Next
  <1>3. CASE ~IsOpen
    BY <1>3 DEF IsOpen, SendSignal, Atomic!vars
  <1> QED BY <1>2, <1>3

\* A message dequeued is still in the queue, a signal is received at once.
LEMMA DequeueReceives ==
    ASSUME MailboxInv, Dequeue
    PROVE  [Atomic!Next]_(Atomic!vars)
  <1>1. /\ held = <<>> /\ channel \in Seq(Item) /\ channel # <<>>
        /\ receiving = "running" /\ channel' = Tail(channel)
    BY DEF MailboxInv, TypeOK, Shape, Dequeue
  <1>2. Head(channel) \in Item /\ Tail(channel) \in Seq(Item)
    BY <1>1, HeadTailProperties
  <1>3. held \o channel = channel
    BY <1>1, ConcatEmptySeq
  <1>4. CASE Head(channel).kind = "message"
    <2>1. /\ receiving' = "dequeued" /\ held' = <<Head(channel)>>
          /\ UNCHANGED delivered
      BY <1>4 DEF Dequeue
    <2>2. <<Head(channel)>> \o Tail(channel) = channel
      <3>1. Append(<<>>, Head(channel)) = <<Head(channel)>>
        OBVIOUS
      <3>2. Append(<<>>, Head(channel)) \o Tail(channel) = <<>> \o channel
        BY <1>1, EmptySeq, HeadMoves
      <3> QED BY <1>1, <3>1, <3>2, ConcatEmptySeq
    <2> QED BY <1>1, <1>3, <2>1, <2>2 DEF Atomic!vars
  <1>5. CASE Head(channel).kind # "message"
    <2>1. /\ UNCHANGED <<held, receiving>>
          /\ delivered' = Append(delivered, Head(channel))
      BY <1>5 DEF Dequeue
    <2>2. held' \o channel' = Tail(channel)
      BY <1>1, <1>2, <2>1, ConcatEmptySeq
    <2>3. Atomic!Receive
      BY <1>1, <1>3, <2>1, <2>2 DEF Atomic!Receive
    <2> QED BY <2>3 DEF Atomic!Next
  <1> QED BY <1>4, <1>5

LEMMA UnreserveReceives ==
    ASSUME MailboxInv, Unreserve
    PROVE  [Atomic!Next]_(Atomic!vars)
  <1>1. PICK m \in Item : m.kind = "message" /\ held = <<m>>
    BY DEF MailboxInv, Shape, Unreserve
  <1>2. /\ channel \in Seq(Item) /\ delivered \in Seq(Item) /\ channel' = channel
        /\ receiving = "dequeued" /\ receiving' = "running" /\ held' = <<>>
        /\ delivered' = delivered \o <<m>>
    BY <1>1 DEF MailboxInv, TypeOK, Unreserve
  <1>3. /\ Head(held \o channel) = m /\ Tail(held \o channel) = channel
        /\ held \o channel # <<>>
    <2>1. <<m>> \in Seq(Item) /\ <<m>> # <<>>
      OBVIOUS
    <2>2. <<m>> \o channel # <<>>
      BY <1>2, <2>1, ConcatSimplifications!concIsEmpty
    <2>3. Head(<<m>> \o channel) = m /\ Tail(<<m>> \o channel) = channel
      BY <1>2
    <2> QED BY <1>1, <2>2, <2>3
  <1>4. held' \o channel' = channel
    BY <1>2, ConcatEmptySeq
  <1>5. delivered' = Append(delivered, m)
    BY <1>2, AppendIsConcat
  <1>6. Atomic!Receive
    BY <1>2, <1>3, <1>4, <1>5 DEF Atomic!Receive
  <1> QED BY <1>6 DEF Atomic!Next

LEMMA DrainCloses ==
    ASSUME Drain
    PROVE  Atomic!Next
  BY DEF Drain, Atomic!Next, Atomic!Close

\* A mailbox is a FIFO queue with one atomic step per send, receive and close,
\* and never holds more messages than its capacity: what Actors and Ask assume.
THEOREM MailboxIsAtomic == Spec => ImplementsAtomic
  <1>1. Init => Atomic!Init
    BY ConcatEmptySeq, EmptySeq DEF Init, Atomic!Init
  <1>2. MailboxInv /\ [Next]_vars => [Atomic!Next]_(Atomic!vars)
    <2> SUFFICES ASSUME MailboxInv, [Next]_vars
                 PROVE  [Atomic!Next]_(Atomic!vars)
      OBVIOUS
    <2>1. ASSUME NEW s \in Sender, SendStep(s)
          PROVE  [Atomic!Next]_(Atomic!vars)
      <3>1. CASE Enqueue(s) \/ SendSignal(s)
        BY <3>1, EnqueueDelivers, SignalDelivers
      <3>2. CASE Reserve(s) \/ ReserveFull(s) \/ EnqueueFails(s) \/ Release(s)
                 \/ ReturnFull(s)
        BY <3>2, QuietSteps DEF Reserve, ReserveFull, EnqueueFails, Release,
          ReturnFull
      <3> QED BY <2>1, <3>1, <3>2 DEF SendStep
    <2>2. CASE Dequeue \/ Unreserve \/ Drain
      BY <2>2, DequeueReceives, UnreserveReceives, DrainCloses
    <2>3. CASE Disconnect
      BY <2>3 DEF Disconnect, Atomic!vars
    <2>4. CASE UNCHANGED vars
      BY <2>4, QuietSteps DEF vars
    <2> QED BY <2>1, <2>2, <2>3, <2>4 DEF Next
  <1> QED BY <1>1, <1>2, MailboxIsConsistent, PTL
      DEF Spec, ImplementsAtomic, Atomic!Spec
-----------------------------------------------------------------------------
\* The order of each sender's messages and signals.

\* What has been sent and not refused, the oldest first
All == delivered \o held \o drained \o channel

\* Whatever has been sent is older than what its sender is about to enqueue.
Numbered ==
    \A i \in DOMAIN All :
        LET s == All[i].from IN
        /\ All[i].number <= sent[s]
        /\ sending[s] = "reserved" => All[i].number < sent[s]

OrderInv == InOrder /\ Numbered

LEMMA AllType ==
    ASSUME TypeOK
    PROVE  /\ All \in Seq(Item) /\ DOMAIN All = 1 .. Len(All) /\ Len(All) \in Nat
           /\ \A i \in DOMAIN All :
                All[i].from \in Sender /\ All[i].number \in Nat
  <1>1. delivered \o held \in Seq(Item)
    BY ConcatProperties DEF TypeOK
  <1>2. delivered \o held \o drained \in Seq(Item)
    BY <1>1, ConcatProperties DEF TypeOK
  <1>3. All \in Seq(Item)
    BY <1>2, ConcatProperties DEF TypeOK, All
  <1>4. DOMAIN All = 1 .. Len(All) /\ Len(All) \in Nat
    BY <1>3, LenProperties
  <1>5. \A i \in DOMAIN All : All[i] \in Item
    BY <1>3, <1>4, ElementOfSeq
  <1> QED BY <1>3, <1>4, <1>5, MailboxAssumption DEF Item, MailboxAssumption

\* The sequence stays, the senders may begin new sends.
LEMMA OrderStays ==
    ASSUME MailboxInv, OrderInv, All' = All, sent' \in [Sender -> Nat],
           \A s \in Sender :
             /\ sent'[s] >= sent[s]
             /\ sending'[s] = "reserved" =>
                  sending[s] = "reserved" \/ sent'[s] > sent[s]
    PROVE  OrderInv'
  <1>1. sent \in [Sender -> Nat]
    BY MailboxAssumption DEF MailboxInv, TypeOK, MailboxAssumption
  <1>2. Numbered'
    BY <1>1, AllType DEF OrderInv, Numbered, MailboxInv
  <1>3. InOrder'
    BY DEF OrderInv, InOrder, All
  <1> QED BY <1>2, <1>3 DEF OrderInv

\* The sequence grows by the latest send of a sender.
LEMMA OrderGrows ==
    ASSUME MailboxInv, OrderInv, NEW item \in Item, All' = Append(All, item),
           sent' \in [Sender -> Nat], item.number = sent'[item.from],
           sending'[item.from] # "reserved",
           sending[item.from] = "reserved" \/ sent'[item.from] > sent[item.from],
           \A s \in Sender : sent'[s] >= sent[s],
           \A s \in Sender :
             s # item.from => sending'[s] = sending[s] /\ sent'[s] = sent[s]
    PROVE  OrderInv'
  <1> DEFINE n == Len(All) + 1
  <1>1. /\ sent \in [Sender -> Nat] /\ item.from \in Sender /\ Len(All) \in Nat
    BY AllType, MailboxAssumption
    DEF MailboxInv, TypeOK, MailboxAssumption, Item
  <1>2. /\ DOMAIN All' = 1 .. n /\ DOMAIN All = 1 .. n - 1 /\ All'[n] = item
        /\ \A i \in 1 .. n - 1 : All'[i] = All[i]
    <2>1. All \in Seq(Item) /\ Append(All, item) \in Seq(Item)
      BY AllType, AppendProperties DEF MailboxInv
    <2>2. /\ Len(Append(All, item)) = n /\ Append(All, item)[n] = item
          /\ \A i \in 1 .. Len(All) : Append(All, item)[i] = All[i]
      BY <2>1, AppendProperties
    <2>3. DOMAIN Append(All, item) = 1 .. n
      BY <2>1, <2>2, LenProperties
    <2>4. DOMAIN All = 1 .. n - 1
      BY <1>1, AllType DEF MailboxInv
    <2> QED BY <1>1, <2>2, <2>3, <2>4
  <1>3. \A i \in 1 .. n - 1 :
          All[i].from = item.from => All[i].number < item.number
    BY <1>1, <1>2, AllType DEF OrderInv, Numbered, MailboxInv
  <1>4. Numbered'
    <2> SUFFICES ASSUME NEW i \in 1 .. n
                 PROVE  /\ All'[i].number <= sent'[All'[i].from]
                        /\ sending'[All'[i].from] = "reserved" =>
                             All'[i].number < sent'[All'[i].from]
      BY <1>2 DEF Numbered
    <2>1. CASE i = n
      BY <1>1, <1>2, <2>1
    <2>2. CASE i # n
      <3>1. i \in 1 .. n - 1
        BY <1>1, <2>2
      <3>2. CASE All[i].from = item.from
        <4>1. All'[i] = All[i] /\ All[i].number < item.number /\ All[i].number \in Nat
          BY <1>2, <1>3, <3>1, <3>2, AllType DEF MailboxInv
        <4>2. sent'[item.from] \in Nat
          BY <1>1
        <4> QED BY <3>2, <4>1, <4>2
      <3>3. CASE All[i].from # item.from
        BY <1>1, <1>2, <3>1, <3>3, AllType DEF MailboxInv, OrderInv, Numbered
      <3> QED BY <3>2, <3>3
    <2> QED BY <2>1, <2>2
  <1>5. InOrder'
    <2>1. \A i, j \in 1 .. n - 1 :
            i < j /\ All[i].from = All[j].from => All[i].number < All[j].number
      BY <1>2 DEF OrderInv, InOrder, All
    <2>2. ASSUME NEW i \in 1 .. n, NEW j \in 1 .. n, i < j,
                 All'[i].from = All'[j].from
          PROVE  All'[i].number < All'[j].number
      <3>1. i \in 1 .. n - 1 /\ All'[i] = All[i]
        BY <1>1, <1>2, <2>2
      <3>2. CASE j = n
        BY <1>2, <1>3, <2>2, <3>1, <3>2
      <3>3. CASE j # n
        <4>1. j \in 1 .. n - 1 /\ All'[j] = All[j]
          BY <1>1, <1>2, <3>3
        <4> QED BY <2>1, <2>2, <3>1, <4>1
      <3> QED BY <3>2, <3>3
    <2> QED BY <1>2, <2>2 DEF InOrder, All
  <1> QED BY <1>4, <1>5 DEF OrderInv

\* Receiving and draining move messages within the sequence.
LEMMA ReceiverMoves ==
    ASSUME MailboxInv, Dequeue \/ Unreserve \/ Drain \/ Disconnect
    PROVE  All' = All
  <1>1. /\ delivered \in Seq(Item) /\ channel \in Seq(Item) /\ held \in Seq(Item)
        /\ drained \in Seq(Item)
    BY DEF MailboxInv, TypeOK
  <1>2. CASE Dequeue
    <2>1. /\ held = <<>> /\ drained = <<>> /\ drained' = <<>> /\ channel # <<>>
          /\ channel' = Tail(channel)
      BY <1>2 DEF MailboxInv, Shape, Dequeue
    <2>2. Head(channel) \in Item /\ Tail(channel) \in Seq(Item)
      BY <1>1, <2>1, HeadTailProperties
    <2>3. delivered' \o held' = Append(delivered, Head(channel))
      <3>1. CASE Head(channel).kind = "message"
        <4>1. delivered' = delivered /\ held' = <<Head(channel)>>
          BY <1>2, <3>1 DEF Dequeue
        <4> QED BY <1>1, <2>2, <4>1, AppendIsConcat
      <3>2. CASE Head(channel).kind # "message"
        <4>1. delivered' = Append(delivered, Head(channel)) /\ held' = <<>>
          BY <1>2, <2>1, <3>2 DEF Dequeue
        <4>2. Append(delivered, Head(channel)) \in Seq(Item)
          BY <1>1, <2>2, AppendProperties
        <4> QED BY <4>1, <4>2, ConcatEmptySeq
      <3> QED BY <3>1, <3>2
    <2>4. Append(delivered, Head(channel)) \in Seq(Item)
      BY <1>1, <2>2, AppendProperties
    <2>5. All' = Append(delivered, Head(channel)) \o Tail(channel)
      BY <2>1, <2>3, <2>4, ConcatEmptySeq DEF All
    <2>6. All = delivered \o channel
      BY <1>1, <2>1, ConcatEmptySeq DEF All
    <2> QED BY <1>1, <2>1, <2>5, <2>6, HeadMoves
  <1>3. CASE Unreserve
    <2>1. /\ delivered' = delivered \o held /\ held' = <<>>
          /\ UNCHANGED <<drained, channel>>
      BY <1>3 DEF Unreserve
    <2>2. delivered \o held \in Seq(Item)
      BY <1>1, ConcatProperties
    <2>3. delivered' \o held' = delivered \o held
      BY <2>1, <2>2, ConcatEmptySeq
    <2> QED BY <2>1, <2>3 DEF All
  <1>4. CASE Drain
    <2>1. /\ drained = <<>> /\ drained' = channel /\ channel' = <<>>
          /\ UNCHANGED <<delivered, held>>
      BY <1>4 DEF MailboxInv, Shape, Drain
    <2>2. delivered \o held \in Seq(Item)
      BY <1>1, ConcatProperties
    <2>3. (delivered \o held) \o channel \in Seq(Item)
      BY <1>1, <2>2, ConcatProperties
    <2>4. All' = (delivered \o held) \o channel
      BY <2>1, <2>3, ConcatEmptySeq DEF All
    <2>5. All = (delivered \o held) \o channel
      BY <2>1, <2>2, ConcatEmptySeq DEF All
    <2> QED BY <2>4, <2>5
  <1>5. CASE Disconnect
    BY <1>5 DEF Disconnect, All
  <1> QED BY <1>2, <1>3, <1>4, <1>5

\* A message or signal is put behind all others.
LEMMA AllAppends ==
    ASSUME MailboxInv, NEW item \in Item, channel' = Append(channel, item),
           UNCHANGED <<delivered, held, drained>>
    PROVE  All' = Append(All, item)
  <1>1. delivered \o held \o drained \in Seq(Item) /\ channel \in Seq(Item)
    BY ConcatProperties DEF MailboxInv, TypeOK
  <1> QED BY <1>1, AppendBehind DEF All

LEMMA OrderStep ==
    ASSUME MailboxInv, OrderInv, [Next]_vars
    PROVE  OrderInv'
  <1>1. /\ sent \in [Sender -> Nat] /\ sent' \in [Sender -> Nat]
        /\ sending \in [Sender -> {"idle", "reserved", "failed", "full"}]
    <2>1. TypeOK /\ TypeOK'
      BY StepInv DEF MailboxInv
    <2> QED BY <2>1, MailboxAssumption DEF TypeOK, MailboxAssumption
  <1>2. ASSUME NEW s \in Sender,
               Reserve(s) \/ ReserveFull(s) \/ EnqueueFails(s) \/ Release(s)
                 \/ ReturnFull(s)
        PROVE  OrderInv'
    <2>1. All' = All
      BY <1>2 DEF All, Reserve, ReserveFull, EnqueueFails, Release, ReturnFull
    <2>2. \A t \in Sender :
            /\ sent'[t] >= sent[t]
            /\ sending'[t] = "reserved" =>
                 sending[t] = "reserved" \/ sent'[t] > sent[t]
      BY <1>1, <1>2 DEF Reserve, ReserveFull, EnqueueFails, Release, ReturnFull,
        Begin, Return
    <2> QED BY <1>1, <2>1, <2>2, OrderStays
  <1>3. ASSUME NEW s \in Sender, Enqueue(s) PROVE OrderInv'
    <2>1. Message(s) \in Item
      BY <1>3, MailboxAssumption
      DEF MailboxInv, TypeOK, Shape, Enqueue, Message, Item, MailboxAssumption
    <2>2. All' = Append(All, Message(s))
      BY <1>3, <2>1, AllAppends DEF Enqueue
    <2>3. /\ sending[s] = "reserved" /\ sent' = sent
          /\ sending' = [sending EXCEPT ![s] = "idle"]
          /\ Message(s).from = s /\ Message(s).number = sent[s]
      BY <1>3 DEF Enqueue, Return, Message
    <2> QED BY <1>1, <2>1, <2>2, <2>3, OrderGrows
  <1>4. ASSUME NEW s \in Sender, SendSignal(s) PROVE OrderInv'
    <2>1. /\ sending[s] = "idle" /\ sent' = [sent EXCEPT ![s] = @ + 1]
          /\ sending' = [sending EXCEPT ![s] = "idle"]
          /\ Signal(s).from = s /\ Signal(s).number = sent'[s]
          /\ UNCHANGED <<delivered, held, drained>>
      BY <1>4 DEF SendSignal, Begin, Return, Signal
    <2>2. CASE connected
      <3>1. Signal(s) \in Item
        BY <1>1, <1>4, MailboxAssumption
        DEF MailboxInv, TypeOK, SendSignal, Begin, Signal, Item, MailboxAssumption
      <3>2. channel' = Append(channel, Signal(s))
        BY <1>4, <2>2 DEF SendSignal, Behind
      <3>3. All' = Append(All, Signal(s))
        BY <2>1, <3>1, <3>2, AllAppends
      <3> QED BY <1>1, <2>1, <3>1, <3>3, OrderGrows
    <2>3. CASE ~connected
      <3>1. All' = All
        BY <1>4, <2>1, <2>3 DEF SendSignal, All
      <3> QED BY <1>1, <2>1, <3>1, OrderStays
    <2> QED BY <2>2, <2>3
  <1>5. CASE Dequeue \/ Unreserve \/ Drain \/ Disconnect \/ UNCHANGED vars
    <2>1. All' = All
      BY <1>5, ReceiverMoves DEF vars, All
    <2>2. sent' = sent /\ sending' = sending
      BY <1>5 DEF Dequeue, Unreserve, Drain, Disconnect, vars, senderVars
    <2> QED BY <1>1, <2>1, <2>2, OrderStays
  <1> QED BY <1>2, <1>3, <1>4, <1>5 DEF Next, SendStep

\* Whatever one sender sends, messages and signals, is received in that order;
\* it is what makes a terminated signal the last word.
THEOREM OrderIsKept == Spec => []InOrder
  <1>1. Init => OrderInv
    <2>1. Init => All = <<>>
      BY ConcatEmptySeq, EmptySeq DEF Init, All
    <2>2. DOMAIN <<>> = {}
      OBVIOUS
    <2> QED BY <2>1, <2>2 DEF OrderInv, Numbered, InOrder, All
  <1>2. OrderInv => InOrder
    BY DEF OrderInv
  <1> QED BY <1>1, <1>2, OrderStep, MailboxIsConsistent, PTL DEF Spec
=============================================================================
