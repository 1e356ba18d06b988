-------------------------- MODULE DestructorsProofs --------------------------
(***************************************************************************)
(* Theorems about Destructors: types, and what can keep an actor that ends   *)
(* from signalling its watchers, for any number of references and messages.  *)
(***************************************************************************)
EXTENDS Destructors, SequenceTheorems, TLAPS

\* Lemma: a channel that is kept or freed still holds no more than was sent.
LEMMA Freed ==
    ASSUME NEW c \in Seq(BOOLEAN), NEW d, d = <<>> \/ d = c,
           NEW n \in Nat, NEW m \in Nat, Len(c) + n <= m
    PROVE  d \in Seq(BOOLEAN) /\ Len(d) + n <= m
<1>1. CASE d = c
  BY <1>1
<1>2. CASE d = <<>>
  <2>1. d \in Seq(BOOLEAN) /\ Len(d) = 0 /\ Len(c) \in Nat
    BY <1>2, EmptySeq, LenProperties
  <2> QED BY <2>1
<1> QED BY <1>1, <1>2

\* Lemma: every action keeps the types, and takes each message to one place only.
LEMMA TypesStep == DestructorsTypeOK /\ [Next]_vars => DestructorsTypeOK'
<1> SUFFICES ASSUME DestructorsTypeOK, [Next]_vars PROVE DestructorsTypeOK'
  OBVIOUS
<1>0. /\ channel \in Seq(BOOLEAN) /\ drained \in Seq(BOOLEAN)
      /\ Len(channel) \in Nat /\ Len(drained) \in Nat
      /\ sends \in 0 .. MaxMessages /\ MaxMessages \in Nat
      /\ Len(channel) + Len(drained) <= sends
      /\ <<>> \in Seq(BOOLEAN) /\ Len(<<>>) = 0
  BY DestructorsAssumption, EmptySeq, LenProperties DEF DestructorsTypeOK
<1>1. ASSUME NEW h \in Holder, NEW panics \in BOOLEAN, Tell(h, panics)
      PROVE  DestructorsTypeOK'
  <2>1. /\ Append(channel, panics) \in Seq(BOOLEAN)
        /\ Len(Append(channel, panics)) = Len(channel) + 1
    BY <1>0, AppendProperties
  <2>2. channel' \in Seq(BOOLEAN) /\ Len(channel') <= Len(channel) + 1
    <3>1. channel' = Append(channel, panics) \/ channel' = channel
      BY <1>1, Zenon DEF Tell
    <3> QED BY <1>0, <2>1, <3>1
  <2>3. Len(channel') \in Nat
    BY <2>2, LenProperties
  <2>4. sends' \in 0 .. MaxMessages /\ Len(channel') + Len(drained) <= sends'
    BY <1>0, <1>1, <2>2, <2>3 DEF Tell
  <2>5. slipped' \in BOOLEAN
    BY <1>1, Zenon DEF Tell
  <2> QED BY <1>1, <2>2, <2>4, <2>5 DEF Tell, DestructorsTypeOK
<1>2. ASSUME NEW h \in Holder, DropRef(h) PROVE DestructorsTypeOK'
  <2>1. channel' = <<>> \/ channel' = channel
    BY <1>2, Zenon DEF DropRef
  <2>2. channel' \in Seq(BOOLEAN) /\ Len(channel') + Len(drained) <= sends
    BY <1>0, <2>1, Freed
  <2> QED BY <1>2, <2>2 DEF DropRef, DestructorsTypeOK
<1>3. ASSUME NEW panics \in BOOLEAN, Stop(panics) PROVE DestructorsTypeOK'
  BY <1>3 DEF Stop, Contained, DestructorsTypeOK
<1>4. ASSUME NEW panics \in ErrorPanics, Fail(panics) PROVE DestructorsTypeOK'
  <2>1. panics \in BOOLEAN
    BY DestructorsAssumption
  <2>2. ownRef' \in BOOLEAN /\ connected' \in BOOLEAN
    BY <1>4, Zenon DEF Fail
  <2>3. pc' \in {"unwound", "drain"} /\ (channel' = <<>> \/ channel' = channel)
    BY <1>4, Zenon DEF Fail
  <2>4. channel' \in Seq(BOOLEAN) /\ Len(channel') + Len(drained) <= sends
    BY <1>0, <2>3, Freed
  <2>5. /\ errorPanicked' = panics
        /\ UNCHANGED <<refs, drained, slipped, actorPanics, signalled, sends>>
    BY <1>4 DEF Fail
  <2> QED BY <2>1, <2>2, <2>3, <2>4, <2>5 DEF DestructorsTypeOK, Over
<1>5. CASE Drain
  BY <1>0, <1>5 DEF Drain, Emptied, DestructorsTypeOK
<1>6. CASE Disconnect
  BY <1>6 DEF Disconnect, DestructorsTypeOK
<1>7. CASE DropQueued
  <2>1. Tail(drained) \in Seq(BOOLEAN) /\ Len(Tail(drained)) = Len(drained) - 1
    BY <1>0, <1>7, HeadTailProperties DEF DropQueued
  <2> QED BY <1>0, <1>7, <2>1 DEF DropQueued, Contained, DestructorsTypeOK
<1>8. CASE AllDropped
  BY <1>8 DEF AllDropped, DestructorsTypeOK
<1>9. CASE DropContext
  <2>1. /\ pc' \in {"unwound", "drop_actor"}
        /\ channel' = <<>> \/ channel' = channel
    BY <1>9, Zenon DEF DropContext
  <2>3. channel' \in Seq(BOOLEAN) /\ Len(channel') + Len(drained) <= sends
    BY <1>0, <2>1, Freed
  <2>2. /\ ownRef' = FALSE
        /\ UNCHANGED <<refs, connected, drained, slipped, actorPanics, signalled,
                       errorPanicked, sends>>
    BY <1>9 DEF DropContext
  <2> QED BY <2>1, <2>2, <2>3 DEF DestructorsTypeOK, Over
<1>10. CASE DropActor
  BY <1>10 DEF DropActor, Contained, DestructorsTypeOK
<1>11. CASE SignalWatchers
  BY <1>11 DEF SignalWatchers, DestructorsTypeOK, Over
<1>12. CASE UNCHANGED vars
  BY <1>12 DEF vars, DestructorsTypeOK
<1> QED BY <1>1, <1>2, <1>3, <1>4, <1>5, <1>6, <1>7, <1>8, <1>9, <1>10, <1>11,
           <1>12 DEF Next

\* Every variable keeps its type, and no message is dropped twice: what the channel
\* holds and what terminate has moved out of it are no more than what was sent.
THEOREM DestructorsTypeCorrect == Spec => []DestructorsTypeOK
<1>1. Init => DestructorsTypeOK
  <2> SUFFICES ASSUME Init PROVE DestructorsTypeOK
    OBVIOUS
  <2>1. channel \in Seq(BOOLEAN) /\ Len(channel) = 0 /\ drained = channel
    BY EmptySeq DEF Init
  <2>2. sends \in 0 .. MaxMessages /\ Len(channel) + Len(drained) <= sends
    BY <2>1, DestructorsAssumption DEF Init
  <2> QED BY <2>1, <2>2 DEF Init, DestructorsTypeOK
<1> QED BY <1>1, TypesStep, PTL DEF Spec

-----------------------------------------------------------------------------
\* Once the mailbox has been drained the channel is empty, but for what slipped in
\* before it was disconnected.
ChannelInv ==
    /\ pc \in {"drained", "drop_queued", "drop_context"} => channel = <<>> \/ slipped
    /\ pc \in {"drop_queued", "drop_context"} => ~connected

\* A task that has unwound had one of the two reasons, one that has ended has
\* signalled its watchers.
EndInv ==
    /\ pc = "unwound" => slipped \/ errorPanicked
    /\ pc = "ended" => signalled

UnwindInv == ChannelInv /\ EndInv

\* Lemma: drop(context) unwinds only for what slipped in, everything else is
\* contained.
LEMMA UnwindStep ==
    DestructorsTypeOK /\ UnwindInv /\ [Next]_vars => UnwindInv'
<1> SUFFICES ASSUME DestructorsTypeOK, UnwindInv, [Next]_vars PROVE UnwindInv'
  OBVIOUS
<1> USE DEF UnwindInv, ChannelInv, EndInv
<1>1. ASSUME NEW h \in Holder, NEW panics \in BOOLEAN, Tell(h, panics)
      PROVE  UnwindInv'
  <2>1. /\ pc' = pc /\ signalled' = signalled /\ errorPanicked' = errorPanicked
        /\ slipped => slipped'
        /\ pc = "drained" => slipped'
    BY <1>1, Zenon DEF Tell
  <2>2. channel' = channel \/ connected
    BY <1>1, Zenon DEF Tell
  <2>3. ChannelInv'
    BY <2>1, <2>2, <1>1, Zenon DEF Tell
  <2> QED BY <2>1, <2>3, Zenon
<1>2. ASSUME NEW h \in Holder, DropRef(h) PROVE UnwindInv'
  BY <1>2 DEF DropRef
<1>3. ASSUME NEW panics \in BOOLEAN, Stop(panics) PROVE UnwindInv'
  BY <1>3 DEF Stop, Contained
<1>4. ASSUME NEW panics \in ErrorPanics, Fail(panics) PROVE UnwindInv'
  BY <1>4 DEF Fail
<1>5. CASE Drain
  BY <1>5 DEF Drain, Emptied
<1>6. CASE Disconnect
  BY <1>6 DEF Disconnect
<1>7. CASE DropQueued
  BY <1>7 DEF DropQueued, Contained
<1>8. CASE AllDropped
  BY <1>8 DEF AllDropped
<1>9. CASE DropContext
  <2>1. ASSUME \E i \in DOMAIN channel : channel[i] PROVE slipped
    <3>1. channel # <<>>
      BY <2>1
    <3> QED BY <1>9, <3>1 DEF DropContext
  <2> QED BY <1>9, <2>1 DEF DropContext
<1>10. CASE DropActor
  BY <1>10 DEF DropActor, Contained
<1>11. CASE SignalWatchers
  BY <1>11 DEF SignalWatchers
<1>12. CASE UNCHANGED vars
  BY <1>12 DEF vars
<1> QED BY <1>1, <1>2, <1>3, <1>4, <1>5, <1>6, <1>7, <1>8, <1>9, <1>10, <1>11,
           <1>12 DEF Next

\* An actor whose destructors panic signals its watchers all the same, unless a
\* message slipped past the drain or an error panicked: for any number of
\* references and of messages, whichever of them panic.
THEOREM WatchersSignalled == Spec => []SignalledUnlessSlipped
<1>1. Init => UnwindInv
  BY DEF Init, UnwindInv, ChannelInv, EndInv
<1>2. UnwindInv => SignalledUnlessSlipped
  BY DEF UnwindInv, EndInv, SignalledUnlessSlipped, Over
<1> QED BY <1>1, <1>2, UnwindStep, DestructorsTypeCorrect, PTL DEF Spec
=============================================================================
