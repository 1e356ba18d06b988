# Verification of waltz

waltz is an actor library for Rust on top of Tokio. An actor is one task with one mailbox; actors
form a tree, supervise themselves, watch each other and terminate bottom-up. This directory holds a
model of the library in TLA+, the TLC configurations that check it on small instances, and proofs
that TLAPS checks for every instance. References like `actor_context.rs:373` are to
`src/waltz/src/`, examples like `work_pulling.rs` are in `src/waltz/examples/`, and `docs/actors.md`
is `src/docs/actors.md`.

1. [The system](#the-system)
2. [The modules](#the-modules)
3. [The runs](#the-runs)
4. [Fairness](#fairness)
5. [The proofs](#the-proofs)
6. [Where the code and its docs differ](#where-the-code-and-its-docs-differ)
7. [What is not modelled](#what-is-not-modelled)
8. [Plan](#plan)

## The system

| Component | State it keeps | Operations | Correct when |
| --- | --- | --- | --- |
| Run loop and termination, `actor_context.rs` | per task: position in the loop, the state, the restart counter, the parent's stop receiver; per context: stop sender and receiver of the current generation of children, the watched map | `spawn`, `init`, `receive`, `next_restart`, `stop_children`, `terminate` | nobody restarts or terminates before its children have terminated; a stop is seen wherever the actor is; termination always completes |
| Death watch, `mailbox.rs` | per actor: a registry of watchers under a lock, `None` once closed; per watcher: the watched map | `watch`, `unwatch`, `add`, `remove`, `take`, `send_terminated` | no watch is lost in a race with termination; a signal comes last and proves that destructors ran and children ended; nobody dead stays registered |
| Actor system, `actor_system.rs` | a oneshot for `terminated()`, the sender of the root's stop channel inside a sink in the root's own registry | `spawn_root`, the sink's `send_terminated`, `terminated` | resolves once the whole tree is down and not before; the root is never stopped from outside |
| Mailbox and quota, `mailbox.rs`, `quota.rs` | an unbounded flume channel, an atomic count of reserved places | counted send (message), uncounted send (signal), receive, drain, drop of the receiver | never over capacity, no place leaked, no underflow; FIFO per sender, signals included; a closed mailbox is never reported as full |
| Supervision, `actor_config.rs`, `backoff.rs` | restart counter, `up_since`, policy | `next_restart`, `Backoff::duration` | the limit holds per streak; delays double up to the cap |
| Request-response, `ask.rs`, `actor_ref.rs` | a oneshot per ask, its sender inside a `ReplyTo` inside the request | `ask`, `reply`, the timeout | every ask resolves once, with an outcome nothing contradicts later |
| Destructors, `actor_context.rs` | values owned by the task, messages owned by the channel | `catch_and_log`, `drop_containing_panic`, `drop(context)` | a panicking destructor does not keep the watchers from being signalled |
| Worker examples, `work_pulling.rs`, `scatter_gather.rs`, `supervision.rs` | the documents left, the workers left, a sum; the loader's queue across restarts | request and hand out one document, gather partial results, load values and fail on toxic ones | nothing is lost or done twice, nothing is missing when the root stops, the root stops |
| Device manager, `device_manager.rs` | registries of groups and devices, the last reading of a device, the pending devices of a query | record, average, read, reading, prune, shutdown | an answer is neither stale nor incomplete, a query ends without a deadline, the dead are pruned and never doubled |

How they interact. Tasks share three kinds of things: channels (mailboxes, written by everybody with
an `ActorRef`), registries (written under a lock by watchers and closed by their owner) and stop
channels (Tokio `watch` channels: the parent sends once per generation of children and awaits that
every receiver is gone; a child polls it in its run loop and holds a receiver until its task ends).
A terminated signal is an ordinary entry of the watcher's channel. The system hangs on the root
through a watcher of its own. The examples are protocols on top: they learn from signals that a result
will not come any more, and rely on a signal being behind everything its sender has sent.

What is hard: a watch racing the termination of its target; unwatching and watching again with a
signal already queued; a parent stopping an actor that is restarting, delayed or not initialised
yet; generations of children that must not be confused, since the parent itself holds receivers of
the channel whose closing it awaits; the window between draining a mailbox and closing it; a count
that is only loosely synchronised with the channel behind it; a deadline racing a reply; panics in
the middle of termination; queries that fan out to actors which fail and end meanwhile. `PROJECT.json` lists each of these hazards at its line, with the
properties that would notice it going wrong.

## The modules

| Module | What it models |
| --- | --- |
| `Actors` | the run loop, termination, death watch and the actor system, together: they share their state |
| `ActorTree` | the abstract tree of actors, with neither mailboxes nor channels |
| `ActorsTree` | the refinement: `Actors` implements `ActorTree` |
| `DeathWatch` | the abstract death watch: mailboxes, watches and the signals that are owed |
| `ActorsDeathWatch` | the refinement: `Actors` implements `DeathWatch` |
| `Mailbox` | one mailbox, send and receive taken apart into their atomic steps |
| `AtomicMailbox` | the queue that a mailbox promises to be, and that `Actors` and `Ask` assume |
| `Restarts` | restart limit, streaks and backoff of one actor, in time |
| `Ask` | asking an actor, from outside, under a timeout |
| `Destructors` | failure and termination with destructors that panic |
| `Workers` | the examples `work_pulling`, `scatter_gather` and `supervision`, on `DeathWatch` |
| `DeviceManager` | the example `device_manager`, on `DeathWatch` |
| `ActorsProofs` | theorems about `Actors`: bottom-up termination, the death watch, the resolution of the system; that it implements `DeathWatch`, and the safety part of `ActorTree` |
| `MailboxProofs` | theorems about `Mailbox`, and that it implements `AtomicMailbox` |
| `WorkersProofs`, `DeviceManagerProofs` | theorems about the examples |
| `ActorTreeProofs`, `AskProofs`, `RestartsProofs`, `DestructorsProofs` | theorems about the module they are named for |
| `MCActors`, `MCMailbox` | model values and symmetry for TLC; the other modules are run as they are |

Definitions called *Variant* in the modules are not part of the model: each is a plausible mistake in
the code, and replacing the definition below it by the variant must make TLC find a named property
violated. That is how the properties are tested.

### Actors

`pc[a]` is the point of a's task. Two points are distinct when another task can act in between and it
matters:

| `pc` | code |
| --- | --- |
| `init`, `receive` | inside `Actor::init`, `Actor::receive` (178, 216): the actor may tell, spawn, watch, unwatch |
| `select`, `polled` | the biased `select!` (187-203), before and after the stop signal has been polled |
| `init_failed`, `receive_failed` | before `next_restart` (231) and the probe at 243 |
| `restart`, `closing`, `backoff` | before and in `stop_children` (249), in the delay (251-268) |
| `drop_state` | the parent has stopped the actor, its state is dropped (192) |
| `terminate`, `drop_queued`, `deregister`, `await_children`, `drop_actor`, `signal` | the steps of `terminate` (356-388) |
| `terminated` | the task has ended and dropped its stop receivers |

Stop channels are generations: `stopTx[a]` and `stopRx[a]` number the channels whose sender and
receiver the context holds, `joined[c]` the channel of which child c holds a receiver.
`stop_children` is one step up to its await (send, replace both ends) and one step when it resolves,
which is when no `Receivers` of the replaced generation are left, the context's own included; that
the context replaces its own receiver is part of the model, and leaving it out is a variant that
deadlocks. A receiver sees the stop when a later generation than its own exists. The root's stop
sender lives in the sink in its registry, so `Stopped(Root)` looks there.

Watching is one step: `add` is atomic under the registry's lock, the watched map is the task's own,
and after a failed `add` registration stays closed. Closing the mailbox (drain and drop of the receiver) is
one step, justified by `Mailbox` implementing `AtomicMailbox`. Mailboxes are unbounded in `Actors`:
a message refused for lack of room is one that was not sent. Messages carry only their sender. What
an application does in a turn is any sequence of calls; destructors (of the state, of queued
messages, of the actor) may tell. Whether an actor was up long enough to reset its restart counter
is a nondeterministic choice here and a clock in `Restarts`.

### ActorTree and ActorsTree

An actor is unborn, running, restarting, stopping or terminated; it leaves restarting for running and
stopping for terminated only when its children have terminated. `told` is the set of actors whose parent
has told them to stop: whoever is in it does not restart any more, at whichever of the two probes it
finds out (docs/actors.md:251-252). `ActorsTree` maps `pc` to the five phases: restarting lasts from the
decision of `next_restart` to the next `init`, stopping from the decision to terminate to the closing of the
registry, which is the first moment at which a watcher or the system can find out. An actor has been told
(`ToldToStop`) once its parent has replaced the stop channel that it joined. The refinement includes the
fairness: a parent that stops or restarts tells its children, each of them stops, and nothing stays pending.

### DeathWatch and ActorsDeathWatch

What an application can rely on: whoever watches an actor is owed one signal of it, which arrives
behind everything that actor has sent. `DeathWatch` has no registries, no locks and no run loop; an
actor *falls silent* once and sends nothing from then on, and only the silent signal. A watch of the
silent is signalled at once, and taking a watch back cancels the debt unless its actor is already silent.
`ActorsDeathWatch` maps an actor that has closed its registry to a silent one, and the registered watchers
together with those set aside by `take` to the owed signals. It is what `Workers` and
`DeviceManager` assume of the runtime: they are written in its terms, not in those of `Actors`.

### Mailbox and AtomicMailbox

A counted send is a reservation (a compare-and-swap on the count), the send into the channel and, if
that fails, the release of the place; a failed reservation is followed by the look at the channel that
tells full from terminated. Receiving takes the message off the channel first and releases its place
second. The count is accessed with Relaxed ordering: a compare-and-swap sees the latest value, but
the load that finds the quota full may be stale. `mayBeStale` holds the senders that may still load a
full count, namely those that have not themselves written or moved past it since. The abstract queue
maps the message dequeued but not yet released to the head of the queue: it still holds its place.
A send that slips in after the drain is mapped to no step, like a refused one.

### Restarts

One failure after another in the life of one actor, with time in units of the smallest interval that
`reset_after` tells apart. `streak` is the documented notion (restarts since the actor last ran for
`reset_after`), `restarts` the lazily reset counter of the code. `PowerOfTwo` is a recursive function, not the
exponentiation of `Naturals`, so that it can be reasoned about. `Width` is 32 in the code and 3 in
the runs, which brings the overflow of the shift within reach of nine restarts.

### Ask

Each asker asks once. A `ReplyTo` is in the queue, with the responder in its turn, kept (in the
responder's state or any other task), drained, slipped past the drain, used or dropped. The timeout
polls the oneshot before the clock, as `tokio::time::timeout` does, and dropping the receiver after a
timeout is a step of its own. A drain gives no place of the quota back, so between drain and
disconnection (`Held`) a mailbox that was full still refuses, and one that was not lets a request slip in,
which nobody receives.

### Destructors

The end of the last turn and `terminate` again, with the one thing `Actors` leaves out: which values panic
when they are dropped, or an error when it is logged, who owns what is dropped, and which of these are
under `catch_unwind`. The channel is freed by whoever drops its last sender. `Stop` is the state dropped by
the run loop when the parent stops the actor, `Fail` a failure that is not answered by a restart:
`catch_and_log` (302-320) catches the failure, then logs and drops the error or the panic payload
with nothing around it. A panic there unwinds the task, and with it its context and its mailbox, and
nobody is signalled. docs/actors.md:302-306 does not mention errors among what is dropped under
`catch_unwind`, so this is recorded in the property and not as a disagreement.

### Workers

Three examples in one model; `program` says which one runs. In each a root spawns workers, watches them and
stops at the last signal. `HandOut` is the manager's answer to a request, `Process` the next
request that a worker sends with its result; `Gather` and `Compute` are the two sides of a shard;
`Load` and `FailOnToxic` are the loader's `receive`. The root's `init` is interleaved with the workers
it has spawned already. `done` counts how often each job's result has been got; in `work_pulling`
that is where the worker logs it, in `scatter_gather` where the root adds it. A loader may have been up for long
enough to begin a new streak of restarts, as in `Actors`. A `tell` of a full or closed mailbox
changes nothing, as in the code, where it is logged.

### DeviceManager

The commands are told by any number of tasks with a reference to the manager, `main` of the example being
one of them. An incarnation of a device is named by the record that it was spawned for, a reading by the record it
was taken from; that way "fresh" and "complete" are comparisons of numbers. `FanOut` is one turn of the
loop in `Query::receive`: between two of them devices go on, fail and end, since they are
other tasks. The watched map of a query is its set of pending devices, which the code keeps equal. A device
fails on a NaN and restarts without its reading; beyond its policy it terminates, and its group finds
out by the signal. Stopping is from the top: a group stops when the manager has stopped, queries and devices
when their group has.

The manager's mailbox is drained (`StopManager`) and disconnected (`DisconnectManager`) in two steps, and a
question may slip in between (`SlipAverage`). It is retained by the channel for as long as its asker holds
the reference it asks through, and so only the deadline of its ask ends it (docs/actors.md:238-239): `Ask`
models that deadline (`AskResolves`), `DeviceManager` has no clock and leaves the question *slipped*.
`AsksResolve` is about the others, pending in the mailbox before the drain or at an actor behind
it. The other mailboxes close in one step. Nobody questions a group or starts a query in that window: the
manager's turns are over before its groups are stopped, and a query is started in the turn that spawns it. A
read that slips into a device's mailbox is as lost as one that was drained, since the query waits for the
device's signal. A manager prunes terminated groups too, but a group neither fails nor stops
before the manager does, so that arm has no action.

## The runs

| Run | Instance | Shows |
| --- | --- | --- |
| `actors_safety` | 3 actors, 1 tell, 2 watches, 2 failures, two of them restarting once; 1.8M states | `TypeOK`, `BottomUp`, `CurrentGeneration`, `RootStopsItself`, `ResolvedMeansTerminated`, `SignalProvesTermination`, `LastWord`, `NoLostWatch`, `NoDeadWatchers`, `ImplementsDeathWatch` |
| `actors_live` | 3 actors, 2 watches, 1 failure, one actor without a delay and two with, fair; 93k states | `ImplementsTree`, `WatchEnds`, `SystemTerminates` |
| `actor_tree` | every tree of 4 actors, fair; 10.6k states | `ResolvedLast`, `StoppingEnds` |
| `mailbox` | 3 senders, 2 sends each, capacity 2; 537k states | `TypeOK`, `CountExact`, `InOrder`, `LateIsTerminated`, `ImplementsAtomic` |
| `restarts` | min 1, max 7, 9 restarts, width 3; 117 states | `LimitIsPerStreak`, `DelayAsDocumented` |
| `restarts_wide` | the same with max 10 | `DelayAsDocumented` is violated, see below |
| `ask` | 3 askers, capacity 2, fair; 32k states | `AskTypeOK`, `NoReplyIsFinal`, `InTimeIsReceived`, `QueuedAsksResolve`, `AskResolves` |
| `ask_late` | 1 asker | `LateReplyIsLogged` is violated, see below |
| `destructors` | 2 holders, 3 messages, errors that may panic; 2.1k states | `DestructorsTypeOK`, `SignalledUnlessSlipped` |
| `destructors_slip` | 1 holder, 1 message, no error panics | `WatchersAreSignalled` is violated, see below |
| `workers` | each example with 3 workers and 4 jobs, 2 restarts, every script of toxic values, fair; 3.5k states | `WorkersTypeOK`, `NothingMissing`, `OneJobInFlight`, `RootStops` |
| `device_manager` | 1 group, 2 devices, 3 records, 1 request, 1 restart, fair; 437k states | `DeviceManagerTypeOK`, `AnswersAreFresh`, `AnswersAreComplete`, `SuccessorsDoNotOverlap`, `ReadingsArePending`, `AsksResolve`, `DeadArePruned` |

That a child follows its parent, that it does not come back, and that a generation's end is awaited, each
for itself, are parts of `ImplementsTree` with `StoppingEnds`, and not run again. `ImplementsTree` has two
variants that break it: a context that keeps its own receiver, and a second probe left out.

Why the bounds are enough for what the runs are after:

- Three actors make the trees in which generations can go wrong: a chain (a child stopped while it
  restarts and has a child itself) and two siblings, of the same or of different generations. Two
  failures restart two of them, or exhaust the limit of one. A child spawned after a restart has a
  different generation from one spawned before. Terminated actors are not reborn, so three actors
  also limit a parent to two generations with a child; the theorems have no such limit.
- Two watches give both races of watching and terminating, a watch repeated after an unwatch while a
  signal is queued, two actors watching each other, and a watcher that terminates. One tell from a
  destructor is what `LastWord` is about. In `actors_safety` the two actors below the root restart,
  both without a delay, and are interchangeable; the delay, and a root that restarts, are in `actors_live`
  and in the theorems.
- In `actors_live` all three actors restart, one of the two below the root without a delay and the other
  one with, so both forms of the second probe meet a parent that stops; it has no symmetry, which would be unsound for liveness. Messages do not matter to its
  properties beyond the signals, so it has no tells.
- In `mailbox` three senders at a capacity of two contend for the last place; two sends
  each give an order to violate. The permutations of senders are a symmetry of its properties, which
  are all safety properties.
- In `restarts`, nine restarts pass the width of the shift three times over. A max of 7 is the largest
  that the saturated factor reaches, 10 is one it does not.
- In `workers` four jobs for three workers make one worker take a second job, and with two restarts four
  values reach the limit of the loader and pass it.
- In `device_manager` three records are the least with which a device ends (two invalid ones at one
  restart) and a successor is spawned, and with which a query has a device of either kind, a
  failing one and a quiet one. A second request would only repeat the first, since queries share
  nothing but the devices, which answer them one by one.
- `CHECK_DEADLOCK FALSE` is set everywhere: actors may all have terminated, a queue may be idle.

## Fairness

`Fairness` of `Actors` is weak fairness of each actor's task as a whole and of `spawn_root`: Tokio
polls a task that has been woken, `init`, `receive` and destructors return (docs/actors.md asks that
`receive` does), delays elapse. Which way `init` and `receive` return remains their choice, and
nothing obliges an application to tell, spawn, watch or unwatch. Weak fairness suffices because what a task
waits for (a closed channel, a stop signal, an entry of its mailbox) stays true until the task acts.
One thing the assumption hides: the run loop does not yield while its mailbox is not empty, so on a
runtime with one thread an actor that tells itself forever would starve the others. The number of
tells is bounded, so this does not occur in the model.

In `Ask` the clock is apart from the fairness of tasks. `QueuedAsksResolve` holds without a clock:
an ask queued at a responder that terminates resolves because the drained request is dropped, not
because its deadline passes. `AskResolves` assumes the clock. Nobody is obliged to answer, or to drop a
`ReplyTo` it keeps, or to drop its last reference.

In `Workers` and `DeviceManager` every actor is a task with weak fairness of its own, as in `Actors`. The
clients of the device manager are not obliged to anything: nobody has to send a record or to shut
down, and there is no clock: `AsksResolve` holds of every question that has reached the manager before its
drain without one, and the question that slips past it is excepted since it does need its deadline.

## The proofs

The proofs about `Spec` of `Actors` hold for every set of actors and every bound, and assume only
`ActorsAssumption` (the root is an actor, the system is none, the configured sets are sets of actors,
the bounds are natural numbers). Those about the other modules assume `ActorTreeAssumption`,
`MailboxAssumption` (finitely many senders, a positive capacity), `AskAssumption`, `RestartsAssumption`,
`DestructorsAssumption`, `WorkersAssumption` (no more workers than jobs, as the examples have it) and
`DeviceManagerAssumption`, which say the same of their constants. `DelaysDocumented` has a hypothesis
of its own, `CapInReach`, which is what the code needs to be as documented.

| Module | Theorem | States |
| --- | --- | --- |
| `ActorsProofs` | `TypeCorrect` | `Spec => []TypeOK` |
| | `Generations` | `Spec => []GenerationInv` |
| | `NobodyOutlivesItsParent` | `Spec => []BottomUp` |
| | `NobodyIsLeftBehind` | `Spec => []CurrentGeneration` |
| | `Registrations` | `Spec => []RegistrationInv` |
| | `SignalsProveTermination` | `Spec => []SignalProvesTermination` |
| | `SignalsAreTheLastWord` | `Spec => []LastWord` |
| | `NoWatcherIsDead` | `Spec => []NoDeadWatchers` |
| | `NoWatchIsLost` | `Spec => []NoLostWatch` |
| | `RootIsItsOwn` | `Spec => []RootStopsItself` |
| | `TreeHasOneRoot` | `Spec => []Rooted` |
| | `ResolvedLast` | `Spec => []ResolvedMeansTerminated` |
| | `DeathWatchKept` | `Spec => ImplementsDeathWatch` |
| | `TreeKept` | `Spec => Tree!Spec`, the safety part of `ImplementsTree` |
| `ActorTreeProofs` | `TerminatesBottomUp`, `TreeResolvesLast` | the safety properties of `ActorTree` |
| `MailboxProofs` | `MailboxIsConsistent` | `Spec => []MailboxInv` |
| | `MailboxTypeCorrect`, `CountIsExact`, `LateSendsAreRefused`, `OrderIsKept` | the safety properties of `Mailbox` |
| | `MailboxIsAtomic` | `Spec => ImplementsAtomic` |
| `AskProofs` | `AskTypeCorrect`, `NoReplyProvesTheEnd`, `RepliesInTimeCount` | the safety properties of `Ask` |
| `RestartsProofs` | `LimitHolds` | `Spec => []LimitIsPerStreak` |
| | `DelaysDocumented` | `CapInReach` implies `Spec => []DelayAsDocumented` |
| `DestructorsProofs` | `DestructorsTypeCorrect`, `WatchersSignalled` | `Spec => []DestructorsTypeOK`, `Spec => []SignalledUnlessSlipped` |
| `WorkersProofs` | `WorkersInvariant` | `Spec => []WorkersInv` |
| | `WorkersTypes` | `Spec => []WorkersTypeOK` |
| | `NeverTwoJobsInFlight` | `Spec => []OneJobInFlight` |
| | `NothingGoesMissing` | `Spec => []NothingMissing` |
| `DeviceManagerProofs` | `DeviceManagerCoherence` | `Spec => []Coherent` |
| | `DeviceManagerTypes` | `Spec => []DeviceManagerTypeOK` |
| | `NoOverlapOfSuccessors` | `Spec => []SuccessorsDoNotOverlap` |
| | `PendingReadings` | `Spec => []ReadingsArePending` |
| | `DeviceManagerOrder` | `Spec => []Ordered` |
| | `FreshAnswers` | `Spec => []AnswersAreFresh` |
| | `DeviceManagerLives` | `Spec => []Lively` |
| | `CompleteAnswers` | `Spec => []AnswersAreComplete` |

So every safety property that TLC checks on a small instance is proved for every instance, in the
library and in the examples. The delays have the one hypothesis more.

`BottomUp` is not inductive: a child might hold a receiver of a generation other than the one awaited
and be alive when the await ends. `GenerationInv` adds what rules this out. First, a context's
receiver belongs to the same channel as its sender (`stopRx[a] = stopTx[a]`), so whoever is spawned
joins the generation that will be stopped next. Second, every live child belongs to the current
generation of its parent, or, while the parent awaits, to the one just replaced (`CurrentGeneration`).
Third, a parent exists before its children (`Parentage`). When the await ends there is no receiver of
the replaced generation, hence no live child at all: `BottomUp` for the states after the await. No
child is spawned outside a turn, so it stays true until the next `init`. The lemmas say this action by
action; the steps that change neither `pc` of somebody's child nor a generation are dealt with at once.

The death watch rests on one fact: `RegistrationInv`, a registry is open exactly until its actor takes the
watchers and begins to signal. A registration that fails therefore means that the watched actor has
passed its destructors, and a signal, whoever enqueues it, can only be from such an actor
(`SignalsAreLate`). With `BottomUp` that is `SignalProvesTermination`; and as an actor past its
destructors runs no more user code, it sends no message behind its signal: `LastWord`. `NoLostWatch`
follows a watch from place to place: a registered watcher stays until the registry is taken
(`RegisteredStays`), one set aside until it is signalled (`SetAsideStays`), a signal until it is
received, which ends the watch (`SignalStays`). `NoDeadWatchers` needs `SignalsAreLate` where a signal
ends a watch without deregistering: the registry concerned is closed, hence empty.

That the system resolves last is a fact about the whole tree, which `BottomUp` gives one level at a
time. The induction over the tree's depth is avoided by `Rooted`: no nonempty set of spawned actors
without the root contains the parents of all its members. It is inductive since a spawn adds a
leaf. Were some actors still running after the root has begun to signal, one of them would have a parent
that is not among them, hence the root or a terminated actor, and would have terminated by `BottomUp`.
`SinkInv` says that the sink fires no earlier. The same argument serves `ActorTree`.

`LimitIsPerStreak` relates the documented streak to the counter that the code resets at the next
failure; `StreakInv` says when the two differ (`CounterIsStreak`). At a failure the counter that is looked
at is always the streak, so the delay asked for is the one of the streak's position (`DelayInv`). That this
is `min * 2^(n-1)` below the cap is plain as long as the shift fits; beyond it the factor is
2^`Width` - 1, and the delay is `max` only if that reaches it (`CapInReach`). In `restarts_wide` it does not,
which is the first disagreement below. Powers of two grow (`PowersGrow`) by an induction, for which the
provers cannot use the library's rule, since its hypothesis is an operator; `Inductive` says it of sets instead,
by way of the least counterexample (`Least`), and `Doubling` shows that the recursive definition defines a
function.

The refinements map every step of `Actors` to a step of the abstract module or to a stutter, action by
action. For `DeathWatch` the mapped variable that matters is the set of owed signals, pairs of a watcher and
a watched actor: a registration adds one (`OwedMore`), a deregistration or a signal takes one away
(`OwedLess`), and `take` moves watchers from the registry to those set aside, which keeps it
(`OwedKept`). `RegistrationInv` is what makes the two sides agree on who is silent: a failed
registration, or one that finds nothing to remove, is one with an actor that has closed its registry. For
`ActorTree` each point of the run loop belongs to one status (`StatusPoints`), and a task passes to
another one only as `TaskMoves` says. Who has been told to stop follows the generations: the channel a child
joined is never ahead of its parent's (`JoinedInTime`), so a spawned child has not been told, and
`stop_children` tells just the children there are (`StopChildrenInTree`). The second probe is what lets a
restart be a step of the tree. That the children have terminated where the tree demands it is
`NobodyLeft` at the end of an await and `BottomUp` after it. With `TreeKept`, `TreeResolvesLast` says
once more, of the abstract tree, what `ResolvedLast` says of the tasks.

A mailbox is consistent (`MailboxInv`) when its count is exact and its receiver and senders hold what their
place in the code says: the receiver that has dequeued a message has just that one, only a running
receiver has drained nothing yet. Each action then moves one place: from a sender to the channel, to the
receiver's hand, or out. That the count neither underflows nor exceeds the capacity follows, although
`unreserve` (quota.rs:99-104) looks at it only in a `debug_assert`. `OrderIsKept` looks at all that has been sent and not refused as one
sequence: a send appends to it (`OrderGrows`), and receiving, releasing and draining leave it as it is
(`ReceiverMoves`). `MailboxIsAtomic` needs the room in the queue at the moment of the enqueue rather than
that of the reservation (`RoomInQueue`): the sender's own reservation is the place it fills.

In `Ask` the invariant says where the `ReplyTo` of each asker can be, given what the asker has been told.
`NoReplyIsFinal` needs that a request is in one place only, so that dropping it drops the last chance
of an answer. In `Destructors` it follows the points of `terminate`: the only ways out are the last step, an
error that panicked, and the channel freed with a slipped message in it.

In `Workers` the countdown is `Cardinality(Awaited)`, the workers whose signal the root has not received
(`Countdown`); a worker signals once and behind everything else (`Ahead`), so that the count does not
underflow and reaches zero last. Each example then has an account of where its jobs are. A document is
not handed out, in a worker's mailbox, or done (`JobsAccounted`); a worker has an order in its mailbox, a request at the
root, or neither (`OneOrder`), which is `OneJobInFlight`. A partial result is still to be computed, in
the root's mailbox ahead of its sender's signal, or gathered (`PartialsAccounted`). The loader has consumed a
prefix of what it was told, all that is not toxic in it loaded once, and has restarted at most once per
toxic value (`ValuesAccounted`); when it ends before `Finish` more of them were toxic than its policy
allows.

In `DeviceManager` every action is first shown to be one of a few events, each described by what it does to one
or two mailboxes and to the registries, and the conjuncts of the invariants are shown of events. There are three invariants,
each on top of the one before. `Coherent` is where everything can be: a group's registry has
what is alive of its devices, one per key (`Registry`); a signal is of a device that is gone and is no
longer watched by its receiver (`Signals`); a record or a question is in one place (`Records`,
`Questions`); a query waits for a device as long as a read request or a reading is on the way between them, and that
reading is ahead of the signal (`Readings`). It gives the types, `SuccessorsDoNotOverlap` and
`ReadingsArePending`. `Ordered` is about the order in which records and questions travel: records
are queued in the order they were told in (`InOrder`), behind a record that is queued or stored everything told later
is still to come or lost with its device (`InSequence`), and a question, at the manager, the group or the
device, is behind every record told before it (`AfterRecords`). So what a device answers with is no older than the
last record told before the question, and what a query collects is (`Freshness`). `Lively` is about failures: a device has
restarted at most once per invalid record that has reached it (`Restarting`), so it ends only of more of
them than its policy allows while the manager is up (`Alive`); hence a device that an answer must count is
in its registry when the question arrives there, and from then on to be asked, waited for or counted (`Completeness`).

Only model-checked: liveness under fairness (`ImplementsTree` beyond `TreeKept`, `WatchEnds`,
`SystemTerminates`, `StoppingEnds`, `QueuedAsksResolve`, `AskResolves`, `RootStops`, `AsksResolve`,
`DeadArePruned`), which TLAPS does not reach, and that the variants of the definitions break the properties.

## Where the code and its docs differ

1. *Backoff* (`restarts_wide`). `Backoff::duration` saturates the factor at 2^32 - 1, so a `max`
   beyond `min * (2^32 - 1)` is never reached: the delay stalls. actor_config.rs:88-89 and
   docs/actors.md:254-255 document `min * 2^(n-1)` capped at `max`, and the test at backoff.rs:95-96
   that an overflow saturates *into the cap*. It takes a `min` of a few nanoseconds or a
   `max` of many years.
2. *Late replies* (`ask_late`). ask.rs:55-56 documents that a late reply is logged as a dead letter. A
   reply sent after the deadline has been found expired and before the receiver is dropped is
   neither received nor logged.
3. *Destructor panics* (`destructors_slip`). docs/actors.md:302-306 documents that every drop path the
   framework controls contains destructor panics, so that the watchers are signalled. `drop(context)`
   (actor_context.rs:375) is not contained and can be what frees a message that slipped past the
   drain. `SignalledUnlessSlipped`, which holds and is proved, shows that the only other way is an error or
   a panic payload that panics in `catch_and_log`.

## What is not modelled

- The abort of the process by a panic during a panic, which ends everything at once.
- The scheduling of tasks on threads, and Tokio's cooperative budget.
- Bounded mailboxes inside `Actors` (they are in `Mailbox`, `Ask` and `Workers`), and the contents of
  messages.
- `ActorContext::reply_to`: its reply is an ordinary tell, and modelled as one, in `DeviceManager` too.
- Shutdown of the Tokio runtime, which drops tasks at any await.
- Deserialization and defaults of configurations, ids, logging: sequential code that keeps no state. What
  `Backoff::new` validates is an assumption of `Restarts`.
- The examples `hello` and `counter`: one actor, told or asked in sequence.
- The benchmarks, which measure, and the comparison report, a command line tool that formats benchmark
  results.

flume, Tokio's `watch`, `oneshot` and `timeout`, and the scheduler are modelled from how the code uses
them.

## Plan

Done, in the order of importance: `Actors` and the proofs of its safety properties; `ActorTree`, its proofs
and the refinement; `Mailbox` and `AtomicMailbox`; `Restarts`; `Ask`; `Destructors`; `DeathWatch` as the basis
of the examples, `Workers` and `DeviceManager`; the proofs of the refinements, of `Mailbox`, of `Ask` and of
`Destructors`; the inductive invariants of `Workers` and `DeviceManager`; the delays of `Restarts`.

Left, each an improvement and not a gap in the core:

1. Bounded mailboxes in `Actors`: a signal that arrives at a full mailbox. `InOrder` and
   `ImplementsAtomic` cover it for one mailbox.
2. `Workers` and `DeviceManager` as formal refinements of `DeathWatch`: at present each action
   is written in its terms, and the correspondence is by reading.
