--------------------------- MODULE DeviceManager ---------------------------
(***************************************************************************)
(* The device manager example: a manager routes commands to its groups,     *)
(* groups route records to devices they spawn on demand and prune by watch, *)
(* and each request for an average is served by a query of its own, which    *)
(* reads every device and knows by a reading or a signal that it is done.    *)
(*                                                                         *)
(* Mailboxes and watches are those of DeathWatch.  The commands come from    *)
(* any number of tasks with a reference to the manager, of which main is     *)
(* one.  A reading is the number of the record it was taken from, and an    *)
(* incarnation of a device is named by the record it was spawned for.        *)
(* Groups live as long as the manager, so that the arm which prunes them     *)
(* (device_manager.rs:130) has nothing to do.                               *)
(***************************************************************************)
EXTENDS Naturals, Sequences, FiniteSets

CONSTANTS
    Group, Device,   \* names of groups and of devices
    Ask,             \* requests for an average
    MaxRecords,      \* bound on the records told
    MaxRestarts      \* MAX_RESTARTS of a device

ASSUME DeviceManagerAssumption ==
    /\ MaxRecords \in Nat
    /\ MaxRestarts \in Nat \ {0}
    /\ Group \cap Ask = {}

VARIABLES
    told,        \* all records told to the manager, in order
    asked,       \* what has become of each request
    manager,     \* "up", "drained" or "stopped"
    managerBox,
    group,       \* "unborn", "up" or "stopped"
    groupBox,
    devices,     \* the registry of each group
    query,       \* the query of each request
    queryBox,
    device,      \* each incarnation: life, last reading, restarts in its streak
    deviceBox,
    watchers     \* who is owed the signal of an incarnation

clients == <<told, asked>>
managers == <<manager, managerBox>>
groups == <<group, groupBox, devices>>
queries == <<query, queryBox>>
incarnations == <<device, deviceBox>>

vars == <<clients, managers, groups, queries, incarnations, watchers>>

Number == 1 .. MaxRecords
None == 0

SameDevice(k, l) ==
    told[k].group = told[l].group /\ told[k].device = told[l].device

Record(k)     == [kind |-> "record", of |-> k]
Average(i)    == [kind |-> "average", of |-> i]
Shutdown      == [kind |-> "shutdown", of |-> None]
Terminated(x) == [kind |-> "terminated", of |-> x]
Start         == [kind |-> "start", of |-> None]
Read(i)       == [kind |-> "read", of |-> i]
Reading(x, k) == [kind |-> "reading", of |-> x, reading |-> k]

\* The requests whose ReplyTo is dropped with a mailbox.
Requests(box) == {i \in Ask : Average(i) \in {box[n] : n \in DOMAIN box}}

Unanswered(asks) ==
    [i \in Ask |-> IF i \in asks THEN [asked[i] EXCEPT !.status = "no_reply"]
                   ELSE asked[i]]

Answered(i, counted) ==
    [asked EXCEPT ![i].status = "answered", ![i].counted = counted]

-----------------------------------------------------------------------------
\* The clients.  What is sent to a stopped manager is refused, see Ask, and what
\* is sent to one that is drained but not disconnected yet is never received: a
\* record is as lost as a refused one, but the asker of a question learns nothing.

TellRecord(g, d, valid) ==
    /\ manager = "up"
    /\ Len(told) < MaxRecords
    /\ told' = Append(told, [group |-> g, device |-> d, valid |-> valid])
    /\ managerBox' = Append(managerBox, Record(Len(told) + 1))
    /\ UNCHANGED <<asked, manager, groups, queries, incarnations, watchers>>

AskAverage(i) ==
    /\ manager = "up"
    /\ asked[i].status = "unasked"
    /\ asked' = [asked EXCEPT ![i].status = "pending", ![i].since = Len(told)]
    /\ managerBox' = Append(managerBox, Average(i))
    /\ UNCHANGED <<told, manager, groups, queries, incarnations, watchers>>

\* The question stays in the channel while anybody holds a reference, as its asker
\* does: only the timeout of its ask ends it.
SlipAverage(i) ==
    /\ manager = "drained"
    /\ asked[i].status = "unasked"
    /\ asked' = [asked EXCEPT ![i].status = "slipped"]
    /\ UNCHANGED <<told, managers, groups, queries, incarnations, watchers>>

TellShutdown ==
    /\ manager = "up"
    /\ \A n \in DOMAIN managerBox : managerBox[n] # Shutdown
    /\ managerBox' = Append(managerBox, Shutdown)
    /\ UNCHANGED <<clients, manager, groups, queries, incarnations, watchers>>

-----------------------------------------------------------------------------
\* The manager.

ManagerReceives(kind) ==
    /\ manager = "up"
    /\ managerBox # <<>>
    /\ Head(managerBox).kind = kind
    /\ managerBox' = Tail(managerBox)

\* An unknown group is spawned, and a known one is up.
RouteRecord ==
    /\ ManagerReceives("record")
    /\ LET g == told[Head(managerBox).of].group
       IN  /\ group' = [group EXCEPT ![g] = "up"]
           /\ groupBox' = [groupBox EXCEPT ![g] = Append(@, Head(managerBox))]
    /\ UNCHANGED <<clients, manager, devices, queries, incarnations, watchers>>

RouteAverage ==
    /\ ManagerReceives("average")
    /\ LET i == Head(managerBox).of
           g == asked[i].group
       IN  IF group[g] = "up"
           THEN /\ groupBox' = [groupBox EXCEPT ![g] = Append(@, Head(managerBox))]
                /\ UNCHANGED asked
           ELSE asked' = Answered(i, {}) /\ UNCHANGED groupBox
    /\ UNCHANGED <<told, manager, group, devices, queries, incarnations, watchers>>

\* Control::Stop: terminate drains the mailbox, and keeps what was queued ...
StopManager ==
    /\ ManagerReceives("shutdown")
    /\ manager' = "drained"
    /\ UNCHANGED <<clients, groups, queries, incarnations, watchers>>

\* ... until the channel is disconnected.
DisconnectManager ==
    /\ manager = "drained"
    /\ manager' = "stopped"
    /\ managerBox' = <<>>
    /\ asked' = Unanswered(Requests(managerBox))
    /\ UNCHANGED <<told, groups, queries, incarnations, watchers>>

-----------------------------------------------------------------------------
\* A group.

GroupReceives(g, kind) ==
    /\ group[g] = "up"
    /\ groupBox[g] # <<>>
    /\ Head(groupBox[g]).kind = kind
    /\ groupBox' = [groupBox EXCEPT ![g] = Tail(@)]

\* Variant: an incarnation is not watched by its group.
NotWatched(g) == {}

WatchedBy(g) == {g}

\* An unknown device is spawned and watched, and the record is told to whoever is
\* registered, dead or alive.
RecordInGroup(g) ==
    /\ GroupReceives(g, "record")
    /\ LET k == Head(groupBox[g]).of
           known == {x \in devices[g] : SameDevice(x, k)}
       IN  IF known = {}
           THEN /\ devices' = [devices EXCEPT ![g] = @ \cup {k}]
                /\ device' = [device EXCEPT ![k].life = "up"]
                /\ deviceBox' = [deviceBox EXCEPT ![k] = <<Record(k)>>]
                /\ watchers' = [watchers EXCEPT ![k] = WatchedBy(g)]
           ELSE /\ deviceBox' =
                     [x \in Number |->
                        IF x \in known /\ device[x].life = "up"
                        THEN Append(deviceBox[x], Record(k)) ELSE deviceBox[x]]
                /\ UNCHANGED <<devices, device, watchers>>
    /\ UNCHANGED <<clients, managers, group, queries>>

\* A query is spawned and told all devices of the registry.
AverageInGroup(g) ==
    /\ GroupReceives(g, "average")
    /\ LET i == Head(groupBox[g]).of
       IN  /\ query' = [query EXCEPT ![i].phase = "starting",
                                     ![i].todo = devices[g]]
           /\ queryBox' = [queryBox EXCEPT ![i] = <<Start>>]
    /\ UNCHANGED <<clients, managers, group, devices, incarnations, watchers>>

Prune(g) ==
    /\ GroupReceives(g, "terminated")
    /\ devices' = [devices EXCEPT ![g] = @ \ {Head(groupBox[g]).of}]
    /\ UNCHANGED <<clients, managers, group, queries, incarnations, watchers>>

StopGroup(g) ==
    /\ manager = "stopped"
    /\ group[g] = "up"
    /\ group' = [group EXCEPT ![g] = "stopped"]
    /\ groupBox' = [groupBox EXCEPT ![g] = <<>>]
    /\ asked' = Unanswered(Requests(groupBox[g]))
    /\ UNCHANGED <<told, managers, devices, queries, incarnations, watchers>>

-----------------------------------------------------------------------------
\* A query.  The devices it watches are those that are pending, so that it
\* receives a signal only of these.

QueryReceives(i, phase, kind) ==
    /\ query[i].phase = phase
    /\ queryBox[i] # <<>>
    /\ Head(queryBox[i]).kind = kind

\* Query::conclude
Conclude(i, pending, counted) ==
    IF pending = {}
    THEN /\ query' = [query EXCEPT ![i].phase = "stopped", ![i].pending = {}]
         /\ queryBox' = [queryBox EXCEPT ![i] = <<>>]
         /\ asked' = Answered(i, counted)
    ELSE /\ query' = [query EXCEPT ![i].pending = pending, ![i].counted = counted]
         /\ queryBox' = [queryBox EXCEPT ![i] = Tail(@)]
         /\ UNCHANGED asked

Begin(i) ==
    /\ QueryReceives(i, "starting", "start")
    /\ IF query[i].todo = {}
       THEN Conclude(i, {}, {})
       ELSE /\ query' = [query EXCEPT ![i].phase = "fanning_out"]
            /\ queryBox' = [queryBox EXCEPT ![i] = Tail(@)]
            /\ UNCHANGED asked
    /\ UNCHANGED <<told, managers, groups, incarnations, watchers>>

\* Variant: whoever has terminated is not signalled for.
Unsignalled(i, x) == queryBox

\* ActorContext::watch of a terminated device signals at once.
SelfSignalled(i, x) == [queryBox EXCEPT ![i] = Append(@, Terminated(x))]

\* One turn of the loop, within one turn of the query: watch, and tell to read.
FanOut(i, x) ==
    /\ query[i].phase = "fanning_out"
    /\ x \in query[i].todo
    /\ query' = [query EXCEPT
                   ![i].phase = IF query[i].todo = {x} THEN "running" ELSE @,
                   ![i].todo = @ \ {x},
                   ![i].pending = @ \cup {x}]
    /\ IF device[x].life = "gone"
       THEN queryBox' = SelfSignalled(i, x) /\ UNCHANGED watchers
       ELSE watchers' = [watchers EXCEPT ![x] = @ \cup {i}] /\ UNCHANGED queryBox
    /\ deviceBox' = IF device[x].life = "up"
                    THEN [deviceBox EXCEPT ![x] = Append(@, Read(i))] ELSE deviceBox
    /\ UNCHANGED <<clients, managers, groups, device>>

\* A reading ends the watch of its device.
Collect(i) ==
    /\ QueryReceives(i, "running", "reading")
    /\ LET x == Head(queryBox[i]).of
           k == Head(queryBox[i]).reading
       IN  /\ Conclude(i, query[i].pending \ {x}, query[i].counted \cup ({k} \ {None}))
           /\ watchers' = [watchers EXCEPT ![x] = @ \ {i}]
    /\ UNCHANGED <<told, managers, groups, incarnations>>

\* A signal of a device that is not watched any more is not received.
GiveUpOn(i) ==
    /\ QueryReceives(i, "running", "terminated")
    /\ LET x == Head(queryBox[i]).of
       IN  IF x \in query[i].pending
           THEN Conclude(i, query[i].pending \ {x}, query[i].counted)
           ELSE queryBox' = [queryBox EXCEPT ![i] = Tail(@)] /\ UNCHANGED <<query, asked>>
    /\ UNCHANGED <<told, managers, groups, incarnations, watchers>>

\* The parent stops the query between two turns; its ReplyTo is dropped.
StopQuery(i) ==
    /\ query[i].phase \in {"starting", "running"}
    /\ group[asked[i].group] = "stopped"
    /\ query' = [query EXCEPT ![i].phase = "stopped", ![i].pending = {}]
    /\ queryBox' = [queryBox EXCEPT ![i] = <<>>]
    /\ asked' = Unanswered({i})
    /\ watchers' = [x \in Number |-> watchers[x] \ {i}]
    /\ UNCHANGED <<told, managers, groups, incarnations>>

-----------------------------------------------------------------------------
\* An incarnation of a device.

DeviceReceives(x, kind) ==
    /\ device[x].life = "up"
    /\ deviceBox[x] # <<>>
    /\ Head(deviceBox[x]).kind = kind

Closes(x) ==
    /\ device' = [device EXCEPT ![x].life = "closed"]
    /\ deviceBox' = [deviceBox EXCEPT ![x] = <<>>]

Store(x) ==
    /\ DeviceReceives(x, "record")
    /\ told[Head(deviceBox[x]).of].valid
    /\ device' = [device EXCEPT ![x].reading = Head(deviceBox[x]).of]
    /\ deviceBox' = [deviceBox EXCEPT ![x] = Tail(@)]
    /\ UNCHANGED <<clients, managers, groups, queries, watchers>>

\* Variant: the failed state is carried over the restart.
ReadingAfterRestart(x) == device[x].reading

\* Device::init
InitialReading(x) == None

\* Variant: the mailbox belongs to the failed state.
MailboxLost(x) == <<>>

\* The failing record is consumed, the rest stays queued.
MailboxRetained(x) == Tail(deviceBox[x])

\* Variant: one restart too many.
RestartsOnceMore(streak) == streak <= MaxRestarts

RestartsAgain(streak) == streak < MaxRestarts

\* Not a number: the device restarts, in a new streak if it was up for long
\* enough, or terminates.
FailOnNaN(x) ==
    /\ DeviceReceives(x, "record")
    /\ ~told[Head(deviceBox[x]).of].valid
    /\ \E streak \in {0, device[x].restarts} :
         IF RestartsAgain(streak)
         THEN /\ device' = [device EXCEPT ![x].restarts = streak + 1,
                                          ![x].reading = InitialReading(x)]
              /\ deviceBox' = [deviceBox EXCEPT ![x] = MailboxRetained(x)]
         ELSE Closes(x)
    /\ UNCHANGED <<clients, managers, groups, queries, watchers>>

\* The reply is an ordinary tell to the query.
Reply(x) ==
    /\ DeviceReceives(x, "read")
    /\ LET i == Head(deviceBox[x]).of
       IN  queryBox' = IF query[i].phase = "stopped" THEN queryBox
                       ELSE [queryBox EXCEPT
                               ![i] = Append(@, Reading(x, device[x].reading))]
    /\ deviceBox' = [deviceBox EXCEPT ![x] = Tail(@)]
    /\ UNCHANGED <<clients, managers, groups, query, device, watchers>>

StopDevice(x) ==
    /\ device[x].life = "up"
    /\ group[told[x].group] = "stopped"
    /\ Closes(x)
    /\ UNCHANGED <<clients, managers, groups, queries, watchers>>

\* The destructors have run, and the registry of watchers is closed.
FallSilent(x) ==
    /\ device[x].life = "closed"
    /\ device' = [device EXCEPT ![x].life = "gone"]
    /\ UNCHANGED <<clients, managers, groups, queries, deviceBox, watchers>>

\* Variant: the watchers are signalled once the mailbox is closed.
GoneOrClosed(x) == device[x].life \in {"gone", "closed"}

MaySignal(x) == device[x].life = "gone"

\* Variant: a signal is delivered ahead of what the device has sent.
Overtaking(x, box) == <<Terminated(x)>> \o box

Behind(x, box) == Append(box, Terminated(x))

SignalGroup(x, g) ==
    /\ MaySignal(x)
    /\ g \in watchers[x]
    /\ watchers' = [watchers EXCEPT ![x] = @ \ {g}]
    /\ groupBox' = IF group[g] = "up"
                   THEN [groupBox EXCEPT ![g] = Behind(x, @)] ELSE groupBox
    /\ UNCHANGED <<clients, managers, group, devices, queries, incarnations>>

SignalQuery(x, i) ==
    /\ MaySignal(x)
    /\ i \in watchers[x]
    /\ watchers' = [watchers EXCEPT ![x] = @ \ {i}]
    /\ queryBox' = [queryBox EXCEPT ![i] = Behind(x, @)]
    /\ UNCHANGED <<clients, managers, groups, query, incarnations>>

-----------------------------------------------------------------------------
Init ==
    /\ told = <<>>
    /\ asked \in [Ask -> [status : {"unasked"}, group : Group, since : {0},
                          counted : {{}}]]
    /\ manager = "up"
    /\ managerBox = <<>>
    /\ group = [g \in Group |-> "unborn"]
    /\ groupBox = [g \in Group |-> <<>>]
    /\ devices = [g \in Group |-> {}]
    /\ query = [i \in Ask |-> [phase |-> "unborn", todo |-> {}, pending |-> {},
                               counted |-> {}]]
    /\ queryBox = [i \in Ask |-> <<>>]
    /\ device = [x \in Number |-> [life |-> "unborn", reading |-> None,
                                   restarts |-> 0]]
    /\ deviceBox = [x \in Number |-> <<>>]
    /\ watchers = [x \in Number |-> {}]

ClientSteps ==
    \/ \E g \in Group, d \in Device, valid \in BOOLEAN : TellRecord(g, d, valid)
    \/ \E i \in Ask : AskAverage(i)
    \/ \E i \in Ask : SlipAverage(i)
    \/ TellShutdown

ManagerSteps ==
    RouteRecord \/ RouteAverage \/ StopManager \/ DisconnectManager

GroupSteps(g) ==
    RecordInGroup(g) \/ AverageInGroup(g) \/ Prune(g) \/ StopGroup(g)

QuerySteps(i) ==
    \/ Begin(i)
    \/ \E x \in Number : FanOut(i, x)
    \/ Collect(i)
    \/ GiveUpOn(i)
    \/ StopQuery(i)

DeviceSteps(x) ==
    \/ Store(x)
    \/ FailOnNaN(x)
    \/ Reply(x)
    \/ StopDevice(x)
    \/ FallSilent(x)
    \/ \E g \in Group : SignalGroup(x, g)
    \/ \E i \in Ask : SignalQuery(x, i)

Next ==
    \/ ClientSteps
    \/ ManagerSteps
    \/ \E g \in Group : GroupSteps(g)
    \/ \E i \in Ask : QuerySteps(i)
    \/ \E x \in Number : DeviceSteps(x)

Spec == Init /\ [][Next]_vars

\* Every task with something to do is polled, and the backoff elapses.
Fairness ==
    /\ WF_vars(ManagerSteps)
    /\ \A g \in Group : WF_vars(GroupSteps(g))
    /\ \A i \in Ask : WF_vars(QuerySteps(i))
    /\ \A x \in Number : WF_vars(DeviceSteps(x))

FairSpec == Spec /\ Fairness

-----------------------------------------------------------------------------
\* Properties.

\* Every variable has its type; mailboxes aside, whose contents the handlers select.
DeviceManagerTypeOK ==
    /\ \A k \in DOMAIN told : told[k] \in [group : Group, device : Device,
                                           valid : BOOLEAN]
    /\ asked \in [Ask -> [status : {"unasked", "pending", "answered", "no_reply",
                                    "slipped"},
                          group : Group, since : 0 .. MaxRecords,
                          counted : SUBSET Number]]
    /\ manager \in {"up", "drained", "stopped"}
    /\ group \in [Group -> {"unborn", "up", "stopped"}]
    /\ devices \in [Group -> SUBSET Number]
    /\ query \in [Ask -> [phase : {"unborn", "starting", "fanning_out", "running",
                                   "stopped"},
                          todo : SUBSET Number, pending : SUBSET Number,
                          counted : SUBSET Number]]
    /\ device \in [Number -> [life : {"unborn", "up", "closed", "gone"},
                              reading : {None} \cup Number,
                              restarts : 0 .. MaxRestarts]]
    /\ watchers \in [Number -> SUBSET (Group \cup Ask)]

\* An answer counts every device at most once, and never with a reading older than
\* the last record told before the question: not after a failure either, nor
\* from a former incarnation (device_manager.rs:5-7, 45).
AnswersAreFresh ==
    \A i \in Ask : \A k \in asked[i].counted :
        /\ told[k].valid
        /\ \A l \in asked[i].counted : SameDevice(k, l) => k = l
        /\ \A l \in 1 .. asked[i].since : SameDevice(k, l) => l <= k

InvalidRecords(k) == {l \in DOMAIN told : SameDevice(k, l) /\ ~told[l].valid}

\* While the manager is up, an answer counts every device with a valid record told
\* before the question, unless the device was told an invalid one later or more of
\* them than its restarts make up for.  So a query that ends counts nobody out by
\* mistake, and a failure loses no record that is queued behind it.
AnswersAreComplete ==
    manager = "up" =>
        \A i \in Ask : asked[i].status = "answered" =>
            \A k \in 1 .. asked[i].since :
                /\ told[k].group = asked[i].group
                /\ \A l \in DOMAIN told : (SameDevice(k, l) /\ l >= k) => told[l].valid
                /\ Cardinality(InvalidRecords(k)) <= MaxRestarts
                => \E l \in asked[i].counted : SameDevice(k, l)

\* A device is not spawned again before its predecessor has ended, destructors
\* included: what a device owns has one owner at a time.
SuccessorsDoNotOverlap ==
    \A x, y \in Number :
        (/\ device[x].life \in {"up", "closed"}
         /\ device[y].life \in {"up", "closed"}
         /\ SameDevice(x, y))
            => x = y

\* Whatever reading is still on its way to a query, the query waits for it: a
\* signal proves that its device will not reply (device_manager.rs:3-5, 290).
ReadingsArePending ==
    \A i \in Ask, x \in Number :
        \/ \E n \in DOMAIN queryBox[i] :
              queryBox[i][n].kind = "reading" /\ queryBox[i][n].of = x
        \/ \E n \in DOMAIN deviceBox[x] : deviceBox[x][n] = Read(i)
        => x \in query[i].pending \/ query[i].phase = "stopped"

\* Every question that has reached the manager's mailbox before the drain is
\* answered, or known to be lost, without a deadline among the actors
\* (device_manager.rs:3-5), whatever devices do meanwhile and whoever stops.  It
\* is only a question that slips in after the drain which needs the deadline of
\* its ask (docs/actors.md:238-239), and this one is not pending but slipped.
AsksResolve ==
    \A i \in Ask : asked[i].status = "pending" ~> asked[i].status # "pending"

\* The registry of a group that is up gets rid of every device that has terminated:
\* a device told nothing but invalid readings can be told valid ones again.
DeadArePruned ==
    \A x \in Number, g \in Group :
        (device[x].life = "gone" /\ x \in devices[g]) ~>
            (x \notin devices[g] \/ group[g] = "stopped")
=============================================================================
