------------------------ MODULE DeviceManagerProofs ------------------------
(***************************************************************************)
(* Proofs about DeviceManager, for every set of groups, devices and          *)
(* requests and any number of records.                                      *)
(***************************************************************************)

EXTENDS DeviceManager, FiniteSetTheorems, SequenceTheorems, TLAPS

USE DeviceManagerAssumption

-----------------------------------------------------------------------------
(***************************************************************************)
(* The types, mailboxes included.                                           *)
(***************************************************************************)

ManagerMessage ==
    {Record(k) : k \in Number} \cup {Average(i) : i \in Ask} \cup {Shutdown}

GroupMessage ==
    {Record(k) : k \in Number} \cup {Average(i) : i \in Ask}
        \cup {Terminated(x) : x \in Number}

QueryMessage ==
    {Start} \cup {Terminated(x) : x \in Number}
        \cup {Reading(x, k) : x \in Number, k \in {None} \cup Number}

DeviceMessage == {Record(k) : k \in Number} \cup {Read(i) : i \in Ask}

Data == [group : Group, device : Device, valid : BOOLEAN]

Question ==
    [status : {"unasked", "pending", "answered", "no_reply", "slipped"},
     group : Group, since : 0 .. MaxRecords, counted : SUBSET Number]

Querying ==
    [phase : {"unborn", "starting", "fanning_out", "running", "stopped"},
     todo : SUBSET Number, pending : SUBSET Number, counted : SUBSET Number]

Incarnation ==
    [life : {"unborn", "up", "closed", "gone"}, reading : {None} \cup Number,
     restarts : 0 .. MaxRestarts]

Types ==
    /\ told \in Seq(Data) /\ Len(told) <= MaxRecords
    /\ asked \in [Ask -> Question]
    /\ manager \in {"up", "drained", "stopped"}
    /\ managerBox \in Seq(ManagerMessage)
    /\ group \in [Group -> {"unborn", "up", "stopped"}]
    /\ groupBox \in [Group -> Seq(GroupMessage)]
    /\ devices \in [Group -> SUBSET Number]
    /\ query \in [Ask -> Querying]
    /\ queryBox \in [Ask -> Seq(QueryMessage)]
    /\ device \in [Number -> Incarnation]
    /\ deviceBox \in [Number -> Seq(DeviceMessage)]
    /\ watchers \in [Number -> SUBSET (Group \cup Ask)]

-----------------------------------------------------------------------------
(***************************************************************************)
(* What is in the mailboxes, and in which order.                            *)
(***************************************************************************)

In(q, message) == \E n \in 1 .. Len(q) : q[n] = message

Distinct(q) == \A n, o \in 1 .. Len(q) : q[n] = q[o] => n = o

\* Wherever both are in q, first is ahead of second.
Ahead(q, first, second) ==
    \A n, o \in 1 .. Len(q) : q[n] = first /\ q[o] = second => n < o

Told == 1 .. Len(told)

Started(i) == query[i].phase # "unborn"

-----------------------------------------------------------------------------
(***************************************************************************)
(* The inductive invariant.                                                 *)
(***************************************************************************)

NoDuplicates ==
    /\ Distinct(managerBox)
    /\ \A g \in Group : Distinct(groupBox[g])
    /\ \A i \in Ask : Distinct(queryBox[i])
    /\ \A x \in Number : Distinct(deviceBox[x])

\* The registry of a group has what is alive of its devices, once.
Registry ==
    /\ \A g \in Group : \A x \in devices[g] :
          x \in Told /\ told[x].group = g /\ device[x].life # "unborn"
    /\ \A g \in Group : \A x, y \in devices[g] : SameDevice(x, y) => x = y
    /\ \A x \in Number : device[x].life # "unborn" => x \in Told
    /\ \A x \in Number :
          device[x].life \in {"up", "closed"} => x \in devices[told[x].group]

\* Who has terminated is gone, and signals once.
Signals ==
    /\ \A g \in Group : \A x \in Number : In(groupBox[g], Terminated(x)) =>
          device[x].life = "gone" /\ g \notin watchers[x]
    /\ \A i \in Ask : \A x \in Number : In(queryBox[i], Terminated(x)) =>
          device[x].life = "gone" /\ i \notin watchers[x]

\* A record is in one place, and on its way to the device it is for.
Records ==
    /\ \A x \in Number : device[x].life # "up" => deviceBox[x] = <<>>
    /\ \A k \in Number : In(managerBox, Record(k)) =>
          /\ k \in Told /\ device[k].life = "unborn"
          /\ \A g \in Group : ~In(groupBox[g], Record(k))
          /\ \A x \in Number : ~In(deviceBox[x], Record(k))
    /\ \A g \in Group : \A k \in Number : In(groupBox[g], Record(k)) =>
          /\ k \in Told /\ told[k].group = g /\ device[k].life = "unborn"
          /\ \A x \in Number : ~In(deviceBox[x], Record(k))
    /\ \A x, k \in Number : In(deviceBox[x], Record(k)) =>
          k \in Told /\ SameDevice(k, x)
    /\ \A x \in Number : device[x].reading # None =>
          /\ device[x].reading \in Told
          /\ told[device[x].reading].valid
          /\ SameDevice(device[x].reading, x)
    /\ \A x \in Number : device[x].life = "unborn" =>
          device[x].reading = None /\ device[x].restarts = 0

\* A question is in one place, and of the group it is routed to.
Questions ==
    /\ \A i \in Ask : asked[i].since <= Len(told)
    /\ \A i \in Ask : In(managerBox, Average(i)) =>
          /\ ~Started(i) /\ asked[i].status = "pending"
          /\ \A g \in Group : ~In(groupBox[g], Average(i))
    /\ \A g \in Group : \A i \in Ask : In(groupBox[g], Average(i)) =>
          ~Started(i) /\ asked[i].status = "pending" /\ asked[i].group = g
    /\ \A i \in Ask : Started(i) => asked[i].status # "unasked"

\* How far a query has come.
Phases ==
    /\ \A i \in Ask : ~Started(i) =>
          /\ queryBox[i] = <<>>
          /\ query[i].todo = {} /\ query[i].pending = {} /\ query[i].counted = {}
          /\ \A x \in Number : ~In(deviceBox[x], Read(i)) /\ i \notin watchers[x]
    /\ \A i \in Ask : query[i].phase = "starting" =>
          query[i].pending = {} /\ query[i].counted = {}
    /\ \A i \in Ask : query[i].phase = "running" => query[i].todo = {}
    /\ \A i \in Ask : \A x \in query[i].todo \cup query[i].pending :
          /\ x \in Told /\ device[x].life # "unborn"
          /\ told[x].group = asked[i].group
    /\ \A i \in Ask : \A x, y \in query[i].todo \cup query[i].pending :
          SameDevice(x, y) => x = y

Asking(i, x) == In(deviceBox[x], Read(i))

Replied(i, x) == \E k \in {None} \cup Number : In(queryBox[i], Reading(x, k))

\* Between a query and a device: what is under way, and what is waited for.
ReadingsOf(i) ==
    /\ \A x \in query[i].todo :
          /\ x \notin query[i].pending /\ i \notin watchers[x]
          /\ ~Asking(i, x) /\ ~Replied(i, x)
          /\ ~In(queryBox[i], Terminated(x))
    /\ \A x \in Number : Asking(i, x) =>
          \/ query[i].phase = "stopped"
          \/ x \in query[i].pending /\ ~Replied(i, x)
    /\ \A x \in Number : Replied(i, x) =>
          x \in query[i].pending /\ query[i].phase # "stopped"
    /\ \A x \in Number : \A k, l \in {None} \cup Number :
          In(queryBox[i], Reading(x, k)) /\ In(queryBox[i], Reading(x, l)) => k = l
    /\ \A x \in Number : \A k \in {None} \cup Number :
          Ahead(queryBox[i], Reading(x, k), Terminated(x))

Readings == \A i \in Ask : ReadingsOf(i)

-----------------------------------------------------------------------------
(***************************************************************************)
(* Queues of messages.                                                      *)
(***************************************************************************)

\* after has what before has, in the same order, or less of it.
Within(before, after) ==
    /\ \A m : In(after, m) => In(before, m)
    /\ \A a, b : Ahead(before, a, b) => Ahead(after, a, b)
    /\ Distinct(before) => Distinct(after)

\* after has m behind what before has.
Plus(before, after, m) ==
    /\ \A x : In(after, x) <=> In(before, x) \/ x = m
    /\ \A a, b : Ahead(before, a, b) /\ m # a => Ahead(after, a, b)
    /\ \A a, b : ~In(before, b) /\ b # m => Ahead(after, a, b)
    /\ Distinct(before) /\ ~In(before, m) => Distinct(after)

\* after has what before has behind m.
Minus(before, after, m) ==
    /\ Within(before, after)
    /\ In(before, m)
    /\ \A x : In(before, x) => In(after, x) \/ x = m
    /\ Distinct(before) => ~In(after, m)
    /\ \A a : Ahead(before, a, m) /\ a # m => ~In(before, a)

LEMMA Appended ==
    ASSUME NEW S, NEW q \in Seq(S), NEW m \in S
    PROVE  Append(q, m) \in Seq(S) /\ Plus(q, Append(q, m), m)
<1> DEFINE r == Append(q, m)
<1>1. /\ r \in Seq(S) /\ Len(r) = Len(q) + 1 /\ Len(q) \in Nat
      /\ \A n \in 1 .. Len(q) : r[n] = q[n]
      /\ r[Len(q) + 1] = m
  BY AppendProperties
<1>2. /\ \A n \in 1 .. Len(r) : n \in 1 .. Len(q) \/ n = Len(q) + 1
      /\ \A n \in 1 .. Len(q) : n \in 1 .. Len(r) /\ n < Len(q) + 1
      /\ Len(q) + 1 \in 1 .. Len(r)
  BY <1>1
<1> HIDE DEF r
<1>3. \A x : In(r, x) <=> In(q, x) \/ x = m
  BY <1>1, <1>2 DEF In
<1>4. Distinct(q) /\ ~In(q, m) => Distinct(r)
  BY <1>1, <1>2 DEF In, Distinct
<1>5. \A a, b : Ahead(q, a, b) /\ m # a => Ahead(r, a, b)
  BY <1>1, <1>2 DEF Ahead
<1>6. \A a, b : ~In(q, b) /\ b # m => Ahead(r, a, b)
  BY <1>1, <1>2 DEF Ahead, In
<1> QED
  BY <1>1, <1>3, <1>4, <1>5, <1>6 DEF Plus, r

LEMMA Received ==
    ASSUME NEW S, NEW q \in Seq(S), q # <<>>
    PROVE  /\ Head(q) \in S
           /\ Tail(q) \in Seq(S)
           /\ Minus(q, Tail(q), Head(q))
<1> DEFINE t == Tail(q)
           h == Head(q)
<1>1. /\ h = q[1] /\ h \in S /\ Len(q) \in Nat \ {0}
      /\ t \in Seq(S) /\ Len(t) = Len(q) - 1
      /\ \A n \in 1 .. Len(t) : t[n] = q[n + 1]
  BY HeadTailProperties, EmptySeq, LenProperties
<1> HIDE DEF t, h
<1>2. /\ \A n \in 1 .. Len(t) : n + 1 \in 1 .. Len(q) /\ n + 1 # 1
      /\ \A n \in 1 .. Len(q) : n = 1 \/ (n - 1 \in 1 .. Len(t) /\ t[n - 1] = q[n])
      /\ 1 \in 1 .. Len(q)
      /\ \A n \in 1 .. Len(q) : ~(n < 1)
  BY <1>1
<1>3. In(q, h)
  BY <1>1, <1>2 DEF In
<1>4. \A x : In(t, x) => In(q, x)
  BY <1>1, <1>2 DEF In
<1>5. \A x : In(q, x) => In(t, x) \/ x = h
  BY <1>1, <1>2 DEF In
<1>6. Distinct(q) => Distinct(t)
  <2> SUFFICES ASSUME Distinct(q), NEW n \in 1 .. Len(t), NEW o \in 1 .. Len(t),
                      t[n] = t[o]
               PROVE  n = o
    BY DEF Distinct
  <2>1. q[n + 1] = q[o + 1] /\ n + 1 \in 1 .. Len(q) /\ o + 1 \in 1 .. Len(q)
    BY <1>1, <1>2
  <2>2. n + 1 = o + 1
    BY <2>1 DEF Distinct
  <2> QED
    BY <2>2
<1>7. Distinct(q) => ~In(t, h)
  <2> SUFFICES ASSUME Distinct(q), NEW n \in 1 .. Len(t), t[n] = h PROVE FALSE
    BY DEF In
  <2>1. q[n + 1] = q[1] /\ n + 1 \in 1 .. Len(q) /\ n + 1 # 1
    BY <1>1, <1>2
  <2> QED
    BY <1>2, <2>1 DEF Distinct
<1>8. ASSUME NEW a, NEW b, Ahead(q, a, b) PROVE Ahead(t, a, b)
  <2> SUFFICES ASSUME NEW n \in 1 .. Len(t), NEW o \in 1 .. Len(t),
                      t[n] = a, t[o] = b
               PROVE  n < o
    BY DEF Ahead
  <2>1. /\ q[n + 1] = a /\ q[o + 1] = b
        /\ n + 1 \in 1 .. Len(q) /\ o + 1 \in 1 .. Len(q)
    BY <1>1, <1>2
  <2>2. n + 1 < o + 1
    BY <2>1, <1>8 DEF Ahead
  <2> QED
    BY <2>2
<1>9. ASSUME NEW a, Ahead(q, a, h), a # h PROVE ~In(q, a)
  BY <1>1, <1>2, <1>9 DEF In, Ahead
<1> QED
  BY <1>1, <1>3, <1>4, <1>5, <1>6, <1>7, <1>8, <1>9 DEF Minus, Within, t, h

\* Nothing is in an empty queue, and what is the same is within itself.
LEMMA Emptied ==
    /\ \A S : <<>> \in Seq(S)
    /\ \A m : ~In(<<>>, m)
    /\ \A q : Within(q, <<>>)
    /\ \A q : Within(q, q)
<1>1. Len(<<>>) = 0 /\ \A S : <<>> \in Seq(S)
  BY EmptySeq
<1>2. \A m : ~In(<<>>, m)
  BY <1>1 DEF In
<1>3. Distinct(<<>>) /\ \A a, b : Ahead(<<>>, a, b)
  BY <1>1 DEF Distinct, Ahead
<1> QED
  BY <1>1, <1>2, <1>3 DEF Within

\* One message is all there is in a queue of one.
LEMMA Alone ==
    ASSUME NEW S, NEW m \in S
    PROVE  /\ <<m>> \in Seq(S)
           /\ \A x : In(<<m>>, x) <=> x = m
           /\ Distinct(<<m>>)
           /\ \A a, b : a # b => Ahead(<<m>>, a, b)
<1>1. <<m>> \in Seq(S) /\ Len(<<m>>) = 1 /\ <<m>>[1] = m
  OBVIOUS
<1>2. \A n \in 1 .. Len(<<m>>) : n = 1
  BY <1>1
<1>3. 1 \in 1 .. Len(<<m>>)
  BY <1>1
<1> QED
  BY <1>1, <1>2, <1>3 DEF In, Distinct, Ahead

\* Absent messages are in any order.
LEMMA Unordered ==
    \A q, a, b : ~In(q, a) \/ ~In(q, b) => Ahead(q, a, b)
BY DEF In, Ahead

\* Messages are told apart by their kind and by what they are of.
LEMMA Messages ==
    /\ \A k : Record(k).kind = "record" /\ Record(k).of = k
    /\ \A i : Average(i).kind = "average" /\ Average(i).of = i
    /\ \A x : Terminated(x).kind = "terminated" /\ Terminated(x).of = x
    /\ \A i : Read(i).kind = "read" /\ Read(i).of = i
    /\ \A x, k : /\ Reading(x, k).kind = "reading" /\ Reading(x, k).of = x
                 /\ Reading(x, k).reading = k
    /\ Shutdown.kind = "shutdown" /\ Start.kind = "start"
BY DEF Record, Average, Terminated, Read, Reading, Shutdown, Start

LEMMA Apart ==
    /\ \A k, l : Record(k) = Record(l) => k = l
    /\ \A i, j : Average(i) = Average(j) => i = j
    /\ \A x, y : Terminated(x) = Terminated(y) => x = y
    /\ \A i, j : Read(i) = Read(j) => i = j
    /\ \A x, y, k, l : Reading(x, k) = Reading(y, l) => x = y /\ k = l
    /\ \A k, x : Record(k) # Average(x) /\ Record(k) # Terminated(x)
    /\ \A k, x : Record(k) # Read(x) /\ Average(k) # Terminated(x)
    /\ \A k, x, r : Reading(x, r) # Terminated(k)
    /\ \A k : Shutdown # Record(k) /\ Shutdown # Average(k) /\ Start # Terminated(k)
    /\ \A x, k : Start # Reading(x, k)
BY Messages

LEMMA Kinds ==
    /\ \A k \in Number :
          Record(k) \in ManagerMessage /\ Record(k) \in GroupMessage
             /\ Record(k) \in DeviceMessage
    /\ \A i \in Ask :
          Average(i) \in ManagerMessage /\ Average(i) \in GroupMessage
             /\ Read(i) \in DeviceMessage
    /\ \A x \in Number :
          Terminated(x) \in GroupMessage /\ Terminated(x) \in QueryMessage
    /\ \A x \in Number : \A k \in {None} \cup Number :
          Reading(x, k) \in QueryMessage
    /\ Shutdown \in ManagerMessage /\ Start \in QueryMessage
BY DEF ManagerMessage, GroupMessage, QueryMessage, DeviceMessage

\* What a message of a kind is.
LEMMA OfManager ==
    ASSUME NEW m \in ManagerMessage
    PROVE  /\ m.kind = "record" => m.of \in Number /\ m = Record(m.of)
           /\ m.kind = "average" => m.of \in Ask /\ m = Average(m.of)
           /\ m.kind = "shutdown" => m = Shutdown
BY Messages DEF ManagerMessage

LEMMA OfGroup ==
    ASSUME NEW m \in GroupMessage
    PROVE  /\ m.kind = "record" => m.of \in Number /\ m = Record(m.of)
           /\ m.kind = "average" => m.of \in Ask /\ m = Average(m.of)
           /\ m.kind = "terminated" => m.of \in Number /\ m = Terminated(m.of)
BY Messages DEF GroupMessage

LEMMA OfQuery ==
    ASSUME NEW m \in QueryMessage
    PROVE  /\ m.kind = "start" => m = Start
           /\ m.kind = "reading" =>
                 /\ m.of \in Number /\ m.reading \in {None} \cup Number
                 /\ m = Reading(m.of, m.reading)
           /\ m.kind = "terminated" => m.of \in Number /\ m = Terminated(m.of)
BY Messages DEF QueryMessage

LEMMA OfDevice ==
    ASSUME NEW m \in DeviceMessage
    PROVE  /\ m.kind = "record" => m.of \in Number /\ m = Record(m.of)
           /\ m.kind = "read" => m.of \in Ask /\ m = Read(m.of)
BY Messages DEF DeviceMessage

-----------------------------------------------------------------------------
(***************************************************************************)
(* What the updates of the model do to the fields of their records.         *)
(***************************************************************************)

\* after is before but for a.
Elsewhere(before, after, D, a) == \A b \in D : b # a => after[b] = before[b]

LEMMA AnsweredFields ==
    ASSUME asked \in [Ask -> Question], NEW i \in Ask, NEW counted \in SUBSET Number
    PROVE  /\ Answered(i, counted) \in [Ask -> Question]
           /\ Answered(i, counted)[i].status = "answered"
           /\ Answered(i, counted)[i].counted = counted
           /\ Answered(i, counted)[i].group = asked[i].group
           /\ Answered(i, counted)[i].since = asked[i].since
           /\ Elsewhere(asked, Answered(i, counted), Ask, i)
BY DEF Answered, Question, Elsewhere

LEMMA UnansweredFields ==
    ASSUME asked \in [Ask -> Question], NEW asks
    PROVE  /\ Unanswered(asks) \in [Ask -> Question]
           /\ \A i \in Ask :
                 /\ Unanswered(asks)[i].group = asked[i].group
                 /\ Unanswered(asks)[i].since = asked[i].since
                 /\ Unanswered(asks)[i].counted = asked[i].counted
                 /\ i \in asks => Unanswered(asks)[i].status = "no_reply"
                 /\ i \notin asks => Unanswered(asks)[i] = asked[i]
BY DEF Unanswered, Question

-----------------------------------------------------------------------------
(***************************************************************************)
(* What happens in a step: an action, or one of its cases, by what it does  *)
(* to the mailboxes and the fields of the records.                          *)
(***************************************************************************)

Sends(before, after, D, a, m) ==
    Plus(before[a], after[a], m) /\ Elsewhere(before, after, D, a)

Takes(before, after, D, a, m) ==
    Minus(before[a], after[a], m) /\ Elsewhere(before, after, D, a)

RecordTold(k) ==
    /\ manager = "up"
    /\ k = Len(told) + 1 /\ k \in Number /\ k \notin Told
    /\ Told' = Told \cup {k}
    /\ \A l \in Told : told'[l] = told[l] /\ l < k
    /\ Plus(managerBox, managerBox', Record(k))
    /\ UNCHANGED <<asked, manager, group, groupBox, devices, query, queryBox,
                   device, deviceBox, watchers>>

QuestionAsked(i) ==
    /\ manager = "up"
    /\ asked[i].status = "unasked"
    /\ asked'[i].status = "pending" /\ asked'[i].since = Len(told)
    /\ asked'[i].group = asked[i].group /\ asked'[i].counted = asked[i].counted
    /\ Elsewhere(asked, asked', Ask, i)
    /\ Plus(managerBox, managerBox', Average(i))
    /\ UNCHANGED <<told, manager, group, groupBox, devices, query, queryBox,
                   device, deviceBox, watchers>>

ShutdownTold ==
    /\ manager = "up"
    /\ ~In(managerBox, Shutdown)
    /\ Plus(managerBox, managerBox', Shutdown)
    /\ UNCHANGED <<told, asked, manager, group, groupBox, devices, query, queryBox,
                   device, deviceBox, watchers>>

RecordRouted(k, g) ==
    /\ manager = "up"
    /\ g = told[k].group
    /\ Minus(managerBox, managerBox', Record(k))
    /\ Sends(groupBox, groupBox', Group, g, Record(k))
    /\ group'[g] = "up" /\ Elsewhere(group, group', Group, g)
    /\ UNCHANGED <<told, asked, manager, devices, query, queryBox, device, deviceBox,
                   watchers>>

QuestionRouted(i, g) ==
    /\ manager = "up"
    /\ g = asked[i].group /\ group[g] = "up"
    /\ Minus(managerBox, managerBox', Average(i))
    /\ Sends(groupBox, groupBox', Group, g, Average(i))
    /\ UNCHANGED <<told, asked, manager, group, devices, query, queryBox, device,
                   deviceBox, watchers>>

QuestionRefused(i) ==
    /\ manager = "up"
    /\ group[asked[i].group] # "up"
    /\ Minus(managerBox, managerBox', Average(i))
    /\ asked'[i].status = "answered" /\ asked'[i].counted = {}
    /\ asked'[i].group = asked[i].group /\ asked'[i].since = asked[i].since
    /\ Elsewhere(asked, asked', Ask, i)
    /\ UNCHANGED <<told, manager, group, groupBox, devices, query, queryBox, device,
                   deviceBox, watchers>>

\* Who is asked by a message of the box is told that there is no reply.
Dropped(box) ==
    \A i \in Ask :
        /\ asked'[i].group = asked[i].group /\ asked'[i].since = asked[i].since
        /\ asked'[i].counted = asked[i].counted
        /\ IF In(box, Average(i)) THEN asked'[i].status = "no_reply"
           ELSE asked'[i] = asked[i]

\* A question that nobody is going to see.
QuestionSlipped(i) ==
    /\ manager = "drained"
    /\ asked[i].status = "unasked" /\ asked'[i].status = "slipped"
    /\ asked'[i].group = asked[i].group /\ asked'[i].since = asked[i].since
    /\ asked'[i].counted = asked[i].counted
    /\ Elsewhere(asked, asked', Ask, i)
    /\ UNCHANGED <<told, manager, managerBox, group, groupBox, devices, query,
                   queryBox, device, deviceBox, watchers>>

ManagerDrained ==
    /\ manager = "up" /\ manager' = "drained"
    /\ Minus(managerBox, managerBox', Shutdown)
    /\ UNCHANGED <<told, asked, group, groupBox, devices, query, queryBox, device,
                   deviceBox, watchers>>

ManagerStopped ==
    /\ manager = "drained" /\ manager' = "stopped"
    /\ managerBox' = <<>>
    /\ Dropped(managerBox)
    /\ UNCHANGED <<told, group, groupBox, devices, query, queryBox, device, deviceBox,
                   watchers>>

DeviceSpawned(g, k) ==
    /\ group[g] = "up"
    /\ Takes(groupBox, groupBox', Group, g, Record(k))
    /\ \A x \in devices[g] : ~SameDevice(x, k)
    /\ devices'[g] = devices[g] \cup {k} /\ Elsewhere(devices, devices', Group, g)
    /\ device'[k].life = "up"
    /\ device'[k].reading = device[k].reading
    /\ device'[k].restarts = device[k].restarts
    /\ Elsewhere(device, device', Number, k)
    /\ deviceBox'[k] = <<Record(k)>> /\ Elsewhere(deviceBox, deviceBox', Number, k)
    /\ watchers'[k] = {g} /\ Elsewhere(watchers, watchers', Number, k)
    /\ UNCHANGED <<told, asked, manager, managerBox, group, query, queryBox>>

RecordForwarded(g, k, x) ==
    /\ group[g] = "up"
    /\ Takes(groupBox, groupBox', Group, g, Record(k))
    /\ x \in devices[g] /\ SameDevice(x, k)
    /\ IF device[x].life = "up"
       THEN Sends(deviceBox, deviceBox', Number, x, Record(k))
       ELSE deviceBox' = deviceBox
    /\ UNCHANGED <<told, asked, manager, managerBox, group, devices, query, queryBox,
                   device, watchers>>

QuerySpawned(g, i) ==
    /\ group[g] = "up"
    /\ Takes(groupBox, groupBox', Group, g, Average(i))
    /\ query'[i].phase = "starting" /\ query'[i].todo = devices[g]
    /\ query'[i].pending = query[i].pending /\ query'[i].counted = query[i].counted
    /\ Elsewhere(query, query', Ask, i)
    /\ queryBox'[i] = <<Start>> /\ Elsewhere(queryBox, queryBox', Ask, i)
    /\ UNCHANGED <<told, asked, manager, managerBox, group, devices, device, deviceBox,
                   watchers>>

DevicePruned(g, x) ==
    /\ group[g] = "up"
    /\ Takes(groupBox, groupBox', Group, g, Terminated(x))
    /\ devices'[g] = devices[g] \ {x} /\ Elsewhere(devices, devices', Group, g)
    /\ UNCHANGED <<told, asked, manager, managerBox, group, query, queryBox, device,
                   deviceBox, watchers>>

GroupStopped(g) ==
    /\ manager = "stopped"
    /\ group[g] = "up" /\ group'[g] = "stopped" /\ Elsewhere(group, group', Group, g)
    /\ groupBox'[g] = <<>> /\ Elsewhere(groupBox, groupBox', Group, g)
    /\ Dropped(groupBox[g])
    /\ UNCHANGED <<told, manager, managerBox, devices, query, queryBox, device,
                   deviceBox, watchers>>

QueryBegun(i) ==
    /\ query[i].phase = "starting" /\ query'[i].phase = "fanning_out"
    /\ query'[i].todo = query[i].todo /\ query'[i].pending = query[i].pending
    /\ query'[i].counted = query[i].counted
    /\ Elsewhere(query, query', Ask, i)
    /\ Takes(queryBox, queryBox', Ask, i, Start)
    /\ UNCHANGED <<told, asked, manager, managerBox, group, groupBox, devices, device,
                   deviceBox, watchers>>

\* A query is over, whether its question is answered or not.
QueryEnded(i) ==
    /\ query[i].phase \in {"starting", "running"}
    /\ query'[i].phase = "stopped" /\ query'[i].pending = {}
    /\ query'[i].todo = query[i].todo /\ query'[i].counted = query[i].counted
    /\ Elsewhere(query, query', Ask, i)
    /\ queryBox'[i] = <<>> /\ Elsewhere(queryBox, queryBox', Ask, i)
    /\ asked'[i].status \in {"answered", "no_reply"}
    /\ asked'[i].group = asked[i].group /\ asked'[i].since = asked[i].since
    /\ Elsewhere(asked, asked', Ask, i)
    /\ \A x \in Number :
          watchers'[x] \subseteq watchers[x] /\ watchers[x] \ {i} \subseteq watchers'[x]
    /\ UNCHANGED <<told, manager, managerBox, group, groupBox, devices, device,
                   deviceBox>>

EndedAtOnce(i) ==
    /\ QueryEnded(i)
    /\ query[i].phase = "starting" /\ query[i].todo = {}
    /\ asked'[i].counted = {}

LastCollected(i, x, k) ==
    /\ QueryEnded(i)
    /\ query[i].phase = "running" /\ query[i].pending \subseteq {x}
    /\ In(queryBox[i], Reading(x, k))
    /\ asked'[i].counted = query[i].counted \cup ({k} \ {None})

LastGivenUp(i, x) ==
    /\ QueryEnded(i)
    /\ query[i].phase = "running" /\ query[i].pending = {x}
    /\ In(queryBox[i], Terminated(x))
    /\ asked'[i].counted = query[i].counted

QueryStopped(i) ==
    /\ QueryEnded(i)
    /\ group[asked[i].group] = "stopped"
    /\ asked'[i].status = "no_reply" /\ asked'[i].counted = asked[i].counted

\* A device is watched, and told to read.
DeviceAsked(i, x) ==
    /\ query[i].phase = "fanning_out" /\ x \in query[i].todo
    /\ query'[i].phase = IF query[i].todo = {x} THEN "running" ELSE "fanning_out"
    /\ query'[i].todo = query[i].todo \ {x}
    /\ query'[i].pending = query[i].pending \cup {x}
    /\ query'[i].counted = query[i].counted
    /\ Elsewhere(query, query', Ask, i)
    /\ IF device[x].life = "gone"
       THEN Sends(queryBox, queryBox', Ask, i, Terminated(x)) /\ watchers' = watchers
       ELSE /\ queryBox' = queryBox
            /\ watchers'[x] = watchers[x] \cup {i}
            /\ Elsewhere(watchers, watchers', Number, x)
    /\ IF device[x].life = "up"
       THEN Sends(deviceBox, deviceBox', Number, x, Read(i))
       ELSE deviceBox' = deviceBox
    /\ UNCHANGED <<told, asked, manager, managerBox, group, groupBox, devices, device>>

\* A query goes on, no longer waiting for a device.
DeviceDone(i, x) ==
    /\ query[i].phase = "running" /\ query'[i].phase = "running"
    /\ query'[i].todo = query[i].todo /\ query'[i].pending = query[i].pending \ {x}
    /\ Elsewhere(query, query', Ask, i)
    /\ UNCHANGED <<told, asked, manager, managerBox, group, groupBox, devices, device,
                   deviceBox>>

ReadingCollected(i, x, k) ==
    /\ DeviceDone(i, x)
    /\ query'[i].counted = query[i].counted \cup ({k} \ {None})
    /\ Takes(queryBox, queryBox', Ask, i, Reading(x, k))
    /\ watchers'[x] = watchers[x] \ {i} /\ Elsewhere(watchers, watchers', Number, x)

DeviceGivenUp(i, x) ==
    /\ DeviceDone(i, x)
    /\ x \in query[i].pending
    /\ query'[i].counted = query[i].counted
    /\ Takes(queryBox, queryBox', Ask, i, Terminated(x))
    /\ watchers' = watchers

SignalIgnored(i, x) ==
    /\ query[i].phase = "running" /\ x \notin query[i].pending
    /\ Takes(queryBox, queryBox', Ask, i, Terminated(x))
    /\ UNCHANGED <<told, asked, manager, managerBox, group, groupBox, devices, query,
                   device, deviceBox, watchers>>

RecordStored(x, k) ==
    /\ device[x].life = "up" /\ told[k].valid
    /\ Takes(deviceBox, deviceBox', Number, x, Record(k))
    /\ device'[x].life = "up" /\ device'[x].reading = k
    /\ device'[x].restarts = device[x].restarts
    /\ Elsewhere(device, device', Number, x)
    /\ UNCHANGED <<told, asked, manager, managerBox, group, groupBox, devices, query,
                   queryBox, watchers>>

DeviceRestarted(x, k) ==
    /\ device[x].life = "up" /\ ~told[k].valid
    /\ Takes(deviceBox, deviceBox', Number, x, Record(k))
    /\ device'[x].life = "up" /\ device'[x].reading = None
    /\ device'[x].restarts <= device[x].restarts + 1
    /\ Elsewhere(device, device', Number, x)
    /\ UNCHANGED <<told, asked, manager, managerBox, group, groupBox, devices, query,
                   queryBox, watchers>>

DeviceClosed(x) ==
    /\ device[x].life = "up" /\ device'[x].life = "closed"
    /\ device'[x].reading = device[x].reading
    /\ device'[x].restarts = device[x].restarts
    /\ Elsewhere(device, device', Number, x)
    /\ deviceBox'[x] = <<>> /\ Elsewhere(deviceBox, deviceBox', Number, x)
    /\ UNCHANGED <<told, asked, manager, managerBox, group, groupBox, devices, query,
                   queryBox, watchers>>

\* One failure too many.
DeviceFailed(x, k) ==
    /\ DeviceClosed(x)
    /\ In(deviceBox[x], Record(k)) /\ ~told[k].valid
    /\ MaxRestarts <= device[x].restarts

DeviceStopped(x) == DeviceClosed(x) /\ group[told[x].group] = "stopped"

DeviceReplied(x, i) ==
    /\ device[x].life = "up"
    /\ Takes(deviceBox, deviceBox', Number, x, Read(i))
    /\ IF query[i].phase = "stopped" THEN queryBox' = queryBox
       ELSE Sends(queryBox, queryBox', Ask, i, Reading(x, device[x].reading))
    /\ UNCHANGED <<told, asked, manager, managerBox, group, groupBox, devices, query,
                   device, watchers>>

DeviceGone(x) ==
    /\ device[x].life = "closed" /\ device'[x].life = "gone"
    /\ device'[x].reading = device[x].reading
    /\ device'[x].restarts = device[x].restarts
    /\ Elsewhere(device, device', Number, x)
    /\ UNCHANGED <<told, asked, manager, managerBox, group, groupBox, devices, query,
                   queryBox, deviceBox, watchers>>

GroupSignalled(x, g) ==
    /\ device[x].life = "gone" /\ g \in watchers[x]
    /\ watchers'[x] = watchers[x] \ {g} /\ Elsewhere(watchers, watchers', Number, x)
    /\ IF group[g] = "up" THEN Sends(groupBox, groupBox', Group, g, Terminated(x))
       ELSE groupBox' = groupBox
    /\ UNCHANGED <<told, asked, manager, managerBox, group, devices, query, queryBox,
                   device, deviceBox>>

QuerySignalled(x, i) ==
    /\ device[x].life = "gone" /\ i \in watchers[x]
    /\ watchers'[x] = watchers[x] \ {i} /\ Elsewhere(watchers, watchers', Number, x)
    /\ Sends(queryBox, queryBox', Ask, i, Terminated(x))
    /\ UNCHANGED <<told, asked, manager, managerBox, group, groupBox, devices, query,
                   device, deviceBox>>

-----------------------------------------------------------------------------
(***************************************************************************)
(* Every action is one of these events, and keeps the types.                *)
(***************************************************************************)

LEMMA Requested ==
    ASSUME NEW S, NEW box \in Seq(S), asked' = Unanswered(Requests(box)),
           asked \in [Ask -> Question]
    PROVE  asked' \in [Ask -> Question] /\ Dropped(box)
<1>1. DOMAIN box = 1 .. Len(box)
  BY LenProperties
<1>2. \A i \in Ask : i \in Requests(box) <=> In(box, Average(i))
  BY <1>1 DEF Requests, In
<1> QED
  BY <1>2, UnansweredFields DEF Dropped

LEMMA TellRecordEvent ==
    ASSUME Types, NEW g \in Group, NEW d \in Device, NEW valid \in BOOLEAN,
           TellRecord(g, d, valid)
    PROVE  Types' /\ RecordTold(Len(told) + 1)
<1> DEFINE r == [group |-> g, device |-> d, valid |-> valid]
<1>1. /\ told \in Seq(Data) /\ r \in Data /\ Len(told) < MaxRecords
      /\ told' = Append(told, r)
      /\ managerBox \in Seq(ManagerMessage)
      /\ managerBox' = Append(managerBox, Record(Len(told) + 1))
  BY DEF Types, TellRecord, Data
<1> HIDE DEF r
<1>2. /\ told' \in Seq(Data) /\ Len(told') = Len(told) + 1 /\ Len(told) \in Nat
      /\ \A l \in 1 .. Len(told) : told'[l] = told[l]
  BY <1>1, AppendProperties
<1>a. \A n \in Nat : n < MaxRecords =>
         n + 1 \in 1 .. MaxRecords /\ n + 1 <= MaxRecords
  OBVIOUS
<1>3. Len(told) + 1 \in Number /\ Len(told) + 1 <= MaxRecords
  BY <1>1, <1>2, <1>a DEF Number
<1>4. /\ managerBox' \in Seq(ManagerMessage)
      /\ Plus(managerBox, managerBox', Record(Len(told) + 1))
  BY <1>1, <1>3, Kinds, Appended
<1>5. /\ 1 .. (Len(told) + 1) = (1 .. Len(told)) \cup {Len(told) + 1}
      /\ \A l \in 1 .. Len(told) : l < Len(told) + 1
      /\ Len(told) + 1 \notin 1 .. Len(told)
  <2>1. \A n \in Nat : /\ 1 .. (n + 1) = (1 .. n) \cup {n + 1}
                       /\ \A l \in 1 .. n : l < n + 1
                       /\ n + 1 \notin 1 .. n
    OBVIOUS
  <2> QED
    BY <1>2, <2>1
<1>6. /\ manager = "up"
      /\ UNCHANGED <<asked, manager, group, groupBox, devices, query, queryBox,
                     device, deviceBox, watchers>>
  BY DEF TellRecord, managers, groups, queries, incarnations
<1>7. Types'
  BY <1>2, <1>3, <1>4, <1>6 DEF Types
<1> QED
  BY <1>2, <1>3, <1>4, <1>5, <1>6, <1>7 DEF RecordTold, Told

LEMMA AskAverageEvent ==
    ASSUME Types, NEW i \in Ask, AskAverage(i)
    PROVE  Types' /\ QuestionAsked(i)
<1>1. /\ asked \in [Ask -> Question]
      /\ managerBox \in Seq(ManagerMessage)
      /\ managerBox' = Append(managerBox, Average(i))
      /\ asked' = [asked EXCEPT ![i].status = "pending", ![i].since = Len(told)]
  BY DEF Types, AskAverage
<1>a. Len(told) \in 0 .. MaxRecords
  <2>1. \A n \in Nat : n <= MaxRecords => n \in 0 .. MaxRecords
    OBVIOUS
  <2> QED
    BY <2>1, LenProperties DEF Types
<1>2. managerBox' \in Seq(ManagerMessage) /\ Plus(managerBox, managerBox', Average(i))
  BY <1>1, Kinds, Appended
<1>3. /\ asked' \in [Ask -> Question]
      /\ asked'[i].status = "pending" /\ asked'[i].since = Len(told)
      /\ asked'[i].group = asked[i].group /\ asked'[i].counted = asked[i].counted
      /\ Elsewhere(asked, asked', Ask, i)
  BY <1>1, <1>a DEF Question, Elsewhere
<1>4. /\ manager = "up" /\ asked[i].status = "unasked"
      /\ UNCHANGED <<told, manager, group, groupBox, devices, query, queryBox,
                     device, deviceBox, watchers>>
  BY DEF AskAverage, groups, queries, incarnations
<1>5. Types'
  BY <1>2, <1>3, <1>4 DEF Types
<1> QED
  BY <1>2, <1>3, <1>4, <1>5 DEF QuestionAsked

LEMMA TellShutdownEvent ==
    ASSUME Types, TellShutdown
    PROVE  Types' /\ ShutdownTold
<1>1. /\ managerBox \in Seq(ManagerMessage)
      /\ managerBox' = Append(managerBox, Shutdown)
      /\ \A n \in 1 .. Len(managerBox) : managerBox[n] # Shutdown
  BY LenProperties DEF Types, TellShutdown
<1>2. managerBox' \in Seq(ManagerMessage) /\ Plus(managerBox, managerBox', Shutdown)
  BY <1>1, Kinds, Appended
<1>3. /\ manager = "up"
      /\ UNCHANGED <<told, asked, manager, group, groupBox, devices, query, queryBox,
                     device, deviceBox, watchers>>
  BY DEF TellShutdown, clients, groups, queries, incarnations
<1>4. Types'
  BY <1>2, <1>3 DEF Types
<1> QED
  BY <1>1, <1>2, <1>3, <1>4 DEF ShutdownTold, In

LEMMA ManagerReceipt ==
    ASSUME Types, NEW kind, ManagerReceives(kind)
    PROVE  /\ manager = "up"
           /\ Head(managerBox) \in ManagerMessage /\ Head(managerBox).kind = kind
           /\ managerBox' \in Seq(ManagerMessage)
           /\ Minus(managerBox, managerBox', Head(managerBox))
<1>1. managerBox \in Seq(ManagerMessage)
  BY DEF Types
<1> QED
  BY <1>1, Received DEF ManagerReceives

LEMMA RouteRecordEvent ==
    ASSUME Types, Records, RouteRecord
    PROVE  Types' /\ \E k \in Number : \E g \in Group : RecordRouted(k, g)
<1> DEFINE m == Head(managerBox)
           k == m.of
           g == told[k].group
<1>1. /\ manager = "up" /\ m \in ManagerMessage /\ m.kind = "record"
      /\ managerBox' \in Seq(ManagerMessage) /\ Minus(managerBox, managerBox', m)
  BY ManagerReceipt DEF RouteRecord
<1>2. k \in Number /\ m = Record(k)
  BY <1>1, OfManager
<1>3. k \in Told
  BY <1>1, <1>2 DEF Records, Minus
<1>4. g \in Group
  <2>1. told[k] \in Data
    BY <1>3, ElementOfSeq DEF Types, Told
  <2> QED
    BY <2>1 DEF Data
<1>5. /\ group' = [group EXCEPT ![g] = "up"]
      /\ groupBox' = [groupBox EXCEPT ![g] = Append(@, m)]
      /\ UNCHANGED <<told, asked, manager, devices, query, queryBox, device, deviceBox,
                     watchers>>
  BY DEF RouteRecord, clients, queries, incarnations
<1> HIDE DEF m, k, g
<1>6. groupBox' \in [Group -> Seq(GroupMessage)] /\ Sends(groupBox, groupBox', Group, g, m)
  <2>1. m \in GroupMessage /\ groupBox \in [Group -> Seq(GroupMessage)]
    BY <1>2, Kinds DEF Types
  <2>2. Append(groupBox[g], m) \in Seq(GroupMessage)
        /\ Plus(groupBox[g], Append(groupBox[g], m), m)
    BY <1>4, <2>1, Appended
  <2> QED
    BY <1>4, <1>5, <2>1, <2>2 DEF Sends, Elsewhere
<1>7. /\ group' \in [Group -> {"unborn", "up", "stopped"}]
      /\ group'[g] = "up" /\ Elsewhere(group, group', Group, g)
  BY <1>4, <1>5 DEF Types, Elsewhere
<1>8. Types'
  BY <1>1, <1>5, <1>6, <1>7 DEF Types
<1>9. RecordRouted(k, g)
  BY <1>1, <1>2, <1>5, <1>6, <1>7 DEF RecordRouted, g
<1> QED
  BY <1>2, <1>4, <1>8, <1>9

LEMMA RouteAverageEvent ==
    ASSUME Types, RouteAverage
    PROVE  /\ Types'
           /\ \E i \in Ask :
                QuestionRefused(i) \/ \E g \in Group : QuestionRouted(i, g)
<1> DEFINE m == Head(managerBox)
           i == m.of
           g == asked[i].group
<1>1. /\ manager = "up" /\ m \in ManagerMessage /\ m.kind = "average"
      /\ managerBox' \in Seq(ManagerMessage) /\ Minus(managerBox, managerBox', m)
  BY ManagerReceipt DEF RouteAverage
<1>2. i \in Ask /\ m = Average(i)
  BY <1>1, OfManager
<1>3. asked \in [Ask -> Question] /\ g \in Group
  BY <1>2 DEF Types, Question
<1>4. /\ IF group[g] = "up"
         THEN /\ groupBox' = [groupBox EXCEPT ![g] = Append(@, m)]
              /\ asked' = asked
         ELSE asked' = Answered(i, {}) /\ groupBox' = groupBox
      /\ UNCHANGED <<told, manager, group, devices, query, queryBox, device, deviceBox,
                     watchers>>
  BY DEF RouteAverage, queries, incarnations
<1> HIDE DEF m, i, g
<1>5. CASE group[g] = "up"
  <2>1. groupBox' \in [Group -> Seq(GroupMessage)] /\ Sends(groupBox, groupBox', Group, g, m)
    <3>1. m \in GroupMessage /\ groupBox \in [Group -> Seq(GroupMessage)]
      BY <1>2, Kinds DEF Types
    <3>2. groupBox' = [groupBox EXCEPT ![g] = Append(@, m)]
      BY <1>4, <1>5
    <3>3. Append(groupBox[g], m) \in Seq(GroupMessage)
          /\ Plus(groupBox[g], Append(groupBox[g], m), m)
      BY <1>3, <3>1, Appended
    <3> QED
      BY <1>3, <3>1, <3>2, <3>3 DEF Sends, Elsewhere
  <2>2. Types'
    BY <1>1, <1>4, <1>5, <2>1 DEF Types
  <2>3. QuestionRouted(i, g)
    BY <1>1, <1>2, <1>4, <1>5, <2>1 DEF QuestionRouted, g
  <2> QED
    BY <1>2, <1>3, <2>2, <2>3
<1>6. CASE group[g] # "up"
  <2>1. asked' = Answered(i, {}) /\ groupBox' = groupBox
    BY <1>4, <1>6
  <2>2. /\ asked' \in [Ask -> Question]
        /\ asked'[i].status = "answered" /\ asked'[i].counted = {}
        /\ asked'[i].group = asked[i].group /\ asked'[i].since = asked[i].since
        /\ Elsewhere(asked, asked', Ask, i)
    BY <1>2, <1>3, <2>1, AnsweredFields
  <2>3. Types'
    BY <1>1, <1>4, <2>1, <2>2 DEF Types
  <2>4. QuestionRefused(i)
    BY <1>1, <1>2, <1>4, <1>6, <2>1, <2>2 DEF QuestionRefused, g
  <2> QED
    BY <1>2, <2>3, <2>4
<1> QED
  BY <1>5, <1>6

LEMMA SlipAverageEvent ==
    ASSUME Types, NEW i \in Ask, SlipAverage(i)
    PROVE  Types' /\ QuestionSlipped(i)
<1>1. /\ asked \in [Ask -> Question]
      /\ asked' = [asked EXCEPT ![i].status = "slipped"]
  BY DEF Types, SlipAverage
<1>2. /\ asked' \in [Ask -> Question]
      /\ asked'[i].status = "slipped" /\ asked'[i].since = asked[i].since
      /\ asked'[i].group = asked[i].group /\ asked'[i].counted = asked[i].counted
      /\ Elsewhere(asked, asked', Ask, i)
  BY <1>1 DEF Question, Elsewhere
<1>3. /\ manager = "drained" /\ asked[i].status = "unasked"
      /\ UNCHANGED <<told, manager, managerBox, group, groupBox, devices, query,
                     queryBox, device, deviceBox, watchers>>
  BY DEF SlipAverage, managers, groups, queries, incarnations
<1>4. Types'
  BY <1>2, <1>3 DEF Types
<1> QED
  BY <1>2, <1>3, <1>4 DEF QuestionSlipped

LEMMA StopManagerEvent ==
    ASSUME Types, StopManager
    PROVE  Types' /\ ManagerDrained
<1>1. /\ manager = "up" /\ Head(managerBox) \in ManagerMessage
      /\ Head(managerBox).kind = "shutdown"
      /\ managerBox' \in Seq(ManagerMessage)
      /\ Minus(managerBox, managerBox', Head(managerBox))
  BY ManagerReceipt DEF StopManager
<1>2. Head(managerBox) = Shutdown
  BY <1>1, OfManager
<1>3. /\ manager' = "drained"
      /\ UNCHANGED <<told, asked, group, groupBox, devices, query, queryBox, device,
                     deviceBox, watchers>>
  BY DEF StopManager, clients, groups, queries, incarnations
<1>4. Types'
  BY <1>1, <1>3 DEF Types
<1> QED
  BY <1>1, <1>2, <1>3, <1>4 DEF ManagerDrained

LEMMA DisconnectManagerEvent ==
    ASSUME Types, DisconnectManager
    PROVE  Types' /\ ManagerStopped
<1>1. /\ manager = "drained" /\ manager' = "stopped" /\ managerBox' = <<>>
      /\ managerBox \in Seq(ManagerMessage) /\ asked \in [Ask -> Question]
      /\ asked' = Unanswered(Requests(managerBox))
      /\ UNCHANGED <<told, group, groupBox, devices, query, queryBox, device, deviceBox,
                     watchers>>
  BY DEF DisconnectManager, Types, groups, queries, incarnations
<1>2. asked' \in [Ask -> Question] /\ Dropped(managerBox)
  BY <1>1, Requested
<1>3. managerBox' \in Seq(ManagerMessage)
  BY <1>1, Emptied
<1>4. Types'
  BY <1>1, <1>2, <1>3 DEF Types
<1> QED
  BY <1>1, <1>2, <1>4 DEF ManagerStopped

LEMMA GroupReceipt ==
    ASSUME Types, NEW g \in Group, NEW kind, GroupReceives(g, kind)
    PROVE  /\ group[g] = "up"
           /\ Head(groupBox[g]) \in GroupMessage /\ Head(groupBox[g]).kind = kind
           /\ groupBox' \in [Group -> Seq(GroupMessage)]
           /\ Takes(groupBox, groupBox', Group, g, Head(groupBox[g]))
<1>1. /\ groupBox \in [Group -> Seq(GroupMessage)]
      /\ group[g] = "up" /\ groupBox[g] # <<>> /\ Head(groupBox[g]).kind = kind
      /\ groupBox' = [groupBox EXCEPT ![g] = Tail(@)]
  BY DEF Types, GroupReceives
<1>2. /\ Head(groupBox[g]) \in GroupMessage /\ Tail(groupBox[g]) \in Seq(GroupMessage)
      /\ Minus(groupBox[g], Tail(groupBox[g]), Head(groupBox[g]))
  BY <1>1, Received
<1> QED
  BY <1>1, <1>2 DEF Takes, Elsewhere

LEMMA RecordInGroupEvent ==
    ASSUME Types, Registry, NEW g \in Group, RecordInGroup(g)
    PROVE  /\ Types'
           /\ \E k \in Number :
                DeviceSpawned(g, k) \/ \E x \in Number : RecordForwarded(g, k, x)
<1> DEFINE m == Head(groupBox[g])
           k == m.of
           known == {x \in devices[g] : SameDevice(x, k)}
<1>1. /\ group[g] = "up" /\ m \in GroupMessage /\ m.kind = "record"
      /\ groupBox' \in [Group -> Seq(GroupMessage)]
      /\ Takes(groupBox, groupBox', Group, g, m)
  BY GroupReceipt DEF RecordInGroup
<1>2. k \in Number /\ m = Record(k)
  BY <1>1, OfGroup
<1>3. /\ IF known = {}
         THEN /\ devices' = [devices EXCEPT ![g] = @ \cup {k}]
              /\ device' = [device EXCEPT ![k].life = "up"]
              /\ deviceBox' = [deviceBox EXCEPT ![k] = <<Record(k)>>]
              /\ watchers' = [watchers EXCEPT ![k] = WatchedBy(g)]
         ELSE /\ deviceBox' =
                   [x \in Number |->
                      IF x \in known /\ device[x].life = "up"
                      THEN Append(deviceBox[x], Record(k)) ELSE deviceBox[x]]
              /\ devices' = devices /\ device' = device /\ watchers' = watchers
      /\ UNCHANGED <<told, asked, manager, managerBox, group, query, queryBox>>
  BY DEF RecordInGroup, clients, managers, queries
<1>4. /\ devices \in [Group -> SUBSET Number]
      /\ device \in [Number -> Incarnation]
      /\ deviceBox \in [Number -> Seq(DeviceMessage)]
      /\ watchers \in [Number -> SUBSET (Group \cup Ask)]
      /\ \A x : x \in known <=> x \in devices[g] /\ SameDevice(x, k)
  BY DEF Types
<1> HIDE DEF m, k, known
<1>5. CASE known = {}
  <2>0. /\ devices' = [devices EXCEPT ![g] = @ \cup {k}]
        /\ device' = [device EXCEPT ![k].life = "up"]
        /\ deviceBox' = [deviceBox EXCEPT ![k] = <<Record(k)>>]
        /\ watchers' = [watchers EXCEPT ![k] = WatchedBy(g)]
    BY <1>3, <1>5
  <2>1. /\ devices' \in [Group -> SUBSET Number]
        /\ devices'[g] = devices[g] \cup {k} /\ Elsewhere(devices, devices', Group, g)
    BY <1>2, <1>4, <2>0 DEF Elsewhere
  <2>2. /\ device' \in [Number -> Incarnation]
        /\ device'[k].life = "up"
        /\ device'[k].reading = device[k].reading
        /\ device'[k].restarts = device[k].restarts
        /\ Elsewhere(device, device', Number, k)
    <3>1. device' = [device EXCEPT ![k].life = "up"]
      BY <2>0
    <3>2. device \in [Number -> Incarnation]
      BY <1>4
    <3>3. [device[k] EXCEPT !.life = "up"] \in Incarnation
      BY <1>2, <3>2 DEF Incarnation
    <3> QED
      BY <1>2, <3>1, <3>2, <3>3 DEF Incarnation, Elsewhere
  <2>3. /\ deviceBox' \in [Number -> Seq(DeviceMessage)]
        /\ deviceBox'[k] = <<Record(k)>> /\ Elsewhere(deviceBox, deviceBox', Number, k)
    <3>1. Record(k) \in DeviceMessage
      BY <1>2, Kinds
    <3>2. <<Record(k)>> \in Seq(DeviceMessage)
      BY <3>1, Alone
    <3> QED
      BY <1>2, <1>4, <2>0, <3>2 DEF Elsewhere
  <2>4. /\ watchers' \in [Number -> SUBSET (Group \cup Ask)]
        /\ watchers'[k] = {g} /\ Elsewhere(watchers, watchers', Number, k)
    BY <1>2, <1>4, <2>0 DEF Elsewhere, WatchedBy
  <2>5. Types'
    BY <1>1, <1>3, <2>1, <2>2, <2>3, <2>4 DEF Types
  <2>6. DeviceSpawned(g, k)
    BY <1>1, <1>2, <1>3, <1>4, <1>5, <2>1, <2>2, <2>3, <2>4 DEF DeviceSpawned
  <2> QED
    BY <1>2, <2>5, <2>6
<1>6. CASE known # {}
  <2>1. PICK x \in known : TRUE
    BY <1>6
  <2>2. x \in devices[g] /\ x \in Number /\ SameDevice(x, k)
    BY <1>4, <2>1
  <2>3. known = {x}
    <3>1. ASSUME NEW y \in known PROVE y = x
      <4>1. y \in devices[g] /\ SameDevice(y, k)
        BY <1>4
      <4>2. SameDevice(x, y)
        BY <2>2, <4>1 DEF SameDevice
      <4> QED
        BY <2>2, <4>1, <4>2 DEF Registry
    <3> QED
      BY <2>1, <3>1
  <2>4. /\ deviceBox' =
             [y \in Number |->
                IF y \in known /\ device[y].life = "up"
                THEN Append(deviceBox[y], Record(k)) ELSE deviceBox[y]]
        /\ devices' = devices /\ device' = device /\ watchers' = watchers
    BY <1>3, <1>6
  <2>5. Record(k) \in DeviceMessage
    BY <1>2, Kinds
  <2>6. /\ Append(deviceBox[x], Record(k)) \in Seq(DeviceMessage)
        /\ Plus(deviceBox[x], Append(deviceBox[x], Record(k)), Record(k))
    BY <1>4, <2>2, <2>5, Appended
  <2>7. /\ deviceBox' \in [Number -> Seq(DeviceMessage)]
        /\ IF device[x].life = "up"
           THEN Sends(deviceBox, deviceBox', Number, x, Record(k))
           ELSE deviceBox' = deviceBox
    <3>1. CASE device[x].life = "up"
      BY <1>4, <2>2, <2>3, <2>4, <2>6, <3>1 DEF Sends, Elsewhere
    <3>2. CASE device[x].life # "up"
      BY <1>4, <2>3, <2>4, <3>2
    <3> QED
      BY <3>1, <3>2
  <2>8. Types'
    BY <1>1, <1>3, <2>4, <2>7 DEF Types
  <2>9. RecordForwarded(g, k, x)
    BY <1>1, <1>2, <1>3, <2>2, <2>4, <2>7 DEF RecordForwarded
  <2> QED
    BY <1>2, <2>2, <2>8, <2>9
<1> QED
  BY <1>5, <1>6

LEMMA AverageInGroupEvent ==
    ASSUME Types, NEW g \in Group, AverageInGroup(g)
    PROVE  Types' /\ \E i \in Ask : QuerySpawned(g, i)
<1> DEFINE m == Head(groupBox[g])
           i == m.of
<1>1. /\ group[g] = "up" /\ m \in GroupMessage /\ m.kind = "average"
      /\ groupBox' \in [Group -> Seq(GroupMessage)]
      /\ Takes(groupBox, groupBox', Group, g, m)
  BY GroupReceipt DEF AverageInGroup
<1>2. i \in Ask /\ m = Average(i)
  BY <1>1, OfGroup
<1>3. /\ query' = [query EXCEPT ![i].phase = "starting", ![i].todo = devices[g]]
      /\ queryBox' = [queryBox EXCEPT ![i] = <<Start>>]
      /\ UNCHANGED <<told, asked, manager, managerBox, group, devices, device,
                     deviceBox, watchers>>
  BY DEF AverageInGroup, clients, managers, incarnations
<1>4. /\ query \in [Ask -> Querying] /\ devices[g] \in SUBSET Number
      /\ queryBox \in [Ask -> Seq(QueryMessage)]
  BY DEF Types
<1> HIDE DEF m, i
<1>5. /\ query' \in [Ask -> Querying]
      /\ query'[i].phase = "starting" /\ query'[i].todo = devices[g]
      /\ query'[i].pending = query[i].pending /\ query'[i].counted = query[i].counted
      /\ Elsewhere(query, query', Ask, i)
  <2>1. query' = [query EXCEPT ![i].phase = "starting", ![i].todo = devices[g]]
    BY <1>3
  <2> QED
    BY <1>2, <1>4, <2>1 DEF Querying, Elsewhere
<1>6. /\ queryBox' \in [Ask -> Seq(QueryMessage)]
      /\ queryBox'[i] = <<Start>> /\ Elsewhere(queryBox, queryBox', Ask, i)
  <2>1. <<Start>> \in Seq(QueryMessage)
    BY Kinds, Alone
  <2> QED
    BY <1>2, <1>3, <1>4, <2>1 DEF Elsewhere
<1>7. Types'
  BY <1>1, <1>3, <1>5, <1>6 DEF Types
<1>8. QuerySpawned(g, i)
  BY <1>1, <1>2, <1>3, <1>5, <1>6 DEF QuerySpawned
<1> QED
  BY <1>2, <1>7, <1>8

LEMMA PruneEvent ==
    ASSUME Types, NEW g \in Group, Prune(g)
    PROVE  Types' /\ \E x \in Number : DevicePruned(g, x)
<1> DEFINE m == Head(groupBox[g])
           x == m.of
<1>1. /\ group[g] = "up" /\ m \in GroupMessage /\ m.kind = "terminated"
      /\ groupBox' \in [Group -> Seq(GroupMessage)]
      /\ Takes(groupBox, groupBox', Group, g, m)
  BY GroupReceipt DEF Prune
<1>2. x \in Number /\ m = Terminated(x)
  BY <1>1, OfGroup
<1>3. /\ devices' = [devices EXCEPT ![g] = @ \ {x}]
      /\ UNCHANGED <<told, asked, manager, managerBox, group, query, queryBox, device,
                     deviceBox, watchers>>
  BY DEF Prune, clients, managers, queries, incarnations
<1> HIDE DEF m, x
<1>4. /\ devices' \in [Group -> SUBSET Number]
      /\ devices'[g] = devices[g] \ {x} /\ Elsewhere(devices, devices', Group, g)
  BY <1>3 DEF Types, Elsewhere
<1>5. Types'
  BY <1>1, <1>3, <1>4 DEF Types
<1>6. DevicePruned(g, x)
  BY <1>1, <1>2, <1>3, <1>4 DEF DevicePruned
<1> QED
  BY <1>2, <1>5, <1>6

LEMMA StopGroupEvent ==
    ASSUME Types, NEW g \in Group, StopGroup(g)
    PROVE  Types' /\ GroupStopped(g)
<1>1. /\ manager = "stopped" /\ group[g] = "up"
      /\ group' = [group EXCEPT ![g] = "stopped"]
      /\ groupBox' = [groupBox EXCEPT ![g] = <<>>]
      /\ asked' = Unanswered(Requests(groupBox[g]))
      /\ UNCHANGED <<told, manager, managerBox, devices, query, queryBox, device,
                     deviceBox, watchers>>
  BY DEF StopGroup, managers, queries, incarnations
<1>2. /\ groupBox \in [Group -> Seq(GroupMessage)] /\ asked \in [Ask -> Question]
      /\ group \in [Group -> {"unborn", "up", "stopped"}]
  BY DEF Types
<1>3. groupBox[g] \in Seq(GroupMessage)
  BY <1>2
<1>4. asked' \in [Ask -> Question] /\ Dropped(groupBox[g])
  BY <1>1, <1>2, <1>3, Requested
<1>5. /\ groupBox' \in [Group -> Seq(GroupMessage)]
      /\ groupBox'[g] = <<>> /\ Elsewhere(groupBox, groupBox', Group, g)
  BY <1>1, <1>2, Emptied DEF Elsewhere
<1>6. /\ group' \in [Group -> {"unborn", "up", "stopped"}]
      /\ group'[g] = "stopped" /\ Elsewhere(group, group', Group, g)
  BY <1>1, <1>2 DEF Elsewhere
<1>7. Types'
  BY <1>1, <1>4, <1>5, <1>6 DEF Types
<1> QED
  BY <1>1, <1>4, <1>5, <1>6, <1>7 DEF GroupStopped

LEMMA QueryReceipt ==
    ASSUME Types, NEW i \in Ask, NEW phase, NEW kind, QueryReceives(i, phase, kind)
    PROVE  /\ query[i].phase = phase /\ queryBox[i] # <<>>
           /\ Head(queryBox[i]) \in QueryMessage /\ Head(queryBox[i]).kind = kind
           /\ Tail(queryBox[i]) \in Seq(QueryMessage)
           /\ Minus(queryBox[i], Tail(queryBox[i]), Head(queryBox[i]))
<1>1. /\ queryBox[i] \in Seq(QueryMessage)
      /\ query[i].phase = phase /\ queryBox[i] # <<>> /\ Head(queryBox[i]).kind = kind
  BY DEF Types, QueryReceives
<1> QED
  BY <1>1, Received

LEMMA QueryTakes ==
    ASSUME Types, NEW i \in Ask, queryBox[i] # <<>>,
           queryBox' = [queryBox EXCEPT ![i] = Tail(@)]
    PROVE  /\ queryBox' \in [Ask -> Seq(QueryMessage)]
           /\ Takes(queryBox, queryBox', Ask, i, Head(queryBox[i]))
<1>1. queryBox \in [Ask -> Seq(QueryMessage)]
  BY DEF Types
<1>2. /\ Tail(queryBox[i]) \in Seq(QueryMessage)
      /\ Minus(queryBox[i], Tail(queryBox[i]), Head(queryBox[i]))
  BY <1>1, Received
<1> QED
  BY <1>1, <1>2 DEF Takes, Elsewhere

\* The end of a query, as far as it is the same in every case.
LEMMA QueryEnds ==
    ASSUME Types, NEW i \in Ask,
           query' = [query EXCEPT ![i].phase = "stopped", ![i].pending = {}],
           queryBox' = [queryBox EXCEPT ![i] = <<>>]
    PROVE  /\ query' \in [Ask -> Querying]
           /\ query'[i].phase = "stopped" /\ query'[i].pending = {}
           /\ query'[i].todo = query[i].todo /\ query'[i].counted = query[i].counted
           /\ Elsewhere(query, query', Ask, i)
           /\ queryBox' \in [Ask -> Seq(QueryMessage)]
           /\ queryBox'[i] = <<>> /\ Elsewhere(queryBox, queryBox', Ask, i)
<1>1. query \in [Ask -> Querying] /\ queryBox \in [Ask -> Seq(QueryMessage)]
  BY DEF Types
<1>2. /\ query' \in [Ask -> Querying]
      /\ query'[i].phase = "stopped" /\ query'[i].pending = {}
      /\ query'[i].todo = query[i].todo /\ query'[i].counted = query[i].counted
      /\ Elsewhere(query, query', Ask, i)
  BY <1>1 DEF Querying, Elsewhere
<1>3. /\ queryBox' \in [Ask -> Seq(QueryMessage)]
      /\ queryBox'[i] = <<>> /\ Elsewhere(queryBox, queryBox', Ask, i)
  BY <1>1, Emptied DEF Elsewhere
<1> QED
  BY <1>2, <1>3

LEMMA Concluded ==
    ASSUME Types, NEW i \in Ask, query[i].phase \in {"starting", "running"},
           NEW counted \in SUBSET Number, Conclude(i, {}, counted),
           watchers' \in [Number -> SUBSET (Group \cup Ask)],
           \A x \in Number : watchers'[x] \subseteq watchers[x]
                               /\ watchers[x] \ {i} \subseteq watchers'[x],
           UNCHANGED <<told, managers, groups, incarnations>>
    PROVE  /\ Types' /\ QueryEnded(i)
           /\ asked'[i].status = "answered" /\ asked'[i].counted = counted
<1>1. /\ query' = [query EXCEPT ![i].phase = "stopped", ![i].pending = {}]
      /\ queryBox' = [queryBox EXCEPT ![i] = <<>>]
      /\ asked' = Answered(i, counted)
  BY DEF Conclude
<1>2. asked \in [Ask -> Question]
  BY DEF Types
<1>3. /\ asked' \in [Ask -> Question]
      /\ asked'[i].status = "answered" /\ asked'[i].counted = counted
      /\ asked'[i].group = asked[i].group /\ asked'[i].since = asked[i].since
      /\ Elsewhere(asked, asked', Ask, i)
  BY <1>1, <1>2, AnsweredFields
<1>4. UNCHANGED <<told, manager, managerBox, group, groupBox, devices, device, deviceBox>>
  BY DEF managers, groups, incarnations
<1>5. Types'
  BY <1>1, <1>3, <1>4, QueryEnds DEF Types
<1> QED
  BY <1>1, <1>3, <1>4, <1>5, QueryEnds DEF QueryEnded

LEMMA Continued ==
    ASSUME Types, NEW i \in Ask, queryBox[i] # <<>>,
           NEW pending \in SUBSET Number, NEW counted \in SUBSET Number,
           pending # {}, Conclude(i, pending, counted)
    PROVE  /\ asked' = asked
           /\ query' \in [Ask -> Querying]
           /\ query'[i].phase = query[i].phase /\ query'[i].todo = query[i].todo
           /\ query'[i].pending = pending /\ query'[i].counted = counted
           /\ Elsewhere(query, query', Ask, i)
           /\ queryBox' \in [Ask -> Seq(QueryMessage)]
           /\ Takes(queryBox, queryBox', Ask, i, Head(queryBox[i]))
<1>1. /\ query' = [query EXCEPT ![i].pending = pending, ![i].counted = counted]
      /\ queryBox' = [queryBox EXCEPT ![i] = Tail(@)]
      /\ asked' = asked
  BY DEF Conclude
<1>2. query \in [Ask -> Querying]
  BY DEF Types
<1>3. /\ query' \in [Ask -> Querying]
      /\ query'[i].phase = query[i].phase /\ query'[i].todo = query[i].todo
      /\ query'[i].pending = pending /\ query'[i].counted = counted
      /\ Elsewhere(query, query', Ask, i)
  BY <1>1, <1>2 DEF Querying, Elsewhere
<1> QED
  BY <1>1, <1>3, QueryTakes

LEMMA BeginEvent ==
    ASSUME Types, NEW i \in Ask, Begin(i)
    PROVE  Types' /\ (EndedAtOnce(i) \/ QueryBegun(i))
<1>1. /\ query[i].phase = "starting" /\ queryBox[i] # <<>>
      /\ Head(queryBox[i]) = Start
      /\ UNCHANGED <<told, managers, groups, incarnations>> /\ watchers' = watchers
  BY QueryReceipt, OfQuery DEF Begin
<1>2. CASE query[i].todo = {}
  <2>1. Conclude(i, {}, {})
    BY <1>2 DEF Begin
  <2>2. watchers' \in [Number -> SUBSET (Group \cup Ask)]
    BY <1>1 DEF Types
  <2>3. /\ Types' /\ QueryEnded(i) /\ asked'[i].counted = {}
    BY <1>1, <2>1, <2>2, Concluded
  <2> QED
    BY <1>1, <1>2, <2>3 DEF EndedAtOnce
<1>3. CASE query[i].todo # {}
  <2>1. /\ query' = [query EXCEPT ![i].phase = "fanning_out"]
        /\ queryBox' = [queryBox EXCEPT ![i] = Tail(@)]
        /\ asked' = asked
    BY <1>3 DEF Begin
  <2>2. query \in [Ask -> Querying]
    BY DEF Types
  <2>3. /\ query' \in [Ask -> Querying]
        /\ query'[i].phase = "fanning_out"
        /\ query'[i].todo = query[i].todo /\ query'[i].pending = query[i].pending
        /\ query'[i].counted = query[i].counted
        /\ Elsewhere(query, query', Ask, i)
    BY <2>1, <2>2 DEF Querying, Elsewhere
  <2>4. /\ queryBox' \in [Ask -> Seq(QueryMessage)]
        /\ Takes(queryBox, queryBox', Ask, i, Start)
    BY <1>1, <2>1, QueryTakes
  <2>5. UNCHANGED <<told, manager, managerBox, group, groupBox, devices, device,
                    deviceBox>>
    BY <1>1 DEF managers, groups, incarnations
  <2>6. Types'
    BY <1>1, <2>1, <2>3, <2>4, <2>5 DEF Types
  <2> QED
    BY <1>1, <2>1, <2>3, <2>4, <2>5, <2>6 DEF QueryBegun
<1> QED
  BY <1>2, <1>3

LEMMA FanOutEvent ==
    ASSUME Types, NEW i \in Ask, NEW x \in Number, FanOut(i, x)
    PROVE  Types' /\ DeviceAsked(i, x)
<1>1. /\ query[i].phase = "fanning_out" /\ x \in query[i].todo
      /\ query' = [query EXCEPT
                     ![i].phase = IF query[i].todo = {x} THEN "running" ELSE @,
                     ![i].todo = @ \ {x},
                     ![i].pending = @ \cup {x}]
      /\ IF device[x].life = "gone"
         THEN /\ queryBox' = [queryBox EXCEPT ![i] = Append(@, Terminated(x))]
              /\ watchers' = watchers
         ELSE /\ watchers' = [watchers EXCEPT ![x] = @ \cup {i}]
              /\ queryBox' = queryBox
      /\ deviceBox' = IF device[x].life = "up"
                      THEN [deviceBox EXCEPT ![x] = Append(@, Read(i))] ELSE deviceBox
      /\ UNCHANGED <<told, asked, manager, managerBox, group, groupBox, devices, device>>
  BY DEF FanOut, SelfSignalled, clients, managers, groups
<1>2. /\ query \in [Ask -> Querying]
      /\ queryBox \in [Ask -> Seq(QueryMessage)]
      /\ deviceBox \in [Number -> Seq(DeviceMessage)]
      /\ watchers \in [Number -> SUBSET (Group \cup Ask)]
  BY DEF Types
<1>3. /\ query' \in [Ask -> Querying]
      /\ query'[i].phase = IF query[i].todo = {x} THEN "running" ELSE "fanning_out"
      /\ query'[i].todo = query[i].todo \ {x}
      /\ query'[i].pending = query[i].pending \cup {x}
      /\ query'[i].counted = query[i].counted
      /\ Elsewhere(query, query', Ask, i)
  <2>1. /\ query' = [query EXCEPT
                       ![i].phase = IF query[i].todo = {x} THEN "running" ELSE @,
                       ![i].todo = @ \ {x},
                       ![i].pending = @ \cup {x}]
        /\ query[i].phase = "fanning_out" /\ query \in [Ask -> Querying]
    BY <1>1, <1>2
  <2>2. CASE query[i].todo = {x}
    BY <2>1, <2>2 DEF Querying, Elsewhere
  <2>3. CASE query[i].todo # {x}
    BY <2>1, <2>3 DEF Querying, Elsewhere
  <2> QED
    BY <2>2, <2>3
<1>4. /\ queryBox' \in [Ask -> Seq(QueryMessage)]
      /\ watchers' \in [Number -> SUBSET (Group \cup Ask)]
      /\ IF device[x].life = "gone"
         THEN Sends(queryBox, queryBox', Ask, i, Terminated(x)) /\ watchers' = watchers
         ELSE /\ queryBox' = queryBox
              /\ watchers'[x] = watchers[x] \cup {i}
              /\ Elsewhere(watchers, watchers', Number, x)
  <2>1. CASE device[x].life = "gone"
    <3>1. Terminated(x) \in QueryMessage
      BY Kinds
    <3>2. /\ Append(queryBox[i], Terminated(x)) \in Seq(QueryMessage)
          /\ Plus(queryBox[i], Append(queryBox[i], Terminated(x)), Terminated(x))
      BY <1>2, <3>1, Appended
    <3>3. /\ queryBox' = [queryBox EXCEPT ![i] = Append(@, Terminated(x))]
          /\ watchers' = watchers
      BY <1>1, <2>1
    <3> QED
      BY <1>2, <2>1, <3>2, <3>3 DEF Sends, Elsewhere
  <2>2. CASE device[x].life # "gone"
    <3>1. watchers' = [watchers EXCEPT ![x] = @ \cup {i}] /\ queryBox' = queryBox
      BY <1>1, <2>2
    <3> QED
      BY <1>2, <2>2, <3>1 DEF Elsewhere
  <2> QED
    BY <2>1, <2>2
<1>5. /\ deviceBox' \in [Number -> Seq(DeviceMessage)]
      /\ IF device[x].life = "up"
         THEN Sends(deviceBox, deviceBox', Number, x, Read(i))
         ELSE deviceBox' = deviceBox
  <2>1. CASE device[x].life = "up"
    <3>1. Read(i) \in DeviceMessage
      BY Kinds
    <3>2. /\ Append(deviceBox[x], Read(i)) \in Seq(DeviceMessage)
          /\ Plus(deviceBox[x], Append(deviceBox[x], Read(i)), Read(i))
      BY <1>2, <3>1, Appended
    <3>3. deviceBox' = [deviceBox EXCEPT ![x] = Append(@, Read(i))]
      BY <1>1, <2>1
    <3> QED
      BY <1>2, <2>1, <3>2, <3>3 DEF Sends, Elsewhere
  <2>2. CASE device[x].life # "up"
    BY <1>1, <1>2, <2>2
  <2> QED
    BY <2>1, <2>2
<1>6. Types'
  BY <1>1, <1>3, <1>4, <1>5 DEF Types
<1> QED
  BY <1>1, <1>3, <1>4, <1>5, <1>6 DEF DeviceAsked

LEMMA CollectEvent ==
    ASSUME Types, NEW i \in Ask, Collect(i)
    PROVE  /\ Types'
           /\ \E x \in Number : \E k \in {None} \cup Number :
                ReadingCollected(i, x, k) \/ LastCollected(i, x, k)
<1> DEFINE m == Head(queryBox[i])
           x == m.of
           k == m.reading
           pending == query[i].pending \ {x}
           counted == query[i].counted \cup ({k} \ {None})
<1>1. /\ query[i].phase = "running" /\ queryBox[i] # <<>>
      /\ x \in Number /\ k \in {None} \cup Number /\ m = Reading(x, k)
      /\ In(queryBox[i], m)
  BY QueryReceipt, OfQuery DEF Collect, Minus
<1>2. /\ Conclude(i, pending, counted)
      /\ watchers' = [watchers EXCEPT ![x] = @ \ {i}]
      /\ UNCHANGED <<told, managers, groups, incarnations>>
  BY DEF Collect
<1>3. /\ query[i].pending \in SUBSET Number /\ query[i].counted \in SUBSET Number
      /\ watchers \in [Number -> SUBSET (Group \cup Ask)]
  BY DEF Types, Querying
<1>4. pending \in SUBSET Number /\ counted \in SUBSET Number
  BY <1>1, <1>3
<1>5. /\ watchers' \in [Number -> SUBSET (Group \cup Ask)]
      /\ watchers'[x] = watchers[x] \ {i} /\ Elsewhere(watchers, watchers', Number, x)
      /\ \A y \in Number : watchers'[y] \subseteq watchers[y]
                             /\ watchers[y] \ {i} \subseteq watchers'[y]
  BY <1>1, <1>2, <1>3 DEF Elsewhere
<1>6. pending = {} <=> query[i].pending \subseteq {x}
  OBVIOUS
<1>7. pending = query[i].pending \ {x} /\ counted = query[i].counted \cup ({k} \ {None})
  OBVIOUS
<1> HIDE DEF m, x, k, pending, counted
<1>8. CASE pending = {}
  <2>1. Conclude(i, {}, counted)
    BY <1>2, <1>8
  <2>2. Types' /\ QueryEnded(i) /\ asked'[i].counted = counted
    BY <1>1, <1>2, <1>4, <1>5, <2>1, Concluded
  <2> QED
    BY <1>1, <1>6, <1>7, <1>8, <2>2 DEF LastCollected
<1>9. CASE pending # {}
  <2>1. /\ asked' = asked
        /\ query' \in [Ask -> Querying]
        /\ query'[i].phase = query[i].phase /\ query'[i].todo = query[i].todo
        /\ query'[i].pending = pending /\ query'[i].counted = counted
        /\ Elsewhere(query, query', Ask, i)
        /\ queryBox' \in [Ask -> Seq(QueryMessage)]
        /\ Takes(queryBox, queryBox', Ask, i, Head(queryBox[i]))
    BY <1>1, <1>2, <1>4, <1>9, Continued
  <2>2. Takes(queryBox, queryBox', Ask, i, Reading(x, k))
    BY <1>1, <2>1 DEF m
  <2>3. UNCHANGED <<told, manager, managerBox, group, groupBox, devices, device,
                    deviceBox>>
    BY <1>2 DEF managers, groups, incarnations
  <2>4. Types'
    BY <1>5, <2>1, <2>3 DEF Types
  <2>5. DeviceDone(i, x)
    BY <1>1, <1>7, <2>1, <2>3 DEF DeviceDone
  <2> QED
    BY <1>1, <1>5, <1>7, <2>1, <2>2, <2>4, <2>5 DEF ReadingCollected
<1> QED
  BY <1>8, <1>9

LEMMA GiveUpOnEvent ==
    ASSUME Types, NEW i \in Ask, GiveUpOn(i)
    PROVE  /\ Types'
           /\ \E x \in Number :
                DeviceGivenUp(i, x) \/ LastGivenUp(i, x) \/ SignalIgnored(i, x)
<1> DEFINE m == Head(queryBox[i])
           x == m.of
           pending == query[i].pending \ {x}
<1>1. /\ query[i].phase = "running" /\ queryBox[i] # <<>>
      /\ x \in Number /\ m = Terminated(x) /\ In(queryBox[i], m)
  BY QueryReceipt, OfQuery DEF GiveUpOn, Minus
<1>2. /\ IF x \in query[i].pending
         THEN Conclude(i, pending, query[i].counted)
         ELSE queryBox' = [queryBox EXCEPT ![i] = Tail(@)] /\ UNCHANGED <<query, asked>>
      /\ UNCHANGED <<told, managers, groups, incarnations>> /\ watchers' = watchers
  BY DEF GiveUpOn
<1>3. /\ query[i].pending \in SUBSET Number /\ query[i].counted \in SUBSET Number
      /\ watchers \in [Number -> SUBSET (Group \cup Ask)]
  BY DEF Types, Querying
<1>4. /\ pending \in SUBSET Number
      /\ x \in query[i].pending /\ pending = {} => query[i].pending = {x}
      /\ pending = query[i].pending \ {x}
  BY <1>3
<1>5. UNCHANGED <<told, manager, managerBox, group, groupBox, devices, device, deviceBox>>
  BY <1>2 DEF managers, groups, incarnations
<1> HIDE DEF m, x, pending
<1>6. CASE x \in query[i].pending /\ pending = {}
  <2>1. Conclude(i, {}, query[i].counted)
    BY <1>2, <1>6
  <2>2. /\ watchers' \in [Number -> SUBSET (Group \cup Ask)]
        /\ \A y \in Number : watchers'[y] \subseteq watchers[y]
                               /\ watchers[y] \ {i} \subseteq watchers'[y]
    BY <1>2, <1>3
  <2>3. query[i].counted \in SUBSET Number /\ query[i].phase \in {"starting", "running"}
    BY <1>1, <1>3
  <2>4. Types' /\ QueryEnded(i) /\ asked'[i].counted = query[i].counted
    BY <1>2, <2>1, <2>2, <2>3, Concluded
  <2> QED
    BY <1>1, <1>4, <1>6, <2>4 DEF LastGivenUp
<1>7. CASE x \in query[i].pending /\ pending # {}
  <2>1. /\ asked' = asked
        /\ query' \in [Ask -> Querying]
        /\ query'[i].phase = query[i].phase /\ query'[i].todo = query[i].todo
        /\ query'[i].pending = pending /\ query'[i].counted = query[i].counted
        /\ Elsewhere(query, query', Ask, i)
        /\ queryBox' \in [Ask -> Seq(QueryMessage)]
        /\ Takes(queryBox, queryBox', Ask, i, Head(queryBox[i]))
    <3>1. /\ Conclude(i, pending, query[i].counted)
          /\ pending \in SUBSET Number /\ query[i].counted \in SUBSET Number
          /\ pending # {} /\ queryBox[i] # <<>>
      BY <1>1, <1>2, <1>3, <1>4, <1>7
    <3> QED
      BY <3>1, Continued
  <2>2. Takes(queryBox, queryBox', Ask, i, Terminated(x))
    BY <1>1, <2>1 DEF m
  <2>3. Types'
    BY <1>2, <1>5, <2>1 DEF Types
  <2>4. DeviceDone(i, x)
    BY <1>1, <1>4, <1>5, <2>1 DEF DeviceDone
  <2> QED
    BY <1>1, <1>2, <1>7, <2>1, <2>2, <2>3, <2>4 DEF DeviceGivenUp
<1>8. CASE x \notin query[i].pending
  <2>1. /\ queryBox' = [queryBox EXCEPT ![i] = Tail(@)]
        /\ query' = query /\ asked' = asked
    BY <1>2, <1>8
  <2>2. /\ queryBox' \in [Ask -> Seq(QueryMessage)]
        /\ Takes(queryBox, queryBox', Ask, i, Terminated(x))
    BY <1>1, <2>1, QueryTakes DEF m
  <2>3. Types'
    BY <1>2, <1>5, <2>1, <2>2 DEF Types
  <2> QED
    BY <1>1, <1>2, <1>5, <1>8, <2>1, <2>2, <2>3 DEF SignalIgnored
<1> QED
  BY <1>6, <1>7, <1>8

LEMMA StopQueryEvent ==
    ASSUME Types, NEW i \in Ask, StopQuery(i)
    PROVE  Types' /\ QueryStopped(i)
<1>1. /\ query[i].phase \in {"starting", "running"}
      /\ group[asked[i].group] = "stopped"
      /\ query' = [query EXCEPT ![i].phase = "stopped", ![i].pending = {}]
      /\ queryBox' = [queryBox EXCEPT ![i] = <<>>]
      /\ asked' = Unanswered({i})
      /\ watchers' = [x \in Number |-> watchers[x] \ {i}]
      /\ UNCHANGED <<told, manager, managerBox, group, groupBox, devices, device,
                     deviceBox>>
  BY DEF StopQuery, managers, groups, incarnations
<1>2. asked \in [Ask -> Question] /\ watchers \in [Number -> SUBSET (Group \cup Ask)]
  BY DEF Types
<1>3. /\ asked' \in [Ask -> Question]
      /\ asked'[i].status = "no_reply" /\ asked'[i].counted = asked[i].counted
      /\ asked'[i].group = asked[i].group /\ asked'[i].since = asked[i].since
      /\ Elsewhere(asked, asked', Ask, i)
  BY <1>1, <1>2, UnansweredFields DEF Elsewhere
<1>4. /\ watchers' \in [Number -> SUBSET (Group \cup Ask)]
      /\ \A x \in Number : watchers'[x] \subseteq watchers[x]
                             /\ watchers[x] \ {i} \subseteq watchers'[x]
  BY <1>1, <1>2
<1>5. Types'
  BY <1>1, <1>3, <1>4, QueryEnds DEF Types
<1>6. QueryEnded(i)
  BY <1>1, <1>3, <1>4, QueryEnds DEF QueryEnded
<1> QED
  BY <1>1, <1>3, <1>5, <1>6 DEF QueryStopped

LEMMA DeviceReceipt ==
    ASSUME Types, NEW x \in Number, NEW kind, DeviceReceives(x, kind)
    PROVE  /\ device[x].life = "up" /\ deviceBox[x] # <<>>
           /\ Head(deviceBox[x]) \in DeviceMessage /\ Head(deviceBox[x]).kind = kind
           /\ In(deviceBox[x], Head(deviceBox[x]))
<1>1. /\ deviceBox[x] \in Seq(DeviceMessage)
      /\ device[x].life = "up" /\ deviceBox[x] # <<>> /\ Head(deviceBox[x]).kind = kind
  BY DEF Types, DeviceReceives
<1> QED
  BY <1>1, Received DEF Minus

LEMMA DeviceTakes ==
    ASSUME Types, NEW x \in Number, deviceBox[x] # <<>>,
           deviceBox' = [deviceBox EXCEPT ![x] = Tail(@)]
    PROVE  /\ deviceBox' \in [Number -> Seq(DeviceMessage)]
           /\ Takes(deviceBox, deviceBox', Number, x, Head(deviceBox[x]))
<1>1. deviceBox \in [Number -> Seq(DeviceMessage)]
  BY DEF Types
<1>2. /\ Tail(deviceBox[x]) \in Seq(DeviceMessage)
      /\ Minus(deviceBox[x], Tail(deviceBox[x]), Head(deviceBox[x]))
  BY <1>1, Received
<1> QED
  BY <1>1, <1>2 DEF Takes, Elsewhere

LEMMA ClosesEvent ==
    ASSUME Types, NEW x \in Number, device[x].life = "up", Closes(x),
           UNCHANGED <<clients, managers, groups, queries, watchers>>
    PROVE  Types' /\ DeviceClosed(x)
<1>1. /\ device' = [device EXCEPT ![x].life = "closed"]
      /\ deviceBox' = [deviceBox EXCEPT ![x] = <<>>]
      /\ UNCHANGED <<told, asked, manager, managerBox, group, groupBox, devices, query,
                     queryBox, watchers>>
  BY DEF Closes, clients, managers, groups, queries
<1>2. device \in [Number -> Incarnation] /\ deviceBox \in [Number -> Seq(DeviceMessage)]
  BY DEF Types
<1>3. /\ device' \in [Number -> Incarnation]
      /\ device'[x].life = "closed" /\ device'[x].reading = device[x].reading
      /\ device'[x].restarts = device[x].restarts
      /\ Elsewhere(device, device', Number, x)
  <2>1. device' = [device EXCEPT ![x].life = "closed"]
    BY <1>1
  <2>2. device \in [Number -> Incarnation]
    BY <1>2
  <2>3. [device[x] EXCEPT !.life = "closed"] \in Incarnation
    BY <2>2 DEF Incarnation
  <2> QED
    BY <2>1, <2>2, <2>3 DEF Incarnation, Elsewhere
<1>4. /\ deviceBox' \in [Number -> Seq(DeviceMessage)]
      /\ deviceBox'[x] = <<>> /\ Elsewhere(deviceBox, deviceBox', Number, x)
  BY <1>1, <1>2, Emptied DEF Elsewhere
<1>5. Types'
  BY <1>1, <1>3, <1>4 DEF Types
<1> QED
  BY <1>1, <1>3, <1>4, <1>5 DEF DeviceClosed

LEMMA StoreEvent ==
    ASSUME Types, NEW x \in Number, Store(x)
    PROVE  Types' /\ \E k \in Number : RecordStored(x, k)
<1> DEFINE m == Head(deviceBox[x])
           k == m.of
<1>1. /\ device[x].life = "up" /\ deviceBox[x] # <<>> /\ k \in Number /\ m = Record(k)
  BY DeviceReceipt, OfDevice DEF Store
<1>2. /\ told[k].valid
      /\ device' = [device EXCEPT ![x].reading = k]
      /\ deviceBox' = [deviceBox EXCEPT ![x] = Tail(@)]
      /\ UNCHANGED <<told, asked, manager, managerBox, group, groupBox, devices, query,
                     queryBox, watchers>>
  BY DEF Store, clients, managers, groups, queries
<1>3. device \in [Number -> Incarnation]
  BY DEF Types
<1> HIDE DEF m, k
<1>4. /\ device' \in [Number -> Incarnation]
      /\ device'[x].life = "up" /\ device'[x].reading = k
      /\ device'[x].restarts = device[x].restarts
      /\ Elsewhere(device, device', Number, x)
  BY <1>1, <1>2, <1>3 DEF Incarnation, Elsewhere
<1>5. /\ deviceBox' \in [Number -> Seq(DeviceMessage)]
      /\ Takes(deviceBox, deviceBox', Number, x, Record(k))
  BY <1>1, <1>2, DeviceTakes DEF m
<1>6. Types'
  BY <1>2, <1>4, <1>5 DEF Types
<1>7. RecordStored(x, k)
  BY <1>1, <1>2, <1>4, <1>5 DEF RecordStored
<1> QED
  BY <1>1, <1>6, <1>7

LEMMA FailOnNaNEvent ==
    ASSUME Types, NEW x \in Number, FailOnNaN(x)
    PROVE  Types' /\ \E k \in Number : DeviceRestarted(x, k) \/ DeviceFailed(x, k)
<1> DEFINE m == Head(deviceBox[x])
           k == m.of
<1>1. /\ device[x].life = "up" /\ deviceBox[x] # <<>> /\ k \in Number /\ m = Record(k)
      /\ In(deviceBox[x], m)
  BY DeviceReceipt, OfDevice DEF FailOnNaN
<1>2. PICK streak \in {0, device[x].restarts} :
         IF RestartsAgain(streak)
         THEN /\ device' = [device EXCEPT ![x].restarts = streak + 1,
                                          ![x].reading = InitialReading(x)]
              /\ deviceBox' = [deviceBox EXCEPT ![x] = MailboxRetained(x)]
         ELSE Closes(x)
  BY DEF FailOnNaN
<1>3. ~told[k].valid /\ UNCHANGED <<clients, managers, groups, queries, watchers>>
  BY DEF FailOnNaN
<1>4. /\ device \in [Number -> Incarnation] /\ device[x].restarts \in 0 .. MaxRestarts
      /\ streak \in 0 .. MaxRestarts
  BY DEF Types, Incarnation
<1> HIDE DEF m, k
<1>5. CASE RestartsAgain(streak)
  <2> DEFINE n == streak + 1
             r == [device[x] EXCEPT !.restarts = n]
             s == [r EXCEPT !.reading = None]
  <2>1. n \in 0 .. MaxRestarts /\ n <= device[x].restarts + 1
    BY <1>4, <1>5 DEF RestartsAgain
  <2>2. /\ device' = [device EXCEPT ![x] = s]
        /\ deviceBox' = [deviceBox EXCEPT ![x] = Tail(@)]
    BY <1>2, <1>5 DEF InitialReading, MailboxRetained
  <2> HIDE DEF n
  <2>3. r \in Incarnation /\ r.life = "up" /\ r.restarts = n
    BY <1>1, <1>4, <2>1 DEF Incarnation
  <2> HIDE DEF r
  <2>4. /\ s \in Incarnation /\ s.life = "up" /\ s.restarts = n /\ s.reading = None
    BY <2>3 DEF Incarnation
  <2> HIDE DEF s
  <2>5. /\ device' \in [Number -> Incarnation]
        /\ device'[x].life = "up" /\ device'[x].reading = None
        /\ device'[x].restarts <= device[x].restarts + 1
        /\ Elsewhere(device, device', Number, x)
    BY <1>4, <2>1, <2>2, <2>4 DEF Elsewhere
  <2>6. /\ deviceBox' \in [Number -> Seq(DeviceMessage)]
        /\ Takes(deviceBox, deviceBox', Number, x, Record(k))
    BY <1>1, <2>2, DeviceTakes DEF m
  <2>7. UNCHANGED <<told, asked, manager, managerBox, group, groupBox, devices, query,
                    queryBox, watchers>>
    BY <1>3 DEF clients, managers, groups, queries
  <2>8. Types'
    BY <2>5, <2>6, <2>7 DEF Types
  <2>9. DeviceRestarted(x, k)
    BY <1>1, <1>3, <2>5, <2>6, <2>7 DEF DeviceRestarted
  <2> QED
    BY <1>1, <2>8, <2>9
<1>6. CASE ~RestartsAgain(streak)
  <2>1. Types' /\ DeviceClosed(x)
    BY <1>1, <1>2, <1>3, <1>6, ClosesEvent
  <2>2. MaxRestarts <= device[x].restarts
    BY <1>2, <1>4, <1>6 DEF RestartsAgain
  <2> QED
    BY <1>1, <1>3, <2>1, <2>2 DEF DeviceFailed
<1> QED
  BY <1>5, <1>6

LEMMA ReplyEvent ==
    ASSUME Types, NEW x \in Number, Reply(x)
    PROVE  Types' /\ \E i \in Ask : DeviceReplied(x, i)
<1> DEFINE m == Head(deviceBox[x])
           i == m.of
           a == Reading(x, device[x].reading)
<1>1. /\ device[x].life = "up" /\ deviceBox[x] # <<>> /\ i \in Ask /\ m = Read(i)
  BY DeviceReceipt, OfDevice DEF Reply
<1>2. /\ queryBox' = IF query[i].phase = "stopped" THEN queryBox
                     ELSE [queryBox EXCEPT ![i] = Append(@, a)]
      /\ deviceBox' = [deviceBox EXCEPT ![x] = Tail(@)]
      /\ UNCHANGED <<told, asked, manager, managerBox, group, groupBox, devices, query,
                     device, watchers>>
  BY DEF Reply, clients, managers, groups
<1>3. queryBox \in [Ask -> Seq(QueryMessage)] /\ device[x].reading \in {None} \cup Number
  BY DEF Types, Incarnation
<1>4. a \in QueryMessage
  BY <1>3, Kinds
<1>5. /\ deviceBox' \in [Number -> Seq(DeviceMessage)]
      /\ Takes(deviceBox, deviceBox', Number, x, Read(i))
  BY <1>1, <1>2, DeviceTakes
<1> HIDE DEF m, i, a
<1>6. /\ queryBox' \in [Ask -> Seq(QueryMessage)]
      /\ IF query[i].phase = "stopped" THEN queryBox' = queryBox
         ELSE Sends(queryBox, queryBox', Ask, i, a)
  <2>1. CASE query[i].phase = "stopped"
    BY <1>2, <1>3, <2>1
  <2>2. CASE query[i].phase # "stopped"
    <3>1. /\ Append(queryBox[i], a) \in Seq(QueryMessage)
          /\ Plus(queryBox[i], Append(queryBox[i], a), a)
      BY <1>1, <1>3, <1>4, Appended
    <3>2. queryBox' = [queryBox EXCEPT ![i] = Append(@, a)]
      BY <1>2, <2>2
    <3> QED
      BY <1>1, <1>3, <2>2, <3>1, <3>2 DEF Sends, Elsewhere
  <2> QED
    BY <2>1, <2>2
<1>7. Types'
  BY <1>2, <1>5, <1>6 DEF Types
<1>8. DeviceReplied(x, i)
  BY <1>1, <1>2, <1>5, <1>6 DEF DeviceReplied, a
<1> QED
  BY <1>1, <1>7, <1>8

LEMMA StopDeviceEvent ==
    ASSUME Types, NEW x \in Number, StopDevice(x)
    PROVE  Types' /\ DeviceStopped(x)
<1>1. /\ device[x].life = "up" /\ Closes(x) /\ group[told[x].group] = "stopped"
      /\ UNCHANGED <<clients, managers, groups, queries, watchers>>
  BY DEF StopDevice
<1> QED
  BY <1>1, ClosesEvent DEF DeviceStopped

LEMMA FallSilentEvent ==
    ASSUME Types, NEW x \in Number, FallSilent(x)
    PROVE  Types' /\ DeviceGone(x)
<1>1. /\ device[x].life = "closed"
      /\ device' = [device EXCEPT ![x].life = "gone"]
      /\ UNCHANGED <<told, asked, manager, managerBox, group, groupBox, devices, query,
                     queryBox, deviceBox, watchers>>
  BY DEF FallSilent, clients, managers, groups, queries
<1>2. device \in [Number -> Incarnation]
  BY DEF Types
<1>3. /\ device' \in [Number -> Incarnation]
      /\ device'[x].life = "gone" /\ device'[x].reading = device[x].reading
      /\ device'[x].restarts = device[x].restarts
      /\ Elsewhere(device, device', Number, x)
  BY <1>1, <1>2 DEF Incarnation, Elsewhere
<1>4. Types'
  BY <1>1, <1>3 DEF Types
<1> QED
  BY <1>1, <1>3, <1>4 DEF DeviceGone

LEMMA SignalGroupEvent ==
    ASSUME Types, NEW x \in Number, NEW g \in Group, SignalGroup(x, g)
    PROVE  Types' /\ GroupSignalled(x, g)
<1> DEFINE m == Terminated(x)
<1>1. /\ device[x].life = "gone" /\ g \in watchers[x]
      /\ watchers' = [watchers EXCEPT ![x] = @ \ {g}]
      /\ groupBox' = IF group[g] = "up"
                     THEN [groupBox EXCEPT ![g] = Append(@, m)] ELSE groupBox
      /\ UNCHANGED <<told, asked, manager, managerBox, group, devices, query, queryBox,
                     device, deviceBox>>
  BY DEF SignalGroup, MaySignal, Behind, clients, managers, queries, incarnations
<1>2. /\ groupBox \in [Group -> Seq(GroupMessage)] /\ m \in GroupMessage
      /\ watchers \in [Number -> SUBSET (Group \cup Ask)]
  BY Kinds DEF Types
<1>3. /\ watchers' \in [Number -> SUBSET (Group \cup Ask)]
      /\ watchers'[x] = watchers[x] \ {g} /\ Elsewhere(watchers, watchers', Number, x)
  BY <1>1, <1>2 DEF Elsewhere
<1> HIDE DEF m
<1>4. /\ Append(groupBox[g], m) \in Seq(GroupMessage)
      /\ Plus(groupBox[g], Append(groupBox[g], m), m)
  BY <1>2, Appended
<1>5. /\ groupBox' \in [Group -> Seq(GroupMessage)]
      /\ IF group[g] = "up" THEN Sends(groupBox, groupBox', Group, g, m)
         ELSE groupBox' = groupBox
  <2>1. CASE group[g] = "up"
    <3>1. groupBox' = [groupBox EXCEPT ![g] = Append(@, m)]
      BY <1>1, <2>1
    <3> QED
      BY <1>2, <1>4, <2>1, <3>1 DEF Sends, Elsewhere
  <2>2. CASE group[g] # "up"
    BY <1>1, <1>2, <2>2
  <2> QED
    BY <2>1, <2>2
<1>6. Types'
  BY <1>1, <1>3, <1>5 DEF Types
<1> QED
  BY <1>1, <1>3, <1>5, <1>6 DEF GroupSignalled, m

LEMMA SignalQueryEvent ==
    ASSUME Types, NEW x \in Number, NEW i \in Ask, SignalQuery(x, i)
    PROVE  Types' /\ QuerySignalled(x, i)
<1> DEFINE m == Terminated(x)
<1>1. /\ device[x].life = "gone" /\ i \in watchers[x]
      /\ watchers' = [watchers EXCEPT ![x] = @ \ {i}]
      /\ queryBox' = [queryBox EXCEPT ![i] = Append(@, m)]
      /\ UNCHANGED <<told, asked, manager, managerBox, group, groupBox, devices, query,
                     device, deviceBox>>
  BY DEF SignalQuery, MaySignal, Behind, clients, managers, groups, incarnations
<1>2. /\ queryBox \in [Ask -> Seq(QueryMessage)] /\ m \in QueryMessage
      /\ watchers \in [Number -> SUBSET (Group \cup Ask)]
  BY Kinds DEF Types
<1>3. /\ watchers' \in [Number -> SUBSET (Group \cup Ask)]
      /\ watchers'[x] = watchers[x] \ {i} /\ Elsewhere(watchers, watchers', Number, x)
  BY <1>1, <1>2 DEF Elsewhere
<1> HIDE DEF m
<1>4. /\ Append(queryBox[i], m) \in Seq(QueryMessage)
      /\ Plus(queryBox[i], Append(queryBox[i], m), m)
  BY <1>2, Appended
<1>5. /\ queryBox' \in [Ask -> Seq(QueryMessage)]
      /\ Sends(queryBox, queryBox', Ask, i, m)
  BY <1>1, <1>2, <1>4 DEF Sends, Elsewhere
<1>6. Types'
  BY <1>1, <1>3, <1>5 DEF Types
<1> QED
  BY <1>1, <1>3, <1>5, <1>6 DEF QuerySignalled, m

\* Every step but a stutter, by who takes it.
ManagerEvent ==
    \/ \E k \in Number : RecordTold(k)
    \/ \E i \in Ask : QuestionAsked(i)
    \/ ShutdownTold
    \/ \E k \in Number : \E g \in Group : RecordRouted(k, g)
    \/ \E i \in Ask : \E g \in Group : QuestionRouted(i, g)
    \/ \E i \in Ask : QuestionRefused(i)
    \/ \E i \in Ask : QuestionSlipped(i)
    \/ ManagerDrained
    \/ ManagerStopped

GroupEvent ==
    \/ \E g \in Group : \E k \in Number : DeviceSpawned(g, k)
    \/ \E g \in Group : \E k, x \in Number : RecordForwarded(g, k, x)
    \/ \E g \in Group : \E i \in Ask : QuerySpawned(g, i)
    \/ \E g \in Group : \E x \in Number : DevicePruned(g, x)
    \/ \E g \in Group : GroupStopped(g)

Ending(i) ==
    \/ EndedAtOnce(i)
    \/ \E x \in Number : \E k \in {None} \cup Number : LastCollected(i, x, k)
    \/ \E x \in Number : LastGivenUp(i, x)
    \/ QueryStopped(i)

QueryEvent ==
    \/ \E i \in Ask : QueryBegun(i)
    \/ \E i \in Ask : Ending(i)
    \/ \E i \in Ask : \E x \in Number : DeviceAsked(i, x)
    \/ \E i \in Ask : \E x \in Number : \E k \in {None} \cup Number :
          ReadingCollected(i, x, k)
    \/ \E i \in Ask : \E x \in Number : DeviceGivenUp(i, x)
    \/ \E i \in Ask : \E x \in Number : SignalIgnored(i, x)

Closing(x) == (\E k \in Number : DeviceFailed(x, k)) \/ DeviceStopped(x)

DeviceEvent ==
    \/ \E x, k \in Number : RecordStored(x, k)
    \/ \E x, k \in Number : DeviceRestarted(x, k)
    \/ \E x \in Number : Closing(x)
    \/ \E x \in Number : \E i \in Ask : DeviceReplied(x, i)
    \/ \E x \in Number : DeviceGone(x)
    \/ \E x \in Number : \E g \in Group : GroupSignalled(x, g)
    \/ \E x \in Number : \E i \in Ask : QuerySignalled(x, i)

Event == ManagerEvent \/ GroupEvent \/ QueryEvent \/ DeviceEvent

LEMMA EveryStep ==
    ASSUME Types, Records, Registry, Next
    PROVE  Types' /\ Event
<1>1. CASE ClientSteps
  <2>1. CASE \E g \in Group, d \in Device, valid \in BOOLEAN : TellRecord(g, d, valid)
    <3>1. Types' /\ RecordTold(Len(told) + 1)
      BY <2>1, TellRecordEvent
    <3>2. Len(told) + 1 \in Number
      BY <3>1 DEF RecordTold
    <3> QED
      BY <3>1, <3>2 DEF Event, ManagerEvent
  <2>2. CASE \E i \in Ask : AskAverage(i)
    BY <2>2, AskAverageEvent DEF Event, ManagerEvent
  <2>3. CASE \E i \in Ask : SlipAverage(i)
    BY <2>3, SlipAverageEvent DEF Event, ManagerEvent
  <2>4. CASE TellShutdown
    BY <2>4, TellShutdownEvent DEF Event, ManagerEvent
  <2> QED
    BY <1>1, <2>1, <2>2, <2>3, <2>4 DEF ClientSteps
<1>2. CASE ManagerSteps
  BY <1>2, RouteRecordEvent, RouteAverageEvent, StopManagerEvent,
     DisconnectManagerEvent DEF ManagerSteps, Event, ManagerEvent
<1>3. ASSUME NEW g \in Group, GroupSteps(g) PROVE Types' /\ Event
  BY <1>3, RecordInGroupEvent, AverageInGroupEvent, PruneEvent, StopGroupEvent
     DEF GroupSteps, Event, GroupEvent
<1>4. ASSUME NEW i \in Ask, QuerySteps(i) PROVE Types' /\ Event
  <2>1. CASE Begin(i)
    BY <2>1, BeginEvent DEF Event, QueryEvent, Ending
  <2>2. CASE \E x \in Number : FanOut(i, x)
    BY <2>2, FanOutEvent DEF Event, QueryEvent
  <2>3. CASE Collect(i)
    BY <2>3, CollectEvent DEF Event, QueryEvent, Ending
  <2>4. CASE GiveUpOn(i)
    BY <2>4, GiveUpOnEvent DEF Event, QueryEvent, Ending
  <2>5. CASE StopQuery(i)
    BY <2>5, StopQueryEvent DEF Event, QueryEvent, Ending
  <2> QED
    BY <1>4, <2>1, <2>2, <2>3, <2>4, <2>5 DEF QuerySteps
<1>5. ASSUME NEW x \in Number, DeviceSteps(x) PROVE Types' /\ Event
  <2>1. CASE Store(x)
    BY <2>1, StoreEvent DEF Event, DeviceEvent
  <2>2. CASE FailOnNaN(x)
    BY <2>2, FailOnNaNEvent DEF Event, DeviceEvent, Closing
  <2>3. CASE Reply(x)
    BY <2>3, ReplyEvent DEF Event, DeviceEvent
  <2>4. CASE StopDevice(x)
    BY <2>4, StopDeviceEvent DEF Event, DeviceEvent, Closing
  <2>5. CASE FallSilent(x)
    BY <2>5, FallSilentEvent DEF Event, DeviceEvent
  <2>6. CASE \E g \in Group : SignalGroup(x, g)
    BY <2>6, SignalGroupEvent DEF Event, DeviceEvent
  <2>7. CASE \E i \in Ask : SignalQuery(x, i)
    BY <2>7, SignalQueryEvent DEF Event, DeviceEvent
  <2> QED
    BY <1>5, <2>1, <2>2, <2>3, <2>4, <2>5, <2>6, <2>7 DEF DeviceSteps
<1> QED
  BY <1>1, <1>2, <1>3, <1>4, <1>5 DEF Next

-----------------------------------------------------------------------------
\* What the types say of the members of the sets.
LEMMA Members ==
    ASSUME Types
    PROVE  /\ \A k \in Told : told[k].group \in Group /\ k \in Number
           /\ \A g \in Group : \A x \in devices[g] : x \in Number
           /\ \A i \in Ask : asked[i].group \in Group
           /\ \A i \in Ask :
                 /\ \A x \in query[i].todo : x \in Number
                 /\ \A x \in query[i].pending : x \in Number
                 /\ \A k \in query[i].counted : k \in Number
           /\ \A i \in Ask : \A k \in asked[i].counted : k \in Number
           /\ \A x \in Number : device[x].reading \in {None} \cup Number
<1>1. ASSUME NEW k \in Told PROVE told[k].group \in Group /\ k \in Number
  <2>1. told \in Seq(Data) /\ Len(told) \in Nat /\ Len(told) <= MaxRecords
    BY LenProperties DEF Types
  <2>2. \A n \in Nat : n <= MaxRecords => 1 .. n \subseteq 1 .. MaxRecords
    OBVIOUS
  <2>3. k \in Number
    BY <2>1, <2>2 DEF Told, Number
  <2>4. told[k] \in Data
    BY <2>1, ElementOfSeq DEF Told
  <2> QED
    BY <2>3, <2>4 DEF Data
<1>2. \A g \in Group : \A x \in devices[g] : x \in Number
  BY DEF Types
<1>3. \A i \in Ask : asked[i] \in Question /\ query[i] \in Querying
  BY DEF Types
<1>4. \A x \in Number : device[x] \in Incarnation
  BY DEF Types
<1> QED
  BY <1>1, <1>2, <1>3, <1>4 DEF Question, Querying, Incarnation

\* What the events leave alone.
LEMMA ManagerFrame ==
    ManagerEvent => UNCHANGED <<devices, query, queryBox, device, deviceBox, watchers>>
BY DEF ManagerEvent, RecordTold, QuestionAsked, ShutdownTold, RecordRouted,
   QuestionRouted, QuestionRefused, QuestionSlipped, ManagerDrained, ManagerStopped

LEMMA GroupFrame ==
    GroupEvent => UNCHANGED <<told, manager, managerBox>>
BY DEF GroupEvent, DeviceSpawned, RecordForwarded, QuerySpawned, DevicePruned,
   GroupStopped

LEMMA QueryFrame ==
    QueryEvent => UNCHANGED <<told, manager, managerBox, group, groupBox, devices, device>>
BY DEF QueryEvent, QueryBegun, Ending, EndedAtOnce, LastCollected, LastGivenUp,
   QueryStopped, QueryEnded, DeviceAsked, ReadingCollected, DeviceGivenUp, DeviceDone,
   SignalIgnored

LEMMA DeviceFrame ==
    DeviceEvent => UNCHANGED <<told, asked, manager, managerBox, group, devices, query>>
BY DEF DeviceEvent, RecordStored, DeviceRestarted, Closing, DeviceFailed,
   DeviceStopped, DeviceClosed, DeviceReplied, DeviceGone, GroupSignalled,
   QuerySignalled

LEMMA Ended ==
    ASSUME NEW i \in Ask, Ending(i)
    PROVE  QueryEnded(i)
BY DEF Ending, EndedAtOnce, LastCollected, LastGivenUp, QueryStopped

LEMMA Closed ==
    ASSUME NEW x \in Number, Closing(x)
    PROVE  DeviceClosed(x)
BY DEF Closing, DeviceFailed, DeviceStopped

LEMMA QuestionFrame ==
    ASSUME Event, NEW i \in Ask
    PROVE  /\ asked'[i].group = asked[i].group
           /\ asked'[i].since = asked[i].since \/ asked[i].status = "unasked"
<1>1. CASE ManagerEvent
  BY <1>1 DEF ManagerEvent, RecordTold, QuestionAsked, ShutdownTold, RecordRouted,
     QuestionRouted, QuestionRefused, QuestionSlipped, ManagerDrained,
     ManagerStopped, Dropped, Elsewhere
<1>2. CASE GroupEvent
  BY <1>2 DEF GroupEvent, DeviceSpawned, RecordForwarded, QuerySpawned, DevicePruned,
     GroupStopped, Dropped
<1>3. CASE QueryEvent
  BY <1>3, Ended DEF QueryEvent, QueryBegun, QueryEnded, DeviceAsked,
     ReadingCollected, DeviceGivenUp, DeviceDone, SignalIgnored, Elsewhere
<1>4. CASE DeviceEvent
  BY <1>4, DeviceFrame
<1> QED
  BY <1>1, <1>2, <1>3, <1>4 DEF Event

LEMMA SameTold ==
    ASSUME told' = told
    PROVE  Told' = Told /\ \A k, l : SameDevice(k, l)' <=> SameDevice(k, l)
BY DEF Told, SameDevice

LEMMA MoreTold ==
    ASSUME NEW k \in Number, RecordTold(k)
    PROVE  /\ Told' = Told \cup {k} /\ k \notin Told
           /\ \A l \in Told : told'[l] = told[l] /\ l < k
           /\ \A l, m \in Told : SameDevice(l, m)' <=> SameDevice(l, m)
BY DEF RecordTold, SameDevice

-----------------------------------------------------------------------------
(***************************************************************************)
(* The registry of devices.                                                 *)
(***************************************************************************)

LEMMA RegistryKept ==
    ASSUME Types, Registry, Signals, Records, Event
    PROVE  Registry'
<1>1. ASSUME UNCHANGED <<told, devices>>,
             \A x \in Number : device'[x].life = device[x].life
      PROVE  Registry'
  BY <1>1, SameTold, Members DEF Registry
<1>2. ASSUME NEW k \in Number, RecordTold(k) PROVE Registry'
  <2>1. UNCHANGED <<devices, device>>
    BY <1>2 DEF RecordTold
  <2> QED
    BY <1>2, <2>1, MoreTold, Members DEF Registry
<1>3. CASE ManagerEvent
  <2>1. CASE \E k \in Number : RecordTold(k)
    BY <1>2, <2>1
  <2>2. CASE ~ \E k \in Number : RecordTold(k)
    <3>1. UNCHANGED <<told, devices, device>>
      BY <1>3, <2>2 DEF ManagerEvent, QuestionAsked, ShutdownTold, RecordRouted,
         QuestionRouted, QuestionRefused, QuestionSlipped, ManagerDrained,
         ManagerStopped
    <3> QED
      BY <1>1, <3>1
  <2> QED
    BY <2>1, <2>2
<1>4. ASSUME NEW g \in Group, NEW k \in Number, DeviceSpawned(g, k) PROVE Registry'
  <2>1. /\ In(groupBox[g], Record(k))
        /\ \A x \in devices[g] : ~SameDevice(x, k)
        /\ devices'[g] = devices[g] \cup {k} /\ Elsewhere(devices, devices', Group, g)
        /\ device'[k].life = "up" /\ Elsewhere(device, device', Number, k)
        /\ told' = told
    BY <1>4 DEF DeviceSpawned, Takes, Minus
  <2>2. k \in Told /\ told[k].group = g /\ device[k].life = "unborn"
    BY <2>1 DEF Records
  <2>3. \A h \in Group : k \in devices[h] => FALSE
    BY <2>2 DEF Registry
  <2>4. \A h \in Group : \A x \in devices'[h] :
           x \in Told' /\ told'[x].group = h /\ device'[x].life # "unborn"
    BY <2>1, <2>2, <2>3, SameTold, Members DEF Registry, Elsewhere
  <2>5. \A h \in Group : \A x, y \in devices'[h] : SameDevice(x, y)' => x = y
    BY <2>1, <2>2, <2>3, SameTold, Members DEF Registry, Elsewhere, SameDevice
  <2>6. \A x \in Number : device'[x].life # "unborn" => x \in Told'
    BY <2>1, <2>2, SameTold DEF Registry, Elsewhere
  <2>7. ASSUME NEW x \in Number, device'[x].life \in {"up", "closed"}
        PROVE  x \in devices'[told'[x].group]
    <3>1. CASE x = k
      BY <2>1, <2>2, <3>1
    <3>2. CASE x # k
      <4>1. x \in devices[told[x].group] /\ x \in Told
        BY <2>1, <2>7, <3>2 DEF Registry, Elsewhere
      <4>2. told[x].group \in Group
        BY <4>1, Members
      <4> QED
        BY <2>1, <4>1, <4>2 DEF Elsewhere
    <3> QED
      BY <3>1, <3>2
  <2> QED
    BY <2>4, <2>5, <2>6, <2>7 DEF Registry
<1>5. ASSUME NEW g \in Group, NEW x \in Number, DevicePruned(g, x) PROVE Registry'
  <2>1. /\ In(groupBox[g], Terminated(x))
        /\ devices'[g] = devices[g] \ {x} /\ Elsewhere(devices, devices', Group, g)
        /\ told' = told /\ device' = device
    BY <1>5 DEF DevicePruned, Takes, Minus
  <2>2. device[x].life = "gone"
    BY <2>1 DEF Signals
  <2>3. \A h \in Group : devices'[h] \subseteq devices[h]
    BY <2>1 DEF Elsewhere
  <2>4. ASSUME NEW y \in Number, device[y].life \in {"up", "closed"}
        PROVE  y \in devices'[told[y].group]
    <3>1. y \in devices[told[y].group] /\ y # x /\ y \in Told
      BY <2>2, <2>4 DEF Registry
    <3>2. told[y].group \in Group
      BY <3>1, Members
    <3> QED
      BY <2>1, <3>1, <3>2 DEF Elsewhere
  <2> QED
    BY <2>1, <2>3, <2>4, SameTold DEF Registry
<1>6. CASE GroupEvent
  <2>1. CASE \E g \in Group : \E k \in Number : DeviceSpawned(g, k)
    BY <1>4, <2>1
  <2>2. CASE \E g \in Group : \E x \in Number : DevicePruned(g, x)
    BY <1>5, <2>2
  <2>3. CASE \/ \E g \in Group : \E k, x \in Number : RecordForwarded(g, k, x)
             \/ \E g \in Group : \E i \in Ask : QuerySpawned(g, i)
             \/ \E g \in Group : GroupStopped(g)
    <3>1. UNCHANGED <<told, devices, device>>
      BY <2>3 DEF RecordForwarded, QuerySpawned, GroupStopped
    <3> QED
      BY <1>1, <3>1
  <2> QED
    BY <1>6, <2>1, <2>2, <2>3 DEF GroupEvent
<1>7. CASE QueryEvent
  <2>1. UNCHANGED <<told, devices, device>>
    BY <1>7 DEF QueryEvent, QueryBegun, Ending, EndedAtOnce, LastCollected,
       LastGivenUp, QueryStopped, QueryEnded, DeviceAsked, ReadingCollected,
       DeviceGivenUp, DeviceDone, SignalIgnored
  <2> QED
    BY <1>1, <2>1
<1>8. ASSUME NEW x \in Number, DeviceClosed(x) \/ DeviceGone(x) PROVE Registry'
  <2>1. /\ device[x].life \in {"up", "closed"} /\ device'[x].life # "unborn"
        /\ device'[x].life # "up" /\ Elsewhere(device, device', Number, x)
        /\ told' = told /\ devices' = devices
    BY <1>8 DEF DeviceClosed, DeviceGone
  <2>2. \A y \in Number : /\ device'[y].life # "unborn" <=> device[y].life # "unborn"
                          /\ device'[y].life \in {"up", "closed"} =>
                                device[y].life \in {"up", "closed"}
    BY <2>1 DEF Elsewhere
  <2> QED
    BY <2>1, <2>2, SameTold, Members DEF Registry
<1>9. CASE DeviceEvent
  <2>1. CASE \E x \in Number : Closing(x)
    BY <1>8, <2>1 DEF Closing, DeviceFailed, DeviceStopped
  <2>2. CASE \E x \in Number : DeviceGone(x)
    BY <1>8, <2>2
  <2>3. CASE \/ \E x, k \in Number : RecordStored(x, k)
             \/ \E x, k \in Number : DeviceRestarted(x, k)
    <3>1. /\ UNCHANGED <<told, devices>>
          /\ \A x \in Number : device'[x].life = device[x].life
      BY <2>3 DEF RecordStored, DeviceRestarted, Elsewhere
    <3> QED
      BY <1>1, <3>1
  <2>4. CASE \/ \E x \in Number : \E i \in Ask : DeviceReplied(x, i)
             \/ \E x \in Number : \E g \in Group : GroupSignalled(x, g)
             \/ \E x \in Number : \E i \in Ask : QuerySignalled(x, i)
    <3>1. UNCHANGED <<told, devices, device>>
      BY <2>4 DEF DeviceReplied, GroupSignalled, QuerySignalled
    <3> QED
      BY <1>1, <3>1
  <2> QED
    BY <1>9, <2>1, <2>2, <2>3, <2>4 DEF DeviceEvent
<1> QED
  BY <1>3, <1>6, <1>7, <1>9 DEF Event

-----------------------------------------------------------------------------
(***************************************************************************)
(* The signals of devices.                                                  *)
(***************************************************************************)

LEMMA SignalsKept ==
    ASSUME Types, Signals, Records, Phases, Readings, Event
    PROVE  Signals'
<1>1. ASSUME \A g \in Group : \A x \in Number :
                In(groupBox'[g], Terminated(x)) => In(groupBox[g], Terminated(x)),
             \A i \in Ask : \A x \in Number :
                In(queryBox'[i], Terminated(x)) => In(queryBox[i], Terminated(x)),
             \A x \in Number :
                /\ device[x].life = "gone" => device'[x].life = "gone"
                /\ watchers'[x] \subseteq watchers[x]
      PROVE  Signals'
  BY <1>1 DEF Signals
<1>2. CASE ManagerEvent
  <2>1. \A g \in Group : \A x \in Number :
           In(groupBox'[g], Terminated(x)) => In(groupBox[g], Terminated(x))
    <3>1. CASE \E k \in Number : \E g \in Group : RecordRouted(k, g)
      BY <3>1, Apart DEF RecordRouted, Sends, Plus, Elsewhere
    <3>2. CASE \E i \in Ask : \E g \in Group : QuestionRouted(i, g)
      BY <3>2, Apart DEF QuestionRouted, Sends, Plus, Elsewhere
    <3>3. CASE groupBox' = groupBox
      BY <3>3
    <3> QED
      BY <1>2, <3>1, <3>2, <3>3 DEF ManagerEvent, RecordTold, QuestionAsked,
         ShutdownTold, QuestionRefused, QuestionSlipped, ManagerDrained,
         ManagerStopped
  <2>2. UNCHANGED <<queryBox, device, watchers>>
    BY <1>2 DEF ManagerEvent, RecordTold, QuestionAsked, ShutdownTold, RecordRouted,
       QuestionRouted, QuestionRefused, QuestionSlipped, ManagerDrained,
       ManagerStopped
  <2> QED
    BY <1>1, <2>1, <2>2
<1>3. CASE GroupEvent
  <2>1. \A g \in Group : \A x \in Number :
           In(groupBox'[g], Terminated(x)) => In(groupBox[g], Terminated(x))
    <3>1. ASSUME NEW g \in Group, NEW m, Takes(groupBox, groupBox', Group, g, m)
          PROVE  \A h \in Group : \A x \in Number :
                    In(groupBox'[h], Terminated(x)) => In(groupBox[h], Terminated(x))
      BY <3>1 DEF Takes, Minus, Within, Elsewhere
    <3>2. ASSUME NEW g \in Group, GroupStopped(g)
          PROVE  \A h \in Group : \A x \in Number :
                    In(groupBox'[h], Terminated(x)) => In(groupBox[h], Terminated(x))
      BY <3>2, Emptied DEF GroupStopped, Elsewhere
    <3> QED
      BY <1>3, <3>1, <3>2 DEF GroupEvent, DeviceSpawned, RecordForwarded,
         QuerySpawned, DevicePruned
  <2>2. CASE \E g \in Group : \E k \in Number : DeviceSpawned(g, k)
    <3>1. PICK g \in Group, k \in Number : DeviceSpawned(g, k)
      BY <2>2
    <3>2. /\ In(groupBox[g], Record(k))
          /\ device'[k].life = "up" /\ Elsewhere(device, device', Number, k)
          /\ watchers'[k] = {g} /\ Elsewhere(watchers, watchers', Number, k)
          /\ queryBox' = queryBox
      BY <3>1 DEF DeviceSpawned, Takes, Minus
    <3>3. device[k].life = "unborn"
      BY <3>2 DEF Records
    <3> QED
      BY <2>1, <3>2, <3>3 DEF Signals, Elsewhere
  <2>3. CASE \E g \in Group : \E i \in Ask : QuerySpawned(g, i)
    <3>1. PICK g \in Group, i \in Ask : QuerySpawned(g, i)
      BY <2>3
    <3>2. /\ queryBox'[i] = <<Start>> /\ Elsewhere(queryBox, queryBox', Ask, i)
          /\ UNCHANGED <<device, watchers>>
      BY <3>1 DEF QuerySpawned
    <3>3. \A x : ~In(queryBox'[i], Terminated(x))
      BY <3>2, Kinds, Alone, Apart
    <3> QED
      BY <1>1, <2>1, <3>2, <3>3 DEF Elsewhere
  <2>4. CASE UNCHANGED <<queryBox, device, watchers>>
    BY <1>1, <2>1, <2>4
  <2> QED
    BY <1>3, <2>2, <2>3, <2>4 DEF GroupEvent, RecordForwarded, DevicePruned, GroupStopped
<1>4. CASE QueryEvent
  <2>1. UNCHANGED <<groupBox, device>>
    BY <1>4 DEF QueryEvent, QueryBegun, Ending, EndedAtOnce, LastCollected,
       LastGivenUp, QueryStopped, QueryEnded, DeviceAsked, ReadingCollected,
       DeviceGivenUp, DeviceDone, SignalIgnored
  <2>2. ASSUME NEW i \in Ask, NEW m, Takes(queryBox, queryBox', Ask, i, m)
        PROVE  \A j \in Ask : \A x \in Number :
                  In(queryBox'[j], Terminated(x)) => In(queryBox[j], Terminated(x))
    BY <2>2 DEF Takes, Minus, Within, Elsewhere
  <2>3. CASE \E i \in Ask : Ending(i)
    <3>1. PICK i \in Ask : QueryEnded(i)
      BY <2>3 DEF Ending, EndedAtOnce, LastCollected, LastGivenUp, QueryStopped
    <3> QED
      BY <1>1, <2>1, <3>1, Emptied DEF QueryEnded, Elsewhere
  <2>4. CASE \E i \in Ask : \E x \in Number : DeviceAsked(i, x)
    <3>1. PICK i \in Ask, x \in Number : DeviceAsked(i, x)
      BY <2>4
    <3>2. i \notin watchers[x]
      BY <3>1 DEF DeviceAsked, Readings, ReadingsOf
    <3>3. CASE device[x].life = "gone"
      <4>1. Sends(queryBox, queryBox', Ask, i, Terminated(x)) /\ watchers' = watchers
        BY <3>1, <3>3 DEF DeviceAsked
      <4> QED
        BY <2>1, <3>2, <3>3, <4>1, Apart DEF Signals, Sends, Plus, Elsewhere
    <3>4. CASE device[x].life # "gone"
      <4>1. /\ queryBox' = queryBox /\ watchers'[x] = watchers[x] \cup {i}
            /\ Elsewhere(watchers, watchers', Number, x)
        BY <3>1, <3>4 DEF DeviceAsked
      <4> QED
        BY <2>1, <3>4, <4>1 DEF Signals, Elsewhere
    <3> QED
      BY <3>3, <3>4
  <2>5. CASE \/ \E i \in Ask : QueryBegun(i)
             \/ \E i \in Ask : \E x \in Number : DeviceGivenUp(i, x)
             \/ \E i \in Ask : \E x \in Number : SignalIgnored(i, x)
    <3>1. watchers' = watchers
          /\ \E i \in Ask : \E m : Takes(queryBox, queryBox', Ask, i, m)
      BY <2>5 DEF QueryBegun, DeviceGivenUp, SignalIgnored
    <3> QED
      BY <1>1, <2>1, <2>2, <3>1
  <2>6. CASE \E i \in Ask : \E x \in Number : \E k \in {None} \cup Number :
                ReadingCollected(i, x, k)
    <3>1. PICK i \in Ask, x \in Number, k \in {None} \cup Number :
             ReadingCollected(i, x, k)
      BY <2>6
    <3>2. /\ Takes(queryBox, queryBox', Ask, i, Reading(x, k))
          /\ \A y \in Number : watchers'[y] \subseteq watchers[y]
      BY <3>1 DEF ReadingCollected, Elsewhere
    <3> QED
      BY <1>1, <2>1, <2>2, <3>2
  <2> QED
    BY <1>4, <2>3, <2>4, <2>5, <2>6 DEF QueryEvent
<1>5. CASE DeviceEvent
  <2>1. CASE \E x \in Number : \E g \in Group : GroupSignalled(x, g)
    <3>1. PICK x \in Number, g \in Group : GroupSignalled(x, g)
      BY <2>1
    <3>2. /\ device[x].life = "gone" /\ device' = device /\ queryBox' = queryBox
          /\ watchers'[x] = watchers[x] \ {g} /\ Elsewhere(watchers, watchers', Number, x)
      BY <3>1 DEF GroupSignalled
    <3>3. \A h \in Group : \A m :
             In(groupBox'[h], m) => In(groupBox[h], m) \/ (h = g /\ m = Terminated(x))
      BY <3>1 DEF GroupSignalled, Sends, Plus, Elsewhere
    <3> QED
      BY <3>2, <3>3, Apart DEF Signals, Elsewhere
  <2>2. CASE \E x \in Number : \E i \in Ask : QuerySignalled(x, i)
    <3>1. PICK x \in Number, i \in Ask : QuerySignalled(x, i)
      BY <2>2
    <3>2. /\ device[x].life = "gone" /\ device' = device /\ groupBox' = groupBox
          /\ watchers'[x] = watchers[x] \ {i} /\ Elsewhere(watchers, watchers', Number, x)
      BY <3>1 DEF QuerySignalled
    <3>3. \A j \in Ask : \A m :
             In(queryBox'[j], m) => In(queryBox[j], m) \/ (j = i /\ m = Terminated(x))
      BY <3>1 DEF QuerySignalled, Sends, Plus, Elsewhere
    <3> QED
      BY <3>2, <3>3, Apart DEF Signals, Elsewhere
  <2>3. CASE \E x \in Number : \E i \in Ask : DeviceReplied(x, i)
    <3>1. PICK x \in Number, i \in Ask : DeviceReplied(x, i)
      BY <2>3
    <3>2. \A j \in Ask : \A y \in Number :
             In(queryBox'[j], Terminated(y)) => In(queryBox[j], Terminated(y))
      BY <3>1, Apart DEF DeviceReplied, Sends, Plus, Elsewhere
    <3>3. UNCHANGED <<groupBox, device, watchers>>
      BY <3>1 DEF DeviceReplied
    <3> QED
      BY <1>1, <3>2, <3>3
  <2>4. CASE \/ \E x, k \in Number : RecordStored(x, k)
             \/ \E x, k \in Number : DeviceRestarted(x, k)
             \/ \E x \in Number : Closing(x)
             \/ \E x \in Number : DeviceGone(x)
    <3>1. UNCHANGED <<groupBox, queryBox, watchers>>
      BY <2>4 DEF RecordStored, DeviceRestarted, Closing, DeviceFailed, DeviceStopped,
         DeviceClosed, DeviceGone
    <3>2. \A x \in Number : device[x].life = "gone" => device'[x].life = "gone"
      BY <2>4 DEF RecordStored, DeviceRestarted, Closing, DeviceFailed, DeviceStopped,
         DeviceClosed, DeviceGone, Elsewhere
    <3> QED
      BY <1>1, <3>1, <3>2
  <2> QED
    BY <1>5, <2>1, <2>2, <2>3, <2>4 DEF DeviceEvent
<1> QED
  BY <1>2, <1>3, <1>4, <1>5 DEF Event

-----------------------------------------------------------------------------
(***************************************************************************)
(* The records.                                                             *)
(***************************************************************************)

LEMMA RecordsKept ==
    ASSUME Types, NoDuplicates, Registry, Records, Event
    PROVE  Records'
<1>1. ASSUME told' = told,
             \A k \in Number : In(managerBox', Record(k)) => In(managerBox, Record(k)),
             \A g \in Group : \A k \in Number :
                In(groupBox'[g], Record(k)) => In(groupBox[g], Record(k)),
             \A x, k \in Number :
                In(deviceBox'[x], Record(k)) => In(deviceBox[x], Record(k)),
             \A x \in Number :
                /\ device'[x].life = "unborn" <=> device[x].life = "unborn"
                /\ device'[x].life # "up" =>
                      deviceBox'[x] = <<>> \/ (deviceBox'[x] = deviceBox[x]
                                                 /\ device[x].life # "up")
                /\ device'[x].reading \in {None, device[x].reading}
                /\ device'[x].life = "unborn" =>
                      device'[x].restarts = device[x].restarts
      PROVE  Records'
  BY <1>1, SameTold, Members DEF Records
<1>2. CASE ManagerEvent
  <2>1. UNCHANGED <<device, deviceBox>>
    BY <1>2, ManagerFrame
  <2>2. CASE \E k \in Number : RecordTold(k)
    <3>1. PICK k \in Number : RecordTold(k)
      BY <2>2
    <3>2. /\ groupBox' = groupBox
          /\ \A l : In(managerBox', Record(l)) => In(managerBox, Record(l)) \/ l = k
      BY <3>1, Apart DEF RecordTold, Plus
    <3>3. /\ Told' = Told \cup {k} /\ k \notin Told
          /\ \A l \in Told : told'[l] = told[l]
          /\ \A l, m \in Told : SameDevice(l, m)' <=> SameDevice(l, m)
      BY <3>1, MoreTold
    <3>4. /\ device[k].life = "unborn"
          /\ \A g \in Group : ~In(groupBox[g], Record(k))
          /\ \A x \in Number : ~In(deviceBox[x], Record(k))
      BY <3>3 DEF Registry, Records
    <3>5. \A x \in Number : deviceBox[x] # <<>> => x \in Told
      BY DEF Registry, Records
    <3>6. \A x, l \in Number : In(deviceBox[x], Record(l)) => x \in Told
      BY <3>5, Emptied
    <3>7. \A x \in Number : device[x].reading # None => x \in Told
      BY DEF Registry, Records
    <3> QED
      BY <2>1, <3>2, <3>3, <3>4, <3>6, <3>7, Members DEF Records
  <2>3. CASE \E k \in Number : \E g \in Group : RecordRouted(k, g)
    <3>1. PICK k \in Number, g \in Group : RecordRouted(k, g)
      BY <2>3
    <3>2. /\ told' = told /\ g = told[k].group
          /\ In(managerBox, Record(k)) /\ ~In(managerBox', Record(k))
          /\ \A m : In(managerBox', m) => In(managerBox, m)
      BY <3>1 DEF RecordRouted, Minus, Within, NoDuplicates
    <3>3. \A h \in Group : \A l : In(groupBox'[h], Record(l)) =>
             In(groupBox[h], Record(l)) \/ (h = g /\ l = k)
      BY <3>1, Apart DEF RecordRouted, Sends, Plus, Elsewhere
    <3> QED
      BY <2>1, <3>2, <3>3, SameTold, Members DEF Records
  <2>4. CASE \E i \in Ask : \E g \in Group : QuestionRouted(i, g)
    <3>1. PICK i \in Ask, g \in Group : QuestionRouted(i, g)
      BY <2>4
    <3>2. /\ told' = told
          /\ \A m : In(managerBox', m) => In(managerBox, m)
      BY <3>1 DEF QuestionRouted, Minus, Within
    <3>3. \A h \in Group : \A l : In(groupBox'[h], Record(l)) => In(groupBox[h], Record(l))
      BY <3>1, Apart DEF QuestionRouted, Sends, Plus, Elsewhere
    <3> QED
      BY <1>1, <2>1, <3>2, <3>3 DEF Records
  <2>5. CASE \/ \E i \in Ask : QuestionAsked(i)
             \/ ShutdownTold
             \/ \E i \in Ask : QuestionRefused(i)
             \/ \E i \in Ask : QuestionSlipped(i)
             \/ ManagerDrained
             \/ ManagerStopped
    <3>1. told' = told /\ groupBox' = groupBox
      BY <2>5 DEF QuestionAsked, ShutdownTold, QuestionRefused, QuestionSlipped,
         ManagerDrained, ManagerStopped
    <3>2. \A k : In(managerBox', Record(k)) => In(managerBox, Record(k))
      BY <2>5, Apart, Emptied DEF QuestionAsked, ShutdownTold, QuestionRefused,
         QuestionSlipped, ManagerDrained, ManagerStopped, Plus, Minus, Within
    <3> QED
      BY <1>1, <2>1, <3>1, <3>2 DEF Records
  <2> QED
    BY <1>2, <2>2, <2>3, <2>4, <2>5 DEF ManagerEvent
<1>3. CASE GroupEvent
  <2>1. told' = told /\ managerBox' = managerBox
    BY <1>3, GroupFrame
  <2>2. ASSUME NEW g \in Group, NEW k \in Number, DeviceSpawned(g, k)
        PROVE  Records'
    <3>1. /\ In(groupBox[g], Record(k)) /\ ~In(groupBox'[g], Record(k))
          /\ Elsewhere(groupBox, groupBox', Group, g)
          /\ \A m : In(groupBox'[g], m) => In(groupBox[g], m)
      BY <2>2 DEF DeviceSpawned, Takes, Minus, Within, NoDuplicates
    <3>2. /\ k \in Told /\ told[k].group = g /\ device[k].life = "unborn"
          /\ device[k].reading = None /\ device[k].restarts = 0
          /\ \A x \in Number : ~In(deviceBox[x], Record(k))
          /\ ~In(managerBox, Record(k))
      BY <3>1 DEF Records
    <3>3. /\ device'[k].life = "up" /\ device'[k].reading = None
          /\ Elsewhere(device, device', Number, k)
          /\ deviceBox'[k] = <<Record(k)>> /\ Elsewhere(deviceBox, deviceBox', Number, k)
      BY <2>2, <3>2 DEF DeviceSpawned
    <3>4. \A l : In(deviceBox'[k], Record(l)) => l = k
      BY <3>3, Kinds, Alone, Apart
    <3>5. SameDevice(k, k)
      BY DEF SameDevice
    <3> HIDE <2>2
    <3>6. \A h \in Group : ~In(groupBox'[h], Record(k))
      BY <3>1, <3>2 DEF Records, Elsewhere
    <3>7. \A x \in Number : device'[x].life # "up" => deviceBox'[x] = <<>>
      BY <3>3 DEF Records, Elsewhere
    <3>8. \A l \in Number : In(managerBox', Record(l)) =>
             /\ l \in Told' /\ device'[l].life = "unborn"
             /\ \A h \in Group : ~In(groupBox'[h], Record(l))
             /\ \A x \in Number : ~In(deviceBox'[x], Record(l))
      BY <2>1, <3>1, <3>2, <3>3, <3>4, SameTold DEF Records, Elsewhere
    <3>9. \A h \in Group : \A l \in Number : In(groupBox'[h], Record(l)) =>
             /\ l \in Told' /\ told'[l].group = h /\ device'[l].life = "unborn"
             /\ \A x \in Number : ~In(deviceBox'[x], Record(l))
      BY <2>1, <3>1, <3>2, <3>3, <3>4, <3>6, SameTold DEF Records, Elsewhere
    <3>10. \A x, l \in Number : In(deviceBox'[x], Record(l)) =>
              l \in Told' /\ SameDevice(l, x)'
      BY <2>1, <3>2, <3>3, <3>4, <3>5, SameTold DEF Records, Elsewhere
    <3>12. \A x \in Number : device[x].reading # None =>
              /\ device[x].reading \in Told /\ told[device[x].reading].valid
              /\ SameDevice(device[x].reading, x)
      BY DEF Records
    <3>13. \A x \in Number : x # k => device'[x] = device[x]
      BY <3>3 DEF Elsewhere
    <3>14. \A x \in Number : device[x].life = "unborn" =>
              device[x].reading = None /\ device[x].restarts = 0
      BY DEF Records
    <3>11. \A x \in Number :
              /\ device'[x].reading # None =>
                    /\ device'[x].reading \in Told'
                    /\ told'[device'[x].reading].valid
                    /\ SameDevice(device[x].reading, x)'
              /\ device'[x].life = "unborn" =>
                    device'[x].reading = None /\ device'[x].restarts = 0
      BY <2>1, <3>3, <3>12, <3>13, <3>14, SameTold
    <3> QED
      BY <3>7, <3>8, <3>9, <3>10, <3>11, SameTold, <2>1 DEF Records
  <2>3. ASSUME NEW g \in Group, NEW k \in Number, NEW x \in Number,
               RecordForwarded(g, k, x)
        PROVE  Records'
    <3>1. /\ In(groupBox[g], Record(k)) /\ ~In(groupBox'[g], Record(k))
          /\ Elsewhere(groupBox, groupBox', Group, g)
          /\ \A m : In(groupBox'[g], m) => In(groupBox[g], m)
      BY <2>3 DEF RecordForwarded, Takes, Minus, Within, NoDuplicates
    <3>2. /\ k \in Told /\ told[k].group = g
          /\ ~In(managerBox, Record(k))
      BY <3>1 DEF Records
    <3>3. \A h \in Group : ~In(groupBox'[h], Record(k))
      BY <3>1, <3>2 DEF Records, Elsewhere
    <3>4. /\ device' = device /\ SameDevice(k, x)
          /\ \A y \in Number : device[y].life # "up" => deviceBox'[y] = deviceBox[y]
          /\ \A y, l \in Number : In(deviceBox'[y], Record(l)) =>
                In(deviceBox[y], Record(l)) \/ (y = x /\ l = k)
      BY <2>3, Apart DEF RecordForwarded, Sends, Plus, Elsewhere, SameDevice
    <3> HIDE <2>3
    <3> QED
      BY <2>1, <3>1, <3>2, <3>3, <3>4, SameTold, Members DEF Records, Elsewhere
  <2>4. CASE \/ \E g \in Group : \E i \in Ask : QuerySpawned(g, i)
             \/ \E g \in Group : \E x \in Number : DevicePruned(g, x)
             \/ \E g \in Group : GroupStopped(g)
    <3>1. UNCHANGED <<device, deviceBox>>
      BY <2>4 DEF QuerySpawned, DevicePruned, GroupStopped
    <3>2. \A g \in Group : \A m : In(groupBox'[g], m) => In(groupBox[g], m)
      BY <2>4, Emptied DEF QuerySpawned, DevicePruned, GroupStopped, Takes, Minus,
         Within, Elsewhere
    <3> QED
      BY <1>1, <2>1, <3>1, <3>2 DEF Records
  <2> QED
    BY <1>3, <2>2, <2>3, <2>4 DEF GroupEvent
<1>4. CASE QueryEvent
  <2>1. UNCHANGED <<told, managerBox, groupBox, device>>
    BY <1>4, QueryFrame
  <2>2. /\ \A x, k \in Number :
              In(deviceBox'[x], Record(k)) => In(deviceBox[x], Record(k))
        /\ \A x \in Number : device[x].life # "up" => deviceBox'[x] = deviceBox[x]
    <3>1. CASE \E i \in Ask : \E x \in Number : DeviceAsked(i, x)
      BY <3>1, Apart DEF DeviceAsked, Sends, Plus, Elsewhere
    <3>2. CASE deviceBox' = deviceBox
      BY <3>2
    <3> QED
      BY <1>4, <3>1, <3>2, Ended DEF QueryEvent, QueryBegun, QueryEnded,
         ReadingCollected, DeviceGivenUp, DeviceDone, SignalIgnored
  <2> QED
    BY <1>1, <2>1, <2>2
<1>5. CASE DeviceEvent
  <2>1. UNCHANGED <<told, managerBox>>
    BY <1>5, DeviceFrame
  <2>2. CASE \/ \E x \in Number : \E g \in Group : GroupSignalled(x, g)
             \/ \E x \in Number : \E i \in Ask : QuerySignalled(x, i)
    <3>1. UNCHANGED <<device, deviceBox>>
      BY <2>2 DEF GroupSignalled, QuerySignalled
    <3>2. \A g \in Group : \A k \in Number :
             In(groupBox'[g], Record(k)) => In(groupBox[g], Record(k))
      BY <2>2, Apart DEF GroupSignalled, QuerySignalled, Sends, Plus, Elsewhere
    <3> QED
      BY <1>1, <2>1, <3>1, <3>2
  <2>3. CASE \/ \E x, k \in Number : DeviceRestarted(x, k)
             \/ \E x \in Number : \E i \in Ask : DeviceReplied(x, i)
             \/ \E x \in Number : Closing(x)
             \/ \E x \in Number : DeviceGone(x)
    <3>1. groupBox' = groupBox
      BY <2>3, Closed DEF DeviceRestarted, DeviceReplied, DeviceClosed, DeviceGone
    <3>2. \A x, k \in Number :
             In(deviceBox'[x], Record(k)) => In(deviceBox[x], Record(k))
      BY <2>3, Closed, Emptied DEF DeviceRestarted, DeviceReplied, DeviceClosed,
         DeviceGone, Takes, Minus, Within, Elsewhere
    <3>3. \A x \in Number :
             /\ device'[x].life = "unborn" <=> device[x].life = "unborn"
             /\ device'[x].life # "up" =>
                   deviceBox'[x] = <<>> \/ (deviceBox'[x] = deviceBox[x]
                                              /\ device[x].life # "up")
             /\ device'[x].reading \in {None, device[x].reading}
             /\ device'[x].life = "unborn" =>
                   device'[x].restarts = device[x].restarts
      BY <2>3, Closed DEF DeviceRestarted, DeviceReplied, DeviceClosed,
         DeviceGone, Takes, Elsewhere
    <3> QED
      BY <1>1, <2>1, <3>1, <3>2, <3>3
  <2>4. CASE \E x, k \in Number : RecordStored(x, k)
    <3>1. PICK x \in Number, k \in Number : RecordStored(x, k)
      BY <2>4
    <3>2. /\ groupBox' = groupBox
          /\ device'[x].life = "up" /\ device'[x].reading = k
          /\ Elsewhere(device, device', Number, x)
          /\ device[x].life = "up" /\ told[k].valid
          /\ Elsewhere(deviceBox, deviceBox', Number, x)
          /\ In(deviceBox[x], Record(k))
          /\ \A m : In(deviceBox'[x], m) => In(deviceBox[x], m)
      BY <3>1 DEF RecordStored, Takes, Minus, Within
    <3>3. k \in Told /\ SameDevice(k, x)
      BY <3>2 DEF Records
    <3> QED
      BY <2>1, <3>2, <3>3, SameTold, Members DEF Records, Elsewhere
  <2> QED
    BY <1>5, <2>2, <2>3, <2>4 DEF DeviceEvent
<1> QED
  BY <1>2, <1>3, <1>4, <1>5 DEF Event

-----------------------------------------------------------------------------
(***************************************************************************)
(* The questions.                                                           *)
(***************************************************************************)

LEMMA QuestionsKept ==
    ASSUME Types, Types', NoDuplicates, Questions, Event
    PROVE  Questions'
<1>1. ASSUME told' = told,
             \A i \in Ask : In(managerBox', Average(i)) => In(managerBox, Average(i)),
             \A g \in Group : \A i \in Ask :
                In(groupBox'[g], Average(i)) => In(groupBox[g], Average(i)),
             \A i \in Ask :
                /\ query'[i].phase = "unborn" <=> query[i].phase = "unborn"
                /\ asked'[i].since = asked[i].since /\ asked'[i].group = asked[i].group
                /\ \/ asked'[i].status = asked[i].status
                   \/ /\ asked'[i].status # "unasked"
                      /\ ~In(managerBox', Average(i))
                      /\ \A g \in Group : ~In(groupBox'[g], Average(i))
      PROVE  Questions'
  BY <1>1 DEF Questions, Started
<1>2. CASE ManagerEvent
  <2>1. query' = query
    BY <1>2, ManagerFrame
  <2>2. CASE \E k \in Number : RecordTold(k)
    <3>1. /\ asked' = asked /\ groupBox' = groupBox
          /\ \A i : In(managerBox', Average(i)) => In(managerBox, Average(i))
      BY <2>2, Apart DEF RecordTold, Plus
    <3>2. \A i \in Ask : asked[i].since <= Len(told')
      <4>1. PICK k \in Number : RecordTold(k)
        BY <2>2
      <4>2. k = Len(told) + 1 /\ 1 .. Len(told') = (1 .. Len(told)) \cup {k}
        BY <4>1 DEF RecordTold, Told
      <4>3. Len(told) \in Nat /\ Len(told') \in Nat
        BY LenProperties DEF Types
      <4>4. \A m, n \in Nat : 1 .. n = (1 .. m) \cup {m + 1} => m <= n
        OBVIOUS
      <4>5. \A m, n \in Nat : \A s \in 0 .. MaxRecords : s <= m /\ m <= n => s <= n
        OBVIOUS
      <4>6. \A i \in Ask : asked[i].since \in 0 .. MaxRecords /\ asked[i].since <= Len(told)
        BY DEF Types, Question, Questions
      <4> QED
        BY <4>2, <4>3, <4>4, <4>5, <4>6
    <3> QED
      BY <2>1, <3>1, <3>2 DEF Questions, Started
  <2>3. CASE \E i \in Ask : QuestionAsked(i)
    <3>1. PICK i \in Ask : QuestionAsked(i)
      BY <2>3
    <3>2. /\ told' = told /\ groupBox' = groupBox
          /\ asked[i].status = "unasked"
          /\ asked'[i].status = "pending" /\ asked'[i].since = Len(told)
          /\ asked'[i].group = asked[i].group
          /\ Elsewhere(asked, asked', Ask, i)
          /\ \A m : In(managerBox', m) => In(managerBox, m) \/ m = Average(i)
      BY <3>1 DEF QuestionAsked, Plus
    <3>3. ~Started(i) /\ \A g \in Group : ~In(groupBox[g], Average(i))
      BY <3>2 DEF Questions
    <3>4. Len(told) \in Nat /\ Len(told) <= Len(told)
      <4>1. Len(told) \in Nat
        BY LenProperties DEF Types
      <4>2. \A n \in Nat : n <= n
        OBVIOUS
      <4> QED
        BY <4>1, <4>2
    <3> QED
      BY <2>1, <3>2, <3>3, <3>4, Apart DEF Questions, Started, Elsewhere
  <2>4. CASE \E k \in Number : \E g \in Group : RecordRouted(k, g)
    <3>1. /\ told' = told /\ asked' = asked
          /\ \A i : In(managerBox', Average(i)) => In(managerBox, Average(i))
          /\ \A h \in Group : \A i :
                In(groupBox'[h], Average(i)) => In(groupBox[h], Average(i))
      BY <2>4, Apart DEF RecordRouted, Minus, Within, Sends, Plus, Elsewhere
    <3> QED
      BY <1>1, <2>1, <3>1
  <2>5. CASE \E i \in Ask : \E g \in Group : QuestionRouted(i, g)
    <3>1. PICK i \in Ask, g \in Group : QuestionRouted(i, g)
      BY <2>5
    <3>2. /\ told' = told /\ asked' = asked /\ g = asked[i].group
          /\ In(managerBox, Average(i)) /\ ~In(managerBox', Average(i))
          /\ \A m : In(managerBox', m) => In(managerBox, m)
      BY <3>1 DEF QuestionRouted, Minus, Within, NoDuplicates
    <3>3. \A h \in Group : \A m : In(groupBox'[h], m) =>
             In(groupBox[h], m) \/ (h = g /\ m = Average(i))
      BY <3>1 DEF QuestionRouted, Sends, Plus, Elsewhere
    <3>4. \A j \in Ask : Average(j) = Average(i) => j = i
      BY Apart
    <3>5. ~Started(i) /\ asked[i].status = "pending"
          /\ \A h \in Group : ~In(groupBox[h], Average(i))
      BY <3>2 DEF Questions
    <3>6. \A j \in Ask : Started(j)' <=> Started(j)
      BY <2>1 DEF Started
    <3>7. ASSUME NEW j \in Ask
          PROVE  /\ In(managerBox', Average(j)) =>
                       /\ ~Started(j)' /\ asked'[j].status = "pending"
                       /\ \A h \in Group : ~In(groupBox'[h], Average(j))
                 /\ \A h \in Group : In(groupBox'[h], Average(j)) =>
                       /\ ~Started(j)' /\ asked'[j].status = "pending"
                       /\ asked'[j].group = h
      BY <3>2, <3>3, <3>4, <3>5, <3>6 DEF Questions
    <3> QED
      BY <3>2, <3>6, <3>7 DEF Questions
  <2>6. CASE \E i \in Ask : QuestionRefused(i)
    <3>1. PICK i \in Ask : QuestionRefused(i)
      BY <2>6
    <3>2. /\ told' = told /\ groupBox' = groupBox
          /\ In(managerBox, Average(i)) /\ ~In(managerBox', Average(i))
          /\ \A m : In(managerBox', m) => In(managerBox, m)
      BY <3>1 DEF QuestionRefused, Minus, Within, NoDuplicates
    <3>3. \A g \in Group : ~In(groupBox[g], Average(i))
      BY <3>2 DEF Questions
    <3>4. /\ asked'[i].status = "answered"
          /\ asked'[i].since = asked[i].since /\ asked'[i].group = asked[i].group
          /\ Elsewhere(asked, asked', Ask, i)
      BY <3>1 DEF QuestionRefused
    <3> QED
      BY <1>1, <2>1, <3>2, <3>3, <3>4 DEF Elsewhere
  <2>7. CASE ShutdownTold
    <3>1. /\ told' = told /\ groupBox' = groupBox /\ asked' = asked
          /\ \A i : In(managerBox', Average(i)) => In(managerBox, Average(i))
      BY <2>7, Apart DEF ShutdownTold, Plus
    <3> QED
      BY <1>1, <2>1, <3>1
  <2>8. CASE ManagerStopped
    <3>1. /\ told' = told /\ groupBox' = groupBox
          /\ \A m : ~In(managerBox', m)
      BY <2>8, Emptied DEF ManagerStopped
    <3>2. \A i \in Ask :
             /\ asked'[i].group = asked[i].group /\ asked'[i].since = asked[i].since
             /\ IF In(managerBox, Average(i)) THEN asked'[i].status = "no_reply"
                ELSE asked'[i] = asked[i]
      BY <2>8 DEF ManagerStopped, Dropped
    <3>3. \A i \in Ask : In(managerBox, Average(i)) =>
             \A g \in Group : ~In(groupBox[g], Average(i))
      BY DEF Questions
    <3> QED
      BY <1>1, <2>1, <3>1, <3>2, <3>3
  <2>9. CASE ManagerDrained
    BY <1>1, <2>1, <2>9 DEF ManagerDrained, Minus, Within
  <2>10. CASE \E i \in Ask : QuestionSlipped(i)
    <3>1. PICK i \in Ask : QuestionSlipped(i)
      BY <2>10
    <3>2. /\ told' = told /\ groupBox' = groupBox /\ managerBox' = managerBox
          /\ asked[i].status = "unasked" /\ asked'[i].status = "slipped"
          /\ asked'[i].since = asked[i].since /\ asked'[i].group = asked[i].group
          /\ Elsewhere(asked, asked', Ask, i)
      BY <3>1 DEF QuestionSlipped
    <3>3. ~In(managerBox, Average(i)) /\ \A g \in Group : ~In(groupBox[g], Average(i))
      BY <3>2 DEF Questions
    <3> QED
      BY <1>1, <2>1, <3>2, <3>3 DEF Elsewhere
  <2> QED
    BY <1>2, <2>2, <2>3, <2>4, <2>5, <2>6, <2>7, <2>8, <2>9, <2>10 DEF ManagerEvent
<1>3. CASE GroupEvent
  <2>1. told' = told /\ managerBox' = managerBox
    BY <1>3, GroupFrame
  <2>2. CASE \E g \in Group : \E i \in Ask : QuerySpawned(g, i)
    <3>1. PICK g \in Group, i \in Ask : QuerySpawned(g, i)
      BY <2>2
    <3>2. /\ asked' = asked
          /\ In(groupBox[g], Average(i)) /\ ~In(groupBox'[g], Average(i))
          /\ \A h \in Group : \A m : In(groupBox'[h], m) => In(groupBox[h], m)
          /\ Elsewhere(query, query', Ask, i)
      BY <3>1 DEF QuerySpawned, Takes, Minus, Within, Elsewhere, NoDuplicates
    <3>3. /\ ~In(managerBox, Average(i))
          /\ asked[i].group = g /\ asked[i].status # "unasked"
          /\ \A h \in Group : ~In(groupBox'[h], Average(i))
      BY <3>2 DEF Questions
    <3>4. \A j \in Ask : j # i => (Started(j)' <=> Started(j))
      BY <3>2 DEF Started, Elsewhere
    <3>5. ASSUME NEW j \in Ask
          PROVE  /\ In(managerBox', Average(j)) =>
                       /\ ~Started(j)' /\ asked'[j].status = "pending"
                       /\ \A h \in Group : ~In(groupBox'[h], Average(j))
                 /\ \A h \in Group : In(groupBox'[h], Average(j)) =>
                       /\ ~Started(j)' /\ asked'[j].status = "pending"
                       /\ asked'[j].group = h
                 /\ Started(j)' => asked'[j].status # "unasked"
      <4>1. CASE j = i
        BY <2>1, <3>2, <3>3, <4>1
      <4>2. CASE j # i
        <5>1. Started(j)' <=> Started(j)
          BY <3>4, <4>2
        <5> QED
          BY <2>1, <3>2, <5>1 DEF Questions
      <4> QED
        BY <4>1, <4>2
    <3> QED
      BY <2>1, <3>2, <3>5 DEF Questions
  <2>3. CASE \E g \in Group : GroupStopped(g)
    <3>1. PICK g \in Group : GroupStopped(g)
      BY <2>3
    <3>2. /\ query' = query
          /\ \A m : ~In(groupBox'[g], m)
          /\ Elsewhere(groupBox, groupBox', Group, g)
      BY <3>1, Emptied DEF GroupStopped
    <3>3. \A i \in Ask :
             /\ asked'[i].group = asked[i].group /\ asked'[i].since = asked[i].since
             /\ IF In(groupBox[g], Average(i)) THEN asked'[i].status = "no_reply"
                ELSE asked'[i] = asked[i]
      BY <3>1 DEF GroupStopped, Dropped
    <3>4. \A i \in Ask : In(groupBox[g], Average(i)) =>
             /\ ~In(managerBox, Average(i))
             /\ \A h \in Group : h # g => ~In(groupBox[h], Average(i))
      BY DEF Questions
    <3> QED
      BY <1>1, <2>1, <3>2, <3>3, <3>4 DEF Elsewhere
  <2>4. CASE \/ \E g \in Group : \E k \in Number : DeviceSpawned(g, k)
             \/ \E g \in Group : \E k, x \in Number : RecordForwarded(g, k, x)
             \/ \E g \in Group : \E x \in Number : DevicePruned(g, x)
    <3>1. UNCHANGED <<asked, query>>
      BY <2>4 DEF DeviceSpawned, RecordForwarded, DevicePruned
    <3>2. \A h \in Group : \A m : In(groupBox'[h], m) => In(groupBox[h], m)
      BY <2>4 DEF DeviceSpawned, RecordForwarded, DevicePruned, Takes, Minus, Within,
         Elsewhere
    <3> QED
      BY <1>1, <2>1, <3>1, <3>2
  <2> QED
    BY <1>3, <2>2, <2>3, <2>4 DEF GroupEvent
<1>4. CASE QueryEvent
  <2>1. UNCHANGED <<told, managerBox, groupBox>>
    BY <1>4, QueryFrame
  <2>2. CASE \E i \in Ask : Ending(i)
    <3>1. PICK i \in Ask : QueryEnded(i)
      BY <2>2, Ended
    <3>2. /\ query[i].phase # "unborn" /\ query'[i].phase # "unborn"
          /\ asked'[i].status # "unasked"
          /\ asked'[i].group = asked[i].group /\ asked'[i].since = asked[i].since
          /\ Elsewhere(asked, asked', Ask, i)
          /\ Elsewhere(query, query', Ask, i)
      BY <3>1 DEF QueryEnded
    <3>3. ~In(managerBox, Average(i)) /\ \A g \in Group : ~In(groupBox[g], Average(i))
      BY <3>2 DEF Questions, Started
    <3> QED
      BY <1>1, <2>1, <3>2, <3>3 DEF Elsewhere
  <2>3. CASE ~ \E i \in Ask : Ending(i)
    <3>1. asked' = asked
      BY <1>4, <2>3 DEF QueryEvent, QueryBegun, DeviceAsked, ReadingCollected,
         DeviceGivenUp, DeviceDone, SignalIgnored
    <3>2. \A i \in Ask : query'[i].phase = "unborn" <=> query[i].phase = "unborn"
      BY <1>4, <2>3 DEF QueryEvent, QueryBegun, DeviceAsked, ReadingCollected,
         DeviceGivenUp, DeviceDone, SignalIgnored, Elsewhere
    <3> QED
      BY <1>1, <2>1, <3>1, <3>2
  <2> QED
    BY <2>2, <2>3
<1>5. CASE DeviceEvent
  <2>1. UNCHANGED <<told, asked, managerBox, query>>
    BY <1>5, DeviceFrame
  <2>2. \A g \in Group : \A i : In(groupBox'[g], Average(i)) => In(groupBox[g], Average(i))
    <3>1. CASE \E x \in Number : \E g \in Group : GroupSignalled(x, g)
      BY <3>1, Apart DEF GroupSignalled, Sends, Plus, Elsewhere
    <3>2. CASE groupBox' = groupBox
      BY <3>2
    <3> QED
      BY <1>5, <3>1, <3>2, Closed DEF DeviceEvent, RecordStored, DeviceRestarted,
         DeviceClosed, DeviceReplied, DeviceGone, QuerySignalled
  <2> QED
    BY <1>1, <2>1, <2>2
<1> QED
  BY <1>2, <1>3, <1>4, <1>5 DEF Event

-----------------------------------------------------------------------------
(***************************************************************************)
(* The phases of a query.                                                   *)
(***************************************************************************)

LEMMA PhasesKept ==
    ASSUME Types, Registry, Records, Questions, Phases, Event
    PROVE  Phases'
<1>1. \A i \in Ask : asked'[i].group = asked[i].group
  BY QuestionFrame
<1>2. \A x \in Number : device[x].life # "unborn" => device'[x].life # "unborn"
  <2>1. CASE ManagerEvent \/ QueryEvent
    BY <2>1, ManagerFrame, QueryFrame
  <2>2. CASE GroupEvent
    BY <2>2 DEF GroupEvent, DeviceSpawned, RecordForwarded, QuerySpawned, DevicePruned,
       GroupStopped, Elsewhere
  <2>3. CASE DeviceEvent
    BY <2>3, Closed DEF DeviceEvent, RecordStored, DeviceRestarted, DeviceClosed,
       DeviceReplied, DeviceGone, GroupSignalled, QuerySignalled, Elsewhere
  <2> QED
    BY <2>1, <2>2, <2>3 DEF Event
\* No query has gone on.
<1>3. ASSUME query' = query,
             Told \subseteq Told', \A k \in Told : told'[k] = told[k],
             \A i \in Ask : query[i].phase = "unborn" =>
                /\ queryBox'[i] = queryBox[i]
                /\ \A x \in Number :
                      /\ i \in watchers'[x] => i \in watchers[x]
                      /\ In(deviceBox'[x], Read(i)) => In(deviceBox[x], Read(i))
      PROVE  Phases'
  <2>1. ASSUME NEW i \in Ask, query'[i].phase = "unborn"
        PROVE  /\ queryBox'[i] = <<>>
               /\ query'[i].todo = {} /\ query'[i].pending = {} /\ query'[i].counted = {}
               /\ \A x \in Number : ~In(deviceBox'[x], Read(i)) /\ i \notin watchers'[x]
    BY <1>3, <2>1 DEF Phases, Started
  <2>2. ASSUME NEW i \in Ask, NEW x \in query[i].todo \cup query[i].pending
        PROVE  /\ x \in Told' /\ device'[x].life # "unborn"
               /\ told'[x].group = asked'[i].group
    <3>1. x \in Told /\ device[x].life # "unborn" /\ told[x].group = asked[i].group
      BY DEF Phases
    <3> QED
      BY <1>1, <1>2, <1>3, <3>1, Members
  <2>3. ASSUME NEW i \in Ask, NEW x \in query[i].todo \cup query[i].pending,
               NEW y \in query[i].todo \cup query[i].pending, SameDevice(x, y)'
        PROVE  x = y
    <3>1. x \in Told /\ y \in Told
      BY DEF Phases
    <3>2. SameDevice(x, y)
      BY <1>3, <2>3, <3>1 DEF SameDevice
    <3> QED
      BY <3>2 DEF Phases
  <2>4. \A i \in Ask : /\ query'[i].phase = "starting" =>
                             query'[i].pending = {} /\ query'[i].counted = {}
                       /\ query'[i].phase = "running" => query'[i].todo = {}
    BY <1>3 DEF Phases
  <2> QED
    BY <1>3, <2>1, <2>2, <2>3, <2>4 DEF Phases, Started
\* A query goes on.
<1>4. ASSUME told' = told, NEW i \in Ask,
             query[i].phase # "unborn", query'[i].phase \notin {"unborn", "starting"},
             query'[i].phase = "running" => query'[i].todo = {},
             query'[i].todo \cup query'[i].pending
                \subseteq query[i].todo \cup query[i].pending,
             Elsewhere(query, query', Ask, i),
             \A j \in Ask : j # i /\ query[j].phase = "unborn" =>
                /\ queryBox'[j] = queryBox[j]
                /\ \A x \in Number :
                      /\ j \in watchers'[x] => j \in watchers[x]
                      /\ In(deviceBox'[x], Read(j)) => In(deviceBox[x], Read(j))
      PROVE  Phases'
  <2>1. ASSUME NEW j \in Ask, query'[j].phase = "unborn"
        PROVE  /\ queryBox'[j] = <<>>
               /\ query'[j].todo = {} /\ query'[j].pending = {} /\ query'[j].counted = {}
               /\ \A x \in Number : ~In(deviceBox'[x], Read(j)) /\ j \notin watchers'[x]
    <3>1. j # i /\ query'[j] = query[j]
      BY <1>4, <2>1 DEF Elsewhere
    <3> QED
      BY <1>4, <2>1, <3>1 DEF Phases, Started
  <2>2. \A j \in Ask : query'[j].todo \cup query'[j].pending
                          \subseteq query[j].todo \cup query[j].pending
    BY <1>4 DEF Elsewhere
  <2>3. ASSUME NEW j \in Ask, NEW x \in query'[j].todo \cup query'[j].pending
        PROVE  /\ x \in Told' /\ device'[x].life # "unborn"
               /\ told'[x].group = asked'[j].group
    <3>1. x \in Told /\ device[x].life # "unborn" /\ told[x].group = asked[j].group
      BY <2>2 DEF Phases
    <3> QED
      BY <1>1, <1>2, <1>4, <3>1, SameTold, Members
  <2>4. ASSUME NEW j \in Ask, NEW x \in query'[j].todo \cup query'[j].pending,
               NEW y \in query'[j].todo \cup query'[j].pending, SameDevice(x, y)'
        PROVE  x = y
    BY <1>4, <2>2, <2>4, SameTold DEF Phases
  <2>5. \A j \in Ask : /\ query'[j].phase = "starting" =>
                             query'[j].pending = {} /\ query'[j].counted = {}
                       /\ query'[j].phase = "running" => query'[j].todo = {}
    BY <1>4 DEF Phases, Elsewhere
  <2> QED
    BY <2>1, <2>3, <2>4, <2>5 DEF Phases, Started
<1>5. CASE ManagerEvent
  <2>1. UNCHANGED <<query, queryBox, deviceBox, watchers>>
    BY <1>5, ManagerFrame
  <2>2. Told \subseteq Told' /\ \A k \in Told : told'[k] = told[k]
    <3>1. CASE \E k \in Number : RecordTold(k)
      BY <3>1, MoreTold
    <3>2. CASE told' = told
      BY <3>2, SameTold
    <3> QED
      BY <1>5, <3>1, <3>2 DEF ManagerEvent, QuestionAsked, ShutdownTold, RecordRouted,
         QuestionRouted, QuestionRefused, QuestionSlipped, ManagerDrained,
         ManagerStopped
  <2> QED
    BY <1>3, <2>1, <2>2
<1>6. CASE GroupEvent
  <2>1. /\ told' = told
        /\ Told \subseteq Told' /\ \A k \in Told : told'[k] = told[k]
    BY <1>6, GroupFrame, SameTold
  <2>2. ASSUME NEW g \in Group, NEW k \in Number, DeviceSpawned(g, k)
        PROVE  Phases'
    <3>1. /\ deviceBox'[k] = <<Record(k)>> /\ Elsewhere(deviceBox, deviceBox', Number, k)
          /\ watchers'[k] = {g} /\ Elsewhere(watchers, watchers', Number, k)
          /\ query' = query /\ queryBox' = queryBox
      BY <2>2 DEF DeviceSpawned
    <3>2. \A i : ~In(deviceBox'[k], Read(i))
      BY <3>1, Kinds, Alone, Apart
    <3>3. \A i \in Ask : i \notin watchers'[k]
      BY <3>1
    <3> QED
      BY <1>3, <2>1, <3>1, <3>2, <3>3 DEF Elsewhere
  <2>3. ASSUME NEW g \in Group, NEW k \in Number, NEW x \in Number,
               RecordForwarded(g, k, x)
        PROVE  Phases'
    <3>1. /\ query' = query /\ queryBox' = queryBox /\ watchers' = watchers
          /\ \A y \in Number : \A i :
                In(deviceBox'[y], Read(i)) => In(deviceBox[y], Read(i))
      BY <2>3, Apart DEF RecordForwarded, Sends, Plus, Elsewhere
    <3> QED
      BY <1>3, <2>1, <3>1
  <2>4. ASSUME NEW g \in Group, NEW i \in Ask, QuerySpawned(g, i)
        PROVE  Phases'
    <3>1. /\ query'[i].phase = "starting" /\ query'[i].todo = devices[g]
          /\ query'[i].pending = query[i].pending
          /\ query'[i].counted = query[i].counted
          /\ Elsewhere(query, query', Ask, i)
          /\ Elsewhere(queryBox, queryBox', Ask, i)
          /\ In(groupBox[g], Average(i))
          /\ UNCHANGED <<device, deviceBox, watchers>>
      BY <2>4 DEF QuerySpawned, Takes, Minus
    <3>2. ~Started(i) /\ asked[i].group = g
      BY <3>1 DEF Questions
    <3>3. query'[i].pending = {} /\ query'[i].counted = {}
      BY <3>1, <3>2 DEF Phases
    <3>4. ASSUME NEW j \in Ask, query'[j].phase = "unborn"
          PROVE  /\ queryBox'[j] = <<>>
                 /\ query'[j].todo = {} /\ query'[j].pending = {}
                 /\ query'[j].counted = {}
                 /\ \A x \in Number : ~In(deviceBox'[x], Read(j)) /\ j \notin watchers'[x]
      <4>1. j # i /\ query'[j] = query[j] /\ queryBox'[j] = queryBox[j]
        BY <3>1, <3>4 DEF Elsewhere
      <4> QED
        BY <3>1, <3>4, <4>1 DEF Phases, Started
    <3>5. ASSUME NEW j \in Ask, NEW x \in query'[j].todo \cup query'[j].pending
          PROVE  /\ x \in Told' /\ device'[x].life # "unborn"
                 /\ told'[x].group = asked'[j].group
      <4>1. CASE j = i
        BY <1>1, <2>1, <3>1, <3>2, <3>3, <3>5, <4>1 DEF Registry
      <4>2. CASE j # i
        BY <1>1, <2>1, <3>1, <3>5, <4>2 DEF Phases, Elsewhere
      <4> QED
        BY <4>1, <4>2
    <3>6. ASSUME NEW j \in Ask, NEW x \in query'[j].todo \cup query'[j].pending,
                 NEW y \in query'[j].todo \cup query'[j].pending, SameDevice(x, y)'
          PROVE  x = y
      <4>1. SameDevice(x, y)
        BY <2>1, <3>6, SameTold
      <4>2. CASE j = i
        BY <3>1, <3>3, <3>6, <4>1, <4>2 DEF Registry
      <4>3. CASE j # i
        BY <3>1, <3>6, <4>1, <4>3 DEF Phases, Elsewhere
      <4> QED
        BY <4>2, <4>3
    <3>7. \A j \in Ask : /\ query'[j].phase = "starting" =>
                               query'[j].pending = {} /\ query'[j].counted = {}
                         /\ query'[j].phase = "running" => query'[j].todo = {}
      BY <3>1, <3>3 DEF Phases, Elsewhere
    <3> QED
      BY <3>4, <3>5, <3>6, <3>7 DEF Phases, Started
  <2>5. CASE \/ \E g \in Group : \E x \in Number : DevicePruned(g, x)
             \/ \E g \in Group : GroupStopped(g)
    <3>1. UNCHANGED <<query, queryBox, deviceBox, watchers>>
      BY <2>5 DEF DevicePruned, GroupStopped
    <3> QED
      BY <1>3, <2>1, <3>1
  <2> QED
    BY <1>6, <2>2, <2>3, <2>4, <2>5 DEF GroupEvent
<1>7. CASE QueryEvent
  <2>1. told' = told /\ device' = device
    BY <1>7, QueryFrame
  <2>2. ASSUME NEW i \in Ask, QueryBegun(i) PROVE Phases'
    <3>1. /\ query[i].phase = "starting" /\ query'[i].phase = "fanning_out"
          /\ query'[i].todo = query[i].todo /\ query'[i].pending = query[i].pending
          /\ Elsewhere(query, query', Ask, i)
          /\ Elsewhere(queryBox, queryBox', Ask, i)
          /\ UNCHANGED <<deviceBox, watchers>>
      BY <2>2 DEF QueryBegun, Takes
    <3> QED
      BY <1>4, <2>1, <3>1 DEF Elsewhere
  <2>3. ASSUME NEW i \in Ask, QueryEnded(i) PROVE Phases'
    <3>1. /\ query[i].phase # "unborn" /\ query'[i].phase = "stopped"
          /\ query'[i].todo = query[i].todo /\ query'[i].pending = {}
          /\ Elsewhere(query, query', Ask, i)
          /\ Elsewhere(queryBox, queryBox', Ask, i)
          /\ \A x \in Number : watchers'[x] \subseteq watchers[x]
          /\ deviceBox' = deviceBox
      BY <2>3 DEF QueryEnded
    <3> QED
      BY <1>4, <2>1, <3>1 DEF Elsewhere
  <2>4. ASSUME NEW i \in Ask, NEW x \in Number, DeviceAsked(i, x) PROVE Phases'
    <3>1. /\ query[i].phase = "fanning_out" /\ x \in query[i].todo
          /\ query'[i].phase = IF query[i].todo = {x} THEN "running" ELSE "fanning_out"
          /\ query'[i].todo = query[i].todo \ {x}
          /\ query'[i].pending = query[i].pending \cup {x}
          /\ Elsewhere(query, query', Ask, i)
      BY <2>4 DEF DeviceAsked
    <3>2. \A j \in Ask : j # i =>
             /\ queryBox'[j] = queryBox[j]
             /\ \A y \in Number : j \in watchers'[y] => j \in watchers[y]
      BY <2>4 DEF DeviceAsked, Sends, Elsewhere
    <3>3. \A j \in Ask : \A y \in Number : j # i =>
             (In(deviceBox'[y], Read(j)) => In(deviceBox[y], Read(j)))
      BY <2>4, Apart DEF DeviceAsked, Sends, Plus, Elsewhere
    <3>4. query'[i].phase = "running" => query'[i].todo = {}
      BY <3>1
    <3>5. query'[i].phase \notin {"unborn", "starting"}
      BY <3>1
    <3> QED
      BY <1>4, <2>1, <3>1, <3>2, <3>3, <3>4, <3>5
  <2>5. ASSUME NEW i \in Ask, NEW x \in Number, DeviceDone(i, x), NEW m,
               Takes(queryBox, queryBox', Ask, i, m),
               \A y \in Number : watchers'[y] \subseteq watchers[y]
        PROVE  Phases'
    <3>1. /\ query[i].phase = "running" /\ query'[i].phase = "running"
          /\ query'[i].todo = query[i].todo
          /\ query'[i].pending = query[i].pending \ {x}
          /\ Elsewhere(query, query', Ask, i)
          /\ deviceBox' = deviceBox
          /\ Elsewhere(queryBox, queryBox', Ask, i)
      BY <2>5 DEF DeviceDone, Takes
    <3>2. query'[i].todo = {}
      BY <3>1 DEF Phases
    <3> QED
      BY <1>4, <2>1, <2>5, <3>1, <3>2 DEF Elsewhere
  <2>6. ASSUME NEW i \in Ask, NEW x \in Number, NEW k \in {None} \cup Number,
               ReadingCollected(i, x, k)
        PROVE  Phases'
    <3>1. /\ DeviceDone(i, x) /\ Takes(queryBox, queryBox', Ask, i, Reading(x, k))
          /\ \A y \in Number : watchers'[y] \subseteq watchers[y]
      BY <2>6 DEF ReadingCollected, Elsewhere
    <3> QED
      BY <2>5, <3>1
  <2>7. ASSUME NEW i \in Ask, NEW x \in Number, DeviceGivenUp(i, x) PROVE Phases'
    <3>1. /\ DeviceDone(i, x) /\ Takes(queryBox, queryBox', Ask, i, Terminated(x))
          /\ \A y \in Number : watchers'[y] \subseteq watchers[y]
      BY <2>7 DEF DeviceGivenUp
    <3> QED
      BY <2>5, <3>1
  <2>8. ASSUME NEW i \in Ask, NEW x \in Number, SignalIgnored(i, x) PROVE Phases'
    <3>1. /\ query' = query /\ deviceBox' = deviceBox /\ watchers' = watchers
          /\ query[i].phase = "running" /\ Elsewhere(queryBox, queryBox', Ask, i)
      BY <2>8 DEF SignalIgnored, Takes
    <3>2. \A j \in Ask : query[j].phase = "unborn" => queryBox'[j] = queryBox[j]
      BY <3>1 DEF Elsewhere
    <3> QED
      BY <1>3, <2>1, <3>1, <3>2, SameTold
  <2> QED
    BY <1>7, <2>2, <2>3, <2>4, <2>6, <2>7, <2>8, Ended DEF QueryEvent
<1>8. CASE DeviceEvent
  <2>1. /\ query' = query
        /\ Told \subseteq Told' /\ \A k \in Told : told'[k] = told[k]
    BY <1>8, DeviceFrame, SameTold
  <2>2. \A i \in Ask : query[i].phase = "unborn" => queryBox'[i] = queryBox[i]
    <3>1. CASE \E x \in Number : \E i \in Ask : DeviceReplied(x, i)
      <4>1. PICK x \in Number, i \in Ask : DeviceReplied(x, i)
        BY <3>1
      <4>2. In(deviceBox[x], Read(i))
        BY <4>1 DEF DeviceReplied, Takes, Minus
      <4>3. Started(i)
        BY <4>2 DEF Phases
      <4> QED
        BY <4>1, <4>3 DEF DeviceReplied, Sends, Elsewhere, Started
    <3>2. CASE \E x \in Number : \E i \in Ask : QuerySignalled(x, i)
      <4>1. PICK x \in Number, i \in Ask : QuerySignalled(x, i)
        BY <3>2
      <4>2. Started(i)
        BY <4>1 DEF QuerySignalled, Phases
      <4> QED
        BY <4>1, <4>2 DEF QuerySignalled, Sends, Elsewhere, Started
    <3>3. CASE queryBox' = queryBox
      BY <3>3
    <3> QED
      BY <1>8, <3>1, <3>2, <3>3, Closed DEF DeviceEvent, RecordStored,
         DeviceRestarted, DeviceClosed, DeviceGone, GroupSignalled
  <2>3. \A x \in Number : watchers'[x] \subseteq watchers[x]
    BY <1>8, Closed DEF DeviceEvent, RecordStored, DeviceRestarted, DeviceClosed,
       DeviceReplied, DeviceGone, GroupSignalled, QuerySignalled, Elsewhere
  <2>4. \A x \in Number : \A m : In(deviceBox'[x], m) => In(deviceBox[x], m)
    BY <1>8, Closed, Emptied DEF DeviceEvent, RecordStored, DeviceRestarted,
       DeviceClosed, DeviceReplied, DeviceGone, GroupSignalled, QuerySignalled, Takes,
       Minus, Within, Elsewhere
  <2> QED
    BY <1>3, <2>1, <2>2, <2>3, <2>4
<1> QED
  BY <1>5, <1>6, <1>7, <1>8 DEF Event

-----------------------------------------------------------------------------
(***************************************************************************)
(* The readings.                                                            *)
(***************************************************************************)

\* For a query that is where it was nothing happens but that messages go.
LEMMA ReadingsUndisturbed ==
    ASSUME Types, NEW i \in Ask, ReadingsOf(i),
           query'[i].todo = query[i].todo, query'[i].pending = query[i].pending,
           query'[i].phase = "stopped" <=> query[i].phase = "stopped",
           Within(queryBox[i], queryBox'[i]),
           \A x \in Number :
              /\ i \in watchers'[x] => i \in watchers[x]
              /\ In(deviceBox'[x], Read(i)) => In(deviceBox[x], Read(i))
    PROVE  ReadingsOf(i)'
<1>1. /\ \A m : In(queryBox'[i], m) => In(queryBox[i], m)
      /\ \A a, b : Ahead(queryBox[i], a, b) => Ahead(queryBox'[i], a, b)
  BY DEF Within
<1>2. \A x \in Number : /\ Asking(i, x)' => Asking(i, x)
                        /\ Replied(i, x)' => Replied(i, x)
  BY <1>1 DEF Asking, Replied
<1> QED
  BY <1>1, <1>2, Members DEF ReadingsOf

LEMMA ReadingsKeptByGroup ==
    ASSUME Types, Questions, Phases, Readings, GroupEvent
    PROVE  Readings'
<1>1. CASE \E g \in Group : \E i \in Ask : QuerySpawned(g, i)
  <2>1. PICK g \in Group, i \in Ask : QuerySpawned(g, i)
    BY <1>1
  <2>2. /\ query'[i].phase = "starting" /\ query'[i].todo = devices[g]
        /\ query'[i].pending = query[i].pending
        /\ Elsewhere(query, query', Ask, i)
        /\ queryBox'[i] = <<Start>> /\ Elsewhere(queryBox, queryBox', Ask, i)
        /\ In(groupBox[g], Average(i))
        /\ UNCHANGED <<deviceBox, watchers>>
    BY <2>1 DEF QuerySpawned, Takes, Minus
  <2>3. ~Started(i)
    BY <2>2 DEF Questions
  <2>4. /\ query'[i].pending = {}
        /\ \A x \in Number : i \notin watchers'[x] /\ ~Asking(i, x)'
    BY <2>2, <2>3 DEF Phases, Asking
  <2>5. \A m : In(queryBox'[i], m) => m = Start
    BY <2>2, Kinds, Alone
  <2>6. \A x : /\ ~In(queryBox'[i], Terminated(x)) /\ ~Replied(i, x)'
               /\ \A k : ~In(queryBox'[i], Reading(x, k))
    BY <2>5, Apart DEF Replied
  <2>7. \A x, k : Ahead(queryBox'[i], Reading(x, k), Terminated(x))
    BY <2>6, Unordered
  <2>8. ReadingsOf(i)'
    BY <2>2, <2>4, <2>6, <2>7, Members DEF ReadingsOf
  <2>9. ASSUME NEW j \in Ask, j # i PROVE ReadingsOf(j)'
    <3>1. query'[j] = query[j] /\ queryBox'[j] = queryBox[j] /\ ReadingsOf(j)
      BY <2>2, <2>9 DEF Elsewhere, Readings
    <3> QED
      BY <2>2, <3>1, Emptied, ReadingsUndisturbed
  <2> QED
    BY <2>8, <2>9 DEF Readings
<1>2. CASE ~ \E g \in Group : \E i \in Ask : QuerySpawned(g, i)
  <2>1. query' = query /\ queryBox' = queryBox
    BY <1>2 DEF GroupEvent, DeviceSpawned, RecordForwarded, DevicePruned, GroupStopped
  <2>2. \A x \in Number : \A i \in Ask :
           /\ i \in watchers'[x] => i \in watchers[x]
           /\ In(deviceBox'[x], Read(i)) => In(deviceBox[x], Read(i))
    <3>1. ASSUME NEW g \in Group, NEW k \in Number, DeviceSpawned(g, k)
          PROVE  \A x \in Number : \A i \in Ask :
                    /\ i \in watchers'[x] => i \in watchers[x]
                    /\ In(deviceBox'[x], Read(i)) => In(deviceBox[x], Read(i))
      <4>1. /\ deviceBox'[k] = <<Record(k)>>
            /\ Elsewhere(deviceBox, deviceBox', Number, k)
            /\ watchers'[k] = {g} /\ Elsewhere(watchers, watchers', Number, k)
        BY <3>1 DEF DeviceSpawned
      <4>2. \A m : In(deviceBox'[k], m) => m = Record(k)
        BY <4>1, Kinds, Alone
      <4>3. \A i \in Ask : i \notin watchers'[k]
        BY <4>1
      <4> QED
        BY <4>1, <4>2, <4>3, Apart DEF Elsewhere
    <3>2. ASSUME NEW g \in Group, NEW k \in Number, NEW y \in Number,
                 RecordForwarded(g, k, y)
          PROVE  /\ watchers' = watchers
                 /\ \A x \in Number : \A i \in Ask :
                       In(deviceBox'[x], Read(i)) => In(deviceBox[x], Read(i))
      BY <3>2, Apart DEF RecordForwarded, Sends, Plus, Elsewhere
    <3>3. CASE watchers' = watchers /\ deviceBox' = deviceBox
      BY <3>3
    <3> QED
      BY <1>2, <3>1, <3>2, <3>3 DEF GroupEvent, DevicePruned, GroupStopped
  <2> QED
    BY <2>1, <2>2, Emptied, ReadingsUndisturbed DEF Readings
<1> QED
  BY <1>1, <1>2

LEMMA ReadingsKeptByQuery ==
    ASSUME Types, NoDuplicates, Signals, Records, Phases, Readings, QueryEvent
    PROVE  Readings'
<1>1. ASSUME NEW i \in Ask, NEW j \in Ask, j # i,
             query'[j] = query[j], queryBox'[j] = queryBox[j],
             \A x \in Number :
                /\ j \in watchers'[x] => j \in watchers[x]
                /\ In(deviceBox'[x], Read(j)) => In(deviceBox[x], Read(j))
      PROVE  ReadingsOf(j)'
  BY <1>1, Emptied, ReadingsUndisturbed DEF Readings
<1>2. ASSUME NEW i \in Ask, QueryEnded(i) PROVE Readings'
  <2>1. /\ query'[i].phase = "stopped" /\ query'[i].pending = {}
        /\ query'[i].todo = query[i].todo
        /\ Elsewhere(query, query', Ask, i)
        /\ queryBox'[i] = <<>> /\ Elsewhere(queryBox, queryBox', Ask, i)
        /\ \A x \in Number : watchers'[x] \subseteq watchers[x]
        /\ deviceBox' = deviceBox
    BY <1>2 DEF QueryEnded
  <2>2. \A m : ~In(queryBox'[i], m)
    BY <2>1, Emptied
  <2>3. \A x, k : Ahead(queryBox'[i], Reading(x, k), Terminated(x))
    BY <2>2, Unordered
  <2>4. \A x : ~Replied(i, x)' /\ (Asking(i, x)' <=> Asking(i, x))
    BY <2>1, <2>2 DEF Replied, Asking
  <2>5. ReadingsOf(i)'
    BY <2>1, <2>2, <2>3, <2>4, Members DEF Readings, ReadingsOf
  <2>6. \A j \in Ask : j # i => ReadingsOf(j)'
    BY <1>1, <2>1 DEF Elsewhere
  <2> QED
    BY <2>5, <2>6 DEF Readings
<1>3. ASSUME NEW i \in Ask, NEW x \in Number, DeviceAsked(i, x) PROVE Readings'
  <2>1. /\ query[i].phase = "fanning_out" /\ x \in query[i].todo
        /\ query'[i].phase \in {"running", "fanning_out"}
        /\ query'[i].todo = query[i].todo \ {x}
        /\ query'[i].pending = query[i].pending \cup {x}
        /\ Elsewhere(query, query', Ask, i)
    BY <1>3 DEF DeviceAsked
  <2>2. /\ \A y \in Number : \A j \in Ask : j \in watchers'[y] =>
              j \in watchers[y] \/ (j = i /\ y = x)
        /\ Elsewhere(queryBox, queryBox', Ask, i)
    BY <1>3 DEF DeviceAsked, Sends, Elsewhere
  <2>3. \A y \in Number : \A j \in Ask : In(deviceBox'[y], Read(j)) =>
           In(deviceBox[y], Read(j)) \/ (j = i /\ y = x)
    BY <1>3, Apart DEF DeviceAsked, Sends, Plus, Elsewhere
  <2>4. /\ \A m : In(queryBox'[i], m) => In(queryBox[i], m) \/ m = Terminated(x)
        /\ \A y, k : Ahead(queryBox[i], Reading(y, k), Terminated(y)) =>
              Ahead(queryBox'[i], Reading(y, k), Terminated(y))
    BY <1>3, Apart DEF DeviceAsked, Sends, Plus
  <2>5. \A y \in Number : Replied(i, y)' => Replied(i, y)
    BY <2>4, Apart DEF Replied
  <2>6. \A y \in Number : Asking(i, y)' => Asking(i, y) \/ y = x
    BY <2>3 DEF Asking
  <2>7. ReadingsOf(i)
    BY DEF Readings
  <2>8. \A y, k : In(queryBox'[i], Reading(y, k)) => In(queryBox[i], Reading(y, k))
    BY <2>4, Apart
  <2>9. \A y : y # x => (In(queryBox'[i], Terminated(y)) => In(queryBox[i], Terminated(y)))
    BY <2>4, Apart
  <2>10. ReadingsOf(i)'
    <3>1. \A y \in query'[i].todo :
             /\ y \notin query'[i].pending /\ i \notin watchers'[y]
             /\ ~Asking(i, y)' /\ ~Replied(i, y)'
             /\ ~In(queryBox'[i], Terminated(y))
      BY <2>1, <2>2, <2>5, <2>6, <2>7, <2>9, Members DEF ReadingsOf
    <3>2. \A y \in Number : Asking(i, y)' => y \in query'[i].pending /\ ~Replied(i, y)'
      BY <2>1, <2>5, <2>6, <2>7 DEF ReadingsOf
    <3>3. \A y \in Number : Replied(i, y)' =>
             y \in query'[i].pending /\ query'[i].phase # "stopped"
      BY <2>1, <2>5, <2>7 DEF ReadingsOf
    <3> QED
      BY <2>4, <2>7, <2>8, <3>1, <3>2, <3>3 DEF ReadingsOf
  <2>11. \A j \in Ask : j # i => ReadingsOf(j)'
    BY <1>1, <2>1, <2>2, <2>3 DEF Elsewhere
  <2> QED
    BY <2>10, <2>11 DEF Readings
<1>4. ASSUME NEW i \in Ask, NEW x \in Number, NEW m, DeviceDone(i, x),
             Takes(queryBox, queryBox', Ask, i, m),
             \A y \in Number : watchers'[y] \subseteq watchers[y],
             ~Asking(i, x), \A k \in {None} \cup Number : ~In(queryBox'[i], Reading(x, k))
      PROVE  Readings'
  <2>1. /\ query[i].phase = "running" /\ query'[i].phase = "running"
        /\ query'[i].todo = query[i].todo /\ query'[i].pending = query[i].pending \ {x}
        /\ Elsewhere(query, query', Ask, i) /\ deviceBox' = deviceBox
        /\ Elsewhere(queryBox, queryBox', Ask, i)
        /\ \A n : In(queryBox'[i], n) => In(queryBox[i], n)
        /\ \A a, b : Ahead(queryBox[i], a, b) => Ahead(queryBox'[i], a, b)
    BY <1>4 DEF DeviceDone, Takes, Minus, Within
  <2>2. /\ \A y : Asking(i, y)' <=> Asking(i, y)
        /\ \A y : Replied(i, y)' => Replied(i, y)
        /\ ~Replied(i, x)'
    BY <1>4, <2>1 DEF Asking, Replied
  <2>3. ReadingsOf(i)
    BY DEF Readings
  <2>4. ReadingsOf(i)'
    BY <1>4, <2>1, <2>2, <2>3, Members DEF ReadingsOf
  <2>5. \A j \in Ask : j # i => ReadingsOf(j)'
    BY <1>1, <1>4, <2>1 DEF Elsewhere
  <2> QED
    BY <2>4, <2>5 DEF Readings
<1>5. ASSUME NEW i \in Ask, NEW x \in Number, NEW k \in {None} \cup Number,
             ReadingCollected(i, x, k)
      PROVE  Readings'
  <2>1. /\ DeviceDone(i, x) /\ Takes(queryBox, queryBox', Ask, i, Reading(x, k))
        /\ \A y \in Number : watchers'[y] \subseteq watchers[y]
    BY <1>5 DEF ReadingCollected, Elsewhere
  <2>2. /\ In(queryBox[i], Reading(x, k)) /\ ~In(queryBox'[i], Reading(x, k))
        /\ \A m : In(queryBox'[i], m) => In(queryBox[i], m)
        /\ query[i].phase = "running"
    BY <2>1 DEF Takes, Minus, Within, NoDuplicates, DeviceDone
  <2>3. ReadingsOf(i) /\ Replied(i, x)
    BY <2>2 DEF Readings, Replied
  <2>4. ~Asking(i, x)
    BY <2>2, <2>3 DEF ReadingsOf
  <2>5. \A l \in {None} \cup Number : ~In(queryBox'[i], Reading(x, l))
    BY <2>2, <2>3 DEF ReadingsOf
  <2> QED
    BY <1>4, <2>1, <2>4, <2>5
<1>6. ASSUME NEW i \in Ask, NEW x \in Number, DeviceGivenUp(i, x) PROVE Readings'
  <2>1. /\ DeviceDone(i, x) /\ Takes(queryBox, queryBox', Ask, i, Terminated(x))
        /\ \A y \in Number : watchers'[y] \subseteq watchers[y]
    BY <1>6 DEF DeviceGivenUp
  <2>2. /\ In(queryBox[i], Terminated(x))
        /\ \A a : Ahead(queryBox[i], a, Terminated(x)) /\ a # Terminated(x) =>
              ~In(queryBox[i], a)
        /\ \A m : In(queryBox'[i], m) => In(queryBox[i], m)
    BY <2>1 DEF Takes, Minus, Within
  <2>3. device[x].life = "gone"
    BY <2>2 DEF Signals
  <2>4. ~Asking(i, x)
    BY <2>3, Emptied DEF Records, Asking
  <2>5. \A l \in {None} \cup Number : ~In(queryBox'[i], Reading(x, l))
    BY <2>2, Apart DEF Readings, ReadingsOf
  <2> QED
    BY <1>4, <2>1, <2>4, <2>5
<1>7. ASSUME NEW i \in Ask, NEW m, Takes(queryBox, queryBox', Ask, i, m),
             UNCHANGED <<deviceBox, watchers>>, Elsewhere(query, query', Ask, i),
             query'[i].todo = query[i].todo, query'[i].pending = query[i].pending,
             query[i].phase # "stopped", query'[i].phase # "stopped"
      PROVE  Readings'
  <2>1. Within(queryBox[i], queryBox'[i]) /\ Elsewhere(queryBox, queryBox', Ask, i)
    BY <1>7 DEF Takes, Minus
  <2>2. ReadingsOf(i)'
    BY <1>7, <2>1, ReadingsUndisturbed DEF Readings
  <2>3. \A j \in Ask : j # i => ReadingsOf(j)'
    BY <1>1, <1>7, <2>1 DEF Elsewhere
  <2> QED
    BY <2>2, <2>3 DEF Readings
<1>8. ASSUME NEW i \in Ask, QueryBegun(i) PROVE Readings'
  BY <1>7, <1>8 DEF QueryBegun
<1>9. ASSUME NEW i \in Ask, NEW x \in Number, SignalIgnored(i, x) PROVE Readings'
  <2>1. /\ Takes(queryBox, queryBox', Ask, i, Terminated(x))
        /\ query[i].phase = "running" /\ UNCHANGED <<query, deviceBox, watchers>>
    BY <1>9 DEF SignalIgnored
  <2> QED
    BY <1>7, <2>1 DEF Elsewhere
<1> QED
  BY <1>2, <1>3, <1>5, <1>6, <1>8, <1>9, Ended DEF QueryEvent

LEMMA ReadingsKeptByDevice ==
    ASSUME Types, NoDuplicates, Signals, Phases, Readings, DeviceEvent
    PROVE  Readings'
<1>1. query' = query
  BY DeviceFrame
<1>2. \A x \in Number : watchers'[x] \subseteq watchers[x]
  BY Closed DEF DeviceEvent, RecordStored, DeviceRestarted, DeviceClosed,
     DeviceReplied, DeviceGone, GroupSignalled, QuerySignalled, Elsewhere
<1>3. \A x \in Number : \A m : In(deviceBox'[x], m) => In(deviceBox[x], m)
  BY Closed, Emptied DEF DeviceEvent, RecordStored, DeviceRestarted, DeviceClosed,
     DeviceReplied, DeviceGone, GroupSignalled, QuerySignalled, Takes, Minus, Within,
     Elsewhere
<1>4. \A j \in Ask : queryBox'[j] = queryBox[j] => ReadingsOf(j)'
  BY <1>1, <1>2, <1>3, Emptied, ReadingsUndisturbed DEF Readings
<1>5. ASSUME NEW x \in Number, NEW i \in Ask, DeviceReplied(x, i) PROVE Readings'
  <2> DEFINE r == device[x].reading
  <2>1. /\ device[x].life = "up"
        /\ In(deviceBox[x], Read(i)) /\ ~In(deviceBox'[x], Read(i))
    BY <1>5 DEF DeviceReplied, Takes, Minus, NoDuplicates
  <2>2. CASE query[i].phase = "stopped"
    BY <1>4, <1>5, <2>2 DEF DeviceReplied, Readings
  <2>3. CASE query[i].phase # "stopped"
    <3>1. /\ Sends(queryBox, queryBox', Ask, i, Reading(x, r))
          /\ r \in {None} \cup Number
      BY <1>5, <2>3, Members DEF DeviceReplied
    <3> HIDE DEF r
    <3>2. ReadingsOf(i) /\ Asking(i, x)
      BY <2>1 DEF Readings, Asking
    <3>3. x \in query[i].pending /\ ~Replied(i, x)
      BY <2>3, <3>2 DEF ReadingsOf
    <3>4. ~In(queryBox[i], Terminated(x))
      BY <2>1 DEF Signals
    <3>5. /\ \A m : In(queryBox'[i], m) <=> In(queryBox[i], m) \/ m = Reading(x, r)
          /\ \A a, b : Ahead(queryBox[i], a, b) /\ Reading(x, r) # a =>
                Ahead(queryBox'[i], a, b)
          /\ \A a, b : ~In(queryBox[i], b) /\ b # Reading(x, r) =>
                Ahead(queryBox'[i], a, b)
          /\ Elsewhere(queryBox, queryBox', Ask, i)
      BY <3>1 DEF Sends, Plus
    <3>6. \A y \in Number : \A k \in {None} \cup Number :
             In(queryBox'[i], Reading(y, k)) =>
                In(queryBox[i], Reading(y, k)) \/ (y = x /\ k = r)
      BY <3>5, Apart
    <3>7. \A y \in Number : Replied(i, y)' => Replied(i, y) \/ y = x
      BY <3>6 DEF Replied
    <3>8. \A y \in Number : Asking(i, y)' => Asking(i, y) /\ y # x
      BY <1>3, <2>1 DEF Asking
    <3>9. \A y \in Number : \A k \in {None} \cup Number :
             Ahead(queryBox'[i], Reading(y, k), Terminated(y))
      <4>1. ASSUME NEW y \in Number, NEW k \in {None} \cup Number,
                   Reading(y, k) # Reading(x, r)
            PROVE  Ahead(queryBox'[i], Reading(y, k), Terminated(y))
        BY <3>2, <3>5, <4>1 DEF ReadingsOf
      <4>2. Ahead(queryBox'[i], Reading(x, r), Terminated(x))
        BY <3>4, <3>5, Apart
      <4> QED
        BY <4>1, <4>2, Apart
    <3>10. \A y \in Number : \A k, l \in {None} \cup Number :
              In(queryBox'[i], Reading(y, k)) /\ In(queryBox'[i], Reading(y, l)) => k = l
      BY <3>2, <3>3, <3>6 DEF ReadingsOf, Replied
    <3>11. \A y : In(queryBox'[i], Terminated(y)) => In(queryBox[i], Terminated(y))
      BY <3>5, Apart
    <3>12. \A y \in query'[i].todo :
              /\ y \notin query'[i].pending /\ i \notin watchers'[y]
              /\ ~Asking(i, y)' /\ ~Replied(i, y)'
              /\ ~In(queryBox'[i], Terminated(y))
      BY <1>1, <1>2, <3>2, <3>3, <3>7, <3>8, <3>11, Members DEF ReadingsOf
    <3>13. \A y \in Number : Asking(i, y)' =>
              \/ query'[i].phase = "stopped"
              \/ y \in query'[i].pending /\ ~Replied(i, y)'
      BY <1>1, <3>2, <3>7, <3>8 DEF ReadingsOf
    <3>14. \A y \in Number : Replied(i, y)' =>
              y \in query'[i].pending /\ query'[i].phase # "stopped"
      BY <1>1, <2>3, <3>2, <3>3, <3>7 DEF ReadingsOf
    <3>15. ReadingsOf(i)'
      BY <3>9, <3>10, <3>12, <3>13, <3>14 DEF ReadingsOf
    <3> QED
      BY <1>4, <3>5, <3>15 DEF Elsewhere, Readings
  <2> QED
    BY <2>2, <2>3
<1>6. ASSUME NEW x \in Number, NEW i \in Ask, QuerySignalled(x, i) PROVE Readings'
  <2>1. /\ i \in watchers[x] /\ deviceBox' = deviceBox
        /\ \A m : In(queryBox'[i], m) => In(queryBox[i], m) \/ m = Terminated(x)
        /\ \A a, b : Ahead(queryBox[i], a, b) /\ Terminated(x) # a =>
              Ahead(queryBox'[i], a, b)
        /\ Elsewhere(queryBox, queryBox', Ask, i)
    BY <1>6 DEF QuerySignalled, Sends, Plus
  <2>2. ReadingsOf(i) /\ x \notin query[i].todo
    BY <2>1 DEF Readings, ReadingsOf
  <2>3. \A y : /\ y # x => (In(queryBox'[i], Terminated(y)) => In(queryBox[i], Terminated(y)))
               /\ \A k : In(queryBox'[i], Reading(y, k)) => In(queryBox[i], Reading(y, k))
    BY <2>1, Apart
  <2>4. \A y : /\ Replied(i, y)' => Replied(i, y)
               /\ Asking(i, y)' <=> Asking(i, y)
    BY <2>1, <2>3 DEF Replied, Asking
  <2>5. \A y \in Number : \A k \in {None} \cup Number :
           Ahead(queryBox'[i], Reading(y, k), Terminated(y))
    BY <2>1, <2>2, Apart DEF ReadingsOf
  <2>6. ReadingsOf(i)'
    BY <1>1, <1>2, <2>2, <2>3, <2>4, <2>5, Members DEF ReadingsOf
  <2> QED
    BY <1>4, <2>1, <2>6 DEF Elsewhere, Readings
<1>7. CASE queryBox' = queryBox
  BY <1>4, <1>7 DEF Readings
<1> QED
  BY <1>5, <1>6, <1>7, Closed DEF DeviceEvent, RecordStored, DeviceRestarted,
     DeviceClosed, DeviceGone, GroupSignalled

LEMMA ReadingsKept ==
    ASSUME Types, NoDuplicates, Signals, Records, Questions, Phases, Readings, Event
    PROVE  Readings'
<1>1. CASE ManagerEvent
  <2>1. UNCHANGED <<query, queryBox, deviceBox, watchers>>
    BY <1>1, ManagerFrame
  <2> QED
    BY <2>1, Emptied, ReadingsUndisturbed DEF Readings
<1> QED
  BY <1>1, ReadingsKeptByGroup, ReadingsKeptByQuery, ReadingsKeptByDevice DEF Event

-----------------------------------------------------------------------------
(***************************************************************************)
(* No mailbox ever has a message twice.                                     *)
(***************************************************************************)

LEMMA DistinctInManager ==
    ASSUME Types, NoDuplicates, Records, Questions, Event
    PROVE  Distinct(managerBox')
<1>1. CASE managerBox' = managerBox
  BY <1>1 DEF NoDuplicates
<1>2. ASSUME NEW m, Plus(managerBox, managerBox', m), ~In(managerBox, m)
      PROVE  Distinct(managerBox')
  BY <1>2 DEF NoDuplicates, Plus
<1>3. ASSUME NEW m, Minus(managerBox, managerBox', m) PROVE Distinct(managerBox')
  BY <1>3 DEF NoDuplicates, Minus, Within
<1>4. ASSUME NEW k \in Number, RecordTold(k) PROVE Distinct(managerBox')
  <2>1. ~In(managerBox, Record(k))
    BY <1>4 DEF RecordTold, Records
  <2> QED
    BY <1>2, <1>4, <2>1 DEF RecordTold
<1>5. ASSUME NEW i \in Ask, QuestionAsked(i) PROVE Distinct(managerBox')
  <2>1. ~In(managerBox, Average(i))
    BY <1>5 DEF QuestionAsked, Questions
  <2> QED
    BY <1>2, <1>5, <2>1 DEF QuestionAsked
<1>6. CASE ShutdownTold
  BY <1>2, <1>6 DEF ShutdownTold
<1>7. CASE \/ \E k \in Number : \E g \in Group : RecordRouted(k, g)
           \/ \E i \in Ask : \E g \in Group : QuestionRouted(i, g)
           \/ \E i \in Ask : QuestionRefused(i)
           \/ ManagerDrained
  BY <1>3, <1>7 DEF RecordRouted, QuestionRouted, QuestionRefused, ManagerDrained
<1>8. CASE ManagerStopped
  <2>1. managerBox' = <<>> /\ Within(managerBox, <<>>)
    BY <1>8, Emptied DEF ManagerStopped
  <2> QED
    BY <2>1 DEF NoDuplicates, Within
<1>9. CASE ManagerEvent
  BY <1>1, <1>4, <1>5, <1>6, <1>7, <1>8, <1>9 DEF ManagerEvent, QuestionSlipped
<1> QED
  BY <1>1, <1>9, GroupFrame, QueryFrame, DeviceFrame DEF Event

LEMMA DistinctInGroups ==
    ASSUME Types, NoDuplicates, Signals, Records, Questions, Event, NEW h \in Group
    PROVE  Distinct(groupBox'[h])
<1>1. CASE groupBox' = groupBox
  BY <1>1 DEF NoDuplicates
<1>2. ASSUME NEW g \in Group, NEW m, Sends(groupBox, groupBox', Group, g, m),
             ~In(groupBox[g], m)
      PROVE  Distinct(groupBox'[h])
  BY <1>2 DEF NoDuplicates, Sends, Plus, Elsewhere
<1>3. ASSUME NEW g \in Group, NEW m, Takes(groupBox, groupBox', Group, g, m)
      PROVE  Distinct(groupBox'[h])
  BY <1>3 DEF NoDuplicates, Takes, Minus, Within, Elsewhere
<1>4. ASSUME NEW k \in Number, NEW g \in Group, RecordRouted(k, g)
      PROVE  Distinct(groupBox'[h])
  <2>1. ~In(groupBox[g], Record(k))
    BY <1>4 DEF RecordRouted, Minus, Records
  <2> QED
    BY <1>2, <1>4, <2>1 DEF RecordRouted
<1>5. ASSUME NEW i \in Ask, NEW g \in Group, QuestionRouted(i, g)
      PROVE  Distinct(groupBox'[h])
  <2>1. ~In(groupBox[g], Average(i))
    BY <1>5 DEF QuestionRouted, Minus, Questions
  <2> QED
    BY <1>2, <1>5, <2>1 DEF QuestionRouted
<1>6. CASE ManagerEvent
  BY <1>1, <1>4, <1>5, <1>6 DEF ManagerEvent, RecordTold, QuestionAsked, ShutdownTold,
     QuestionRefused, QuestionSlipped, ManagerDrained, ManagerStopped
<1>7. ASSUME NEW g \in Group, GroupStopped(g) PROVE Distinct(groupBox'[h])
  <2>1. groupBox'[g] = <<>> /\ Elsewhere(groupBox, groupBox', Group, g)
        /\ Within(groupBox[g], <<>>)
    BY <1>7, Emptied DEF GroupStopped
  <2> QED
    BY <2>1 DEF NoDuplicates, Within, Elsewhere
<1>8. CASE GroupEvent
  BY <1>3, <1>7, <1>8 DEF GroupEvent, DeviceSpawned, RecordForwarded, QuerySpawned,
     DevicePruned
<1>9. ASSUME NEW x \in Number, NEW g \in Group, GroupSignalled(x, g)
      PROVE  Distinct(groupBox'[h])
  <2>1. ~In(groupBox[g], Terminated(x))
    BY <1>9 DEF GroupSignalled, Signals
  <2> QED
    BY <1>1, <1>2, <1>9, <2>1 DEF GroupSignalled
<1>10. CASE DeviceEvent
  BY <1>1, <1>9, <1>10 DEF DeviceEvent, RecordStored, DeviceRestarted, Closing,
     DeviceFailed, DeviceStopped, DeviceClosed, DeviceReplied, DeviceGone, QuerySignalled
<1> QED
  BY <1>1, <1>6, <1>8, <1>10, QueryFrame DEF Event

LEMMA DistinctInQueries ==
    ASSUME Types, NoDuplicates, Signals, Readings, Event, NEW j \in Ask
    PROVE  Distinct(queryBox'[j])
<1>1. CASE queryBox' = queryBox
  BY <1>1 DEF NoDuplicates
<1>2. ASSUME NEW i \in Ask, NEW m, Sends(queryBox, queryBox', Ask, i, m),
             ~In(queryBox[i], m)
      PROVE  Distinct(queryBox'[j])
  BY <1>2 DEF NoDuplicates, Sends, Plus, Elsewhere
<1>3. ASSUME NEW i \in Ask, NEW m, Takes(queryBox, queryBox', Ask, i, m)
      PROVE  Distinct(queryBox'[j])
  BY <1>3 DEF NoDuplicates, Takes, Minus, Within, Elsewhere
<1>4. ASSUME NEW g \in Group, NEW i \in Ask, QuerySpawned(g, i)
      PROVE  Distinct(queryBox'[j])
  <2>1. queryBox'[i] = <<Start>> /\ Elsewhere(queryBox, queryBox', Ask, i)
    BY <1>4 DEF QuerySpawned
  <2>2. Distinct(queryBox'[i])
    BY <2>1, Kinds, Alone
  <2> QED
    BY <2>1, <2>2 DEF NoDuplicates, Elsewhere
<1>5. CASE GroupEvent
  BY <1>1, <1>4, <1>5 DEF GroupEvent, DeviceSpawned, RecordForwarded, DevicePruned,
     GroupStopped
<1>6. ASSUME NEW i \in Ask, Ending(i) PROVE Distinct(queryBox'[j])
  <2>1. queryBox'[i] = <<>> /\ Elsewhere(queryBox, queryBox', Ask, i)
        /\ Within(queryBox[i], <<>>)
    BY <1>6, Ended, Emptied DEF QueryEnded
  <2> QED
    BY <2>1 DEF NoDuplicates, Within, Elsewhere
<1>7. ASSUME NEW i \in Ask, NEW x \in Number, DeviceAsked(i, x)
      PROVE  Distinct(queryBox'[j])
  <2>1. ~In(queryBox[i], Terminated(x))
    BY <1>7 DEF DeviceAsked, Readings, ReadingsOf
  <2> QED
    BY <1>1, <1>2, <1>7, <2>1 DEF DeviceAsked
<1>8. CASE QueryEvent
  BY <1>3, <1>6, <1>7, <1>8 DEF QueryEvent, QueryBegun, ReadingCollected, DeviceGivenUp,
     SignalIgnored
<1>9. ASSUME NEW x \in Number, NEW i \in Ask, DeviceReplied(x, i)
      PROVE  Distinct(queryBox'[j])
  <2>1. CASE query[i].phase = "stopped"
    BY <1>1, <1>9, <2>1 DEF DeviceReplied
  <2>2. CASE query[i].phase # "stopped"
    <3>1. Asking(i, x)
      BY <1>9 DEF DeviceReplied, Takes, Minus, Asking
    <3>2. ~Replied(i, x)
      BY <2>2, <3>1 DEF Readings, ReadingsOf
    <3>3. ~In(queryBox[i], Reading(x, device[x].reading))
      BY <3>2, Members DEF Replied
    <3> QED
      BY <1>2, <1>9, <2>2, <3>3 DEF DeviceReplied
  <2> QED
    BY <2>1, <2>2
<1>10. ASSUME NEW x \in Number, NEW i \in Ask, QuerySignalled(x, i)
       PROVE  Distinct(queryBox'[j])
  <2>1. ~In(queryBox[i], Terminated(x))
    BY <1>10 DEF QuerySignalled, Signals
  <2> QED
    BY <1>2, <1>10, <2>1 DEF QuerySignalled
<1>11. CASE DeviceEvent
  BY <1>1, <1>9, <1>10, <1>11 DEF DeviceEvent, RecordStored, DeviceRestarted, Closing,
     DeviceFailed, DeviceStopped, DeviceClosed, DeviceGone, GroupSignalled
<1> QED
  BY <1>1, <1>5, <1>8, <1>11, ManagerFrame DEF Event

LEMMA DistinctInDevices ==
    ASSUME Types, NoDuplicates, Records, Readings, Event, NEW y \in Number
    PROVE  Distinct(deviceBox'[y])
<1>1. CASE deviceBox' = deviceBox
  BY <1>1 DEF NoDuplicates
<1>2. ASSUME NEW x \in Number, NEW m, Sends(deviceBox, deviceBox', Number, x, m),
             ~In(deviceBox[x], m)
      PROVE  Distinct(deviceBox'[y])
  BY <1>2 DEF NoDuplicates, Sends, Plus, Elsewhere
<1>3. ASSUME NEW x \in Number, NEW m, Takes(deviceBox, deviceBox', Number, x, m)
      PROVE  Distinct(deviceBox'[y])
  BY <1>3 DEF NoDuplicates, Takes, Minus, Within, Elsewhere
<1>4. ASSUME NEW g \in Group, NEW k \in Number, DeviceSpawned(g, k)
      PROVE  Distinct(deviceBox'[y])
  <2>1. deviceBox'[k] = <<Record(k)>> /\ Elsewhere(deviceBox, deviceBox', Number, k)
    BY <1>4 DEF DeviceSpawned
  <2>2. Distinct(deviceBox'[k])
    BY <2>1, Kinds, Alone
  <2> QED
    BY <2>1, <2>2 DEF NoDuplicates, Elsewhere
<1>5. ASSUME NEW g \in Group, NEW k \in Number, NEW x \in Number,
             RecordForwarded(g, k, x)
      PROVE  Distinct(deviceBox'[y])
  <2>1. ~In(deviceBox[x], Record(k))
    BY <1>5 DEF RecordForwarded, Takes, Minus, Records
  <2> QED
    BY <1>1, <1>2, <1>5, <2>1 DEF RecordForwarded
<1>6. CASE GroupEvent
  BY <1>1, <1>4, <1>5, <1>6 DEF GroupEvent, QuerySpawned, DevicePruned, GroupStopped
<1>7. ASSUME NEW i \in Ask, NEW x \in Number, DeviceAsked(i, x)
      PROVE  Distinct(deviceBox'[y])
  <2>1. ~In(deviceBox[x], Read(i))
    BY <1>7 DEF DeviceAsked, Readings, ReadingsOf, Asking
  <2> QED
    BY <1>1, <1>2, <1>7, <2>1 DEF DeviceAsked
<1>8. CASE QueryEvent
  BY <1>1, <1>7, <1>8, Ended DEF QueryEvent, QueryBegun, QueryEnded, ReadingCollected,
     DeviceGivenUp, DeviceDone, SignalIgnored
<1>9. ASSUME NEW x \in Number, DeviceClosed(x) PROVE Distinct(deviceBox'[y])
  <2>1. deviceBox'[x] = <<>> /\ Elsewhere(deviceBox, deviceBox', Number, x)
        /\ Within(deviceBox[x], <<>>)
    BY <1>9, Emptied DEF DeviceClosed
  <2> QED
    BY <2>1 DEF NoDuplicates, Within, Elsewhere
<1>10. CASE DeviceEvent
  BY <1>1, <1>3, <1>9, <1>10, Closed DEF DeviceEvent, RecordStored, DeviceRestarted,
     DeviceReplied, DeviceGone, GroupSignalled, QuerySignalled
<1> QED
  BY <1>1, <1>6, <1>8, <1>10, ManagerFrame DEF Event

LEMMA NoDuplicatesKept ==
    ASSUME Types, NoDuplicates, Signals, Records, Questions, Readings, Event
    PROVE  NoDuplicates'
BY DistinctInManager, DistinctInGroups, DistinctInQueries, DistinctInDevices
   DEF NoDuplicates

-----------------------------------------------------------------------------
(***************************************************************************)
(* The invariant, and what follows from it.                                 *)
(***************************************************************************)

\* Everything but the order in the mailboxes, which Ordered is about.
Coherent ==
    /\ Types
    /\ NoDuplicates
    /\ Registry
    /\ Signals
    /\ Records
    /\ Questions
    /\ Phases
    /\ Readings

LEMMA InitCoherent == Init => Coherent
<1> SUFFICES ASSUME Init PROVE Coherent
  OBVIOUS
<1>1. /\ told = <<>> /\ Len(told) = 0 /\ Told = {}
      /\ \A i \in Ask : /\ asked[i].status = "unasked" /\ asked[i].since = 0
      /\ managerBox = <<>>
      /\ \A g \in Group : groupBox[g] = <<>> /\ devices[g] = {}
      /\ \A i \in Ask : /\ query[i].phase = "unborn" /\ query[i].todo = {}
                        /\ query[i].pending = {} /\ query[i].counted = {}
                        /\ queryBox[i] = <<>>
      /\ \A x \in Number : /\ device[x].life = "unborn" /\ device[x].reading = None
                           /\ device[x].restarts = 0
                           /\ deviceBox[x] = <<>> /\ watchers[x] = {}
  BY DEF Init, Told
<1>2. /\ <<>> \in Seq(Data) /\ <<>> \in Seq(ManagerMessage)
      /\ <<>> \in Seq(GroupMessage) /\ <<>> \in Seq(QueryMessage)
      /\ <<>> \in Seq(DeviceMessage)
  BY Emptied
<1>3. Types
  <2>1. /\ told \in Seq(Data) /\ Len(told) <= MaxRecords
        /\ manager \in {"up", "drained", "stopped"}
        /\ managerBox \in Seq(ManagerMessage)
        /\ group \in [Group -> {"unborn", "up", "stopped"}]
        /\ devices \in [Group -> SUBSET Number]
        /\ watchers \in [Number -> SUBSET (Group \cup Ask)]
    BY <1>1, <1>2 DEF Init
  <2>2. /\ groupBox \in [Group -> Seq(GroupMessage)]
        /\ queryBox \in [Ask -> Seq(QueryMessage)]
        /\ deviceBox \in [Number -> Seq(DeviceMessage)]
    BY <1>2 DEF Init
  <2>3. asked \in [Ask -> Question]
    BY DEF Init, Question
  <2>4. query \in [Ask -> Querying]
    BY DEF Init, Querying
  <2>5. device \in [Number -> Incarnation]
    BY DEF Init, Incarnation
  <2> QED
    BY <2>1, <2>2, <2>3, <2>4, <2>5 DEF Types
<1>4. (\A m : ~In(<<>>, m)) /\ Distinct(<<>>) /\ \A a, b : Ahead(<<>>, a, b)
  <2>1. (\A m : ~In(<<>>, m)) /\ Len(<<>>) = 0
    BY Emptied
  <2> QED
    BY <2>1, Unordered DEF Distinct
<1>5. NoDuplicates
  BY <1>1, <1>4 DEF NoDuplicates
<1>6. Registry /\ Signals
  BY <1>1, <1>4 DEF Registry, Signals
<1>7. Records
  BY <1>1, <1>4 DEF Records
<1>8. Questions /\ Phases
  BY <1>1, <1>4 DEF Questions, Phases, Started
<1>9. Readings
  BY <1>1, <1>4 DEF Readings, ReadingsOf, Asking, Replied
<1> QED
  BY <1>3, <1>5, <1>6, <1>7, <1>8, <1>9 DEF Coherent

LEMMA CoherentKept == Coherent /\ [Next]_vars => Coherent'
<1> SUFFICES ASSUME Coherent, [Next]_vars PROVE Coherent'
  OBVIOUS
<1>1. /\ Types /\ NoDuplicates /\ Registry /\ Signals /\ Records /\ Questions
      /\ Phases /\ Readings
  BY DEF Coherent
<1>2. CASE Next
  <2>1. Types' /\ Event
    BY <1>1, <1>2, EveryStep
  <2>2. NoDuplicates'
    BY <1>1, <2>1, NoDuplicatesKept
  <2>3. Registry'
    BY <1>1, <2>1, RegistryKept
  <2>4. Signals'
    BY <1>1, <2>1, SignalsKept
  <2>5. Records'
    BY <1>1, <2>1, RecordsKept
  <2>6. Questions'
    BY <1>1, <2>1, QuestionsKept
  <2>7. Phases'
    BY <1>1, <2>1, PhasesKept
  <2>8. Readings'
    BY <1>1, <2>1, ReadingsKept
  <2> QED
    BY <2>1, <2>2, <2>3, <2>4, <2>5, <2>6, <2>7, <2>8 DEF Coherent
<1>3. CASE UNCHANGED vars
  <2>1. UNCHANGED <<told, asked, manager, managerBox, group, groupBox, devices, query,
                    queryBox, device, deviceBox, watchers>>
    BY <1>3 DEF vars, clients, managers, groups, queries, incarnations
  <2>2. Types'
    BY <1>1, <2>1 DEF Types
  <2>3. NoDuplicates' /\ Registry' /\ Signals'
    BY <1>1, <2>1 DEF NoDuplicates, Registry, Signals, Told, SameDevice
  <2>4. Records' /\ Questions' /\ Phases'
    BY <1>1, <2>1 DEF Records, Questions, Phases, Told, SameDevice, Started
  <2>5. Readings'
    BY <1>1, <2>1 DEF Readings, ReadingsOf, Asking, Replied
  <2> QED
    BY <2>2, <2>3, <2>4, <2>5 DEF Coherent
<1> QED
  BY <1>2, <1>3

LEMMA CoherentImpliesTypes == Types => DeviceManagerTypeOK
<1> SUFFICES ASSUME Types PROVE DeviceManagerTypeOK
  OBVIOUS
<1>1. \A k \in DOMAIN told : told[k] \in [group : Group, device : Device, valid : BOOLEAN]
  <2>1. told \in Seq(Data) /\ DOMAIN told = 1 .. Len(told)
    BY LenProperties DEF Types
  <2> QED
    BY <2>1, ElementOfSeq DEF Data
<1>2. /\ asked \in [Ask -> Question] /\ query \in [Ask -> Querying]
      /\ device \in [Number -> Incarnation]
      /\ manager \in {"up", "drained", "stopped"}
      /\ group \in [Group -> {"unborn", "up", "stopped"}]
      /\ devices \in [Group -> SUBSET Number]
      /\ watchers \in [Number -> SUBSET (Group \cup Ask)]
  BY DEF Types
<1> QED
  BY <1>1, <1>2 DEF DeviceManagerTypeOK, Question, Querying, Incarnation

LEMMA CoherentImpliesNoOverlap == Coherent => SuccessorsDoNotOverlap
<1> SUFFICES ASSUME Coherent, NEW x \in Number, NEW y \in Number,
                    device[x].life \in {"up", "closed"},
                    device[y].life \in {"up", "closed"},
                    SameDevice(x, y)
             PROVE  x = y
  BY DEF SuccessorsDoNotOverlap
<1>1. Registry /\ Types
  BY DEF Coherent
<1>2. /\ x \in devices[told[x].group] /\ y \in devices[told[y].group]
      /\ x \in Told
  BY <1>1 DEF Registry
<1>3. told[x].group = told[y].group /\ told[x].group \in Group
  BY <1>1, <1>2, Members DEF SameDevice
<1> QED
  BY <1>1, <1>2, <1>3 DEF Registry

LEMMA CoherentImpliesPending == Coherent => ReadingsArePending
<1> SUFFICES ASSUME Coherent, NEW i \in Ask, NEW x \in Number,
                    \/ \E n \in DOMAIN queryBox[i] :
                          queryBox[i][n].kind = "reading" /\ queryBox[i][n].of = x
                    \/ \E n \in DOMAIN deviceBox[x] : deviceBox[x][n] = Read(i)
             PROVE  x \in query[i].pending \/ query[i].phase = "stopped"
  BY DEF ReadingsArePending
<1>1. /\ queryBox[i] \in Seq(QueryMessage) /\ deviceBox[x] \in Seq(DeviceMessage)
      /\ Readings
  BY DEF Coherent, Types
<1>2. /\ DOMAIN queryBox[i] = 1 .. Len(queryBox[i])
      /\ DOMAIN deviceBox[x] = 1 .. Len(deviceBox[x])
  BY <1>1, LenProperties
<1>3. ASSUME NEW n \in DOMAIN queryBox[i],
             queryBox[i][n].kind = "reading", queryBox[i][n].of = x
      PROVE  x \in query[i].pending
  <2>1. n \in 1 .. Len(queryBox[i]) /\ queryBox[i][n] \in QueryMessage
    BY <1>1, <1>2, <1>3, ElementOfSeq
  <2>2. \E k \in {None} \cup Number : queryBox[i][n] = Reading(x, k)
    BY <1>3, <2>1, OfQuery
  <2>3. Replied(i, x)
    BY <2>1, <2>2 DEF Replied, In
  <2> QED
    BY <1>1, <2>3 DEF Readings, ReadingsOf
<1>4. ASSUME NEW n \in DOMAIN deviceBox[x], deviceBox[x][n] = Read(i)
      PROVE  x \in query[i].pending \/ query[i].phase = "stopped"
  <2>1. Asking(i, x)
    BY <1>2, <1>4 DEF Asking, In
  <2> QED
    BY <1>1, <2>1 DEF Readings, ReadingsOf
<1> QED
  BY <1>3, <1>4

\* The inductive invariant: the registries, signals, records, questions and readings
\* of manager, groups, queries and devices agree, whatever is in the mailboxes.
THEOREM DeviceManagerCoherence == Spec => []Coherent
<1>1. Init => Coherent
  BY InitCoherent
<1>2. Coherent /\ [Next]_vars => Coherent'
  BY CoherentKept
<1> QED
  BY <1>1, <1>2, PTL DEF Spec

\* Every variable keeps its type, and a device its number of restarts.
THEOREM DeviceManagerTypes == Spec => []DeviceManagerTypeOK
<1>1. Coherent => DeviceManagerTypeOK
  BY CoherentImpliesTypes DEF Coherent
<1> QED
  BY <1>1, DeviceManagerCoherence, PTL

\* A group spawns a device again only once the last incarnation of it is gone.
THEOREM NoOverlapOfSuccessors == Spec => []SuccessorsDoNotOverlap
<1> QED
  BY CoherentImpliesNoOverlap, DeviceManagerCoherence, PTL

\* No signal of a device overtakes its reading: what a query is yet to be told it
\* still waits for.
THEOREM PendingReadings == Spec => []ReadingsArePending
<1> QED
  BY CoherentImpliesPending, DeviceManagerCoherence, PTL

-----------------------------------------------------------------------------
(***************************************************************************)
(* The order in which records and questions come to the devices.            *)
(***************************************************************************)

\* A record that has not reached its group.
Routing(k) ==
    \/ In(managerBox, Record(k))
    \/ In(groupBox[told[k].group], Record(k))

\* One that will never reach its device, and that no question waits for.
Lost(k) ==
    /\ manager = "stopped"
    /\ ~Routing(k)
    /\ \A x \in Number : ~In(deviceBox[x], Record(k))
    /\ \A i \in Ask :
          /\ asked[i].group = told[k].group
          /\ Started(i) \/ In(groupBox[asked[i].group], Average(i))
          => asked[i].since < k

\* Records are queued in the order they were told in.
InOrder ==
    \A k, l \in Number : k < l =>
        /\ Ahead(managerBox, Record(k), Record(l))
        /\ \A g \in Group : Ahead(groupBox[g], Record(k), Record(l))
        /\ \A x \in Number : Ahead(deviceBox[x], Record(k), Record(l))

\* Behind a record that is queued, or that has been stored, everything told later
\* is queued too, unless it is lost.
InSequence ==
    /\ \A k \in Number : \A l \in Told :
          k < l /\ In(managerBox, Record(k)) => In(managerBox, Record(l))
    /\ \A g \in Group : \A k \in Number : \A l \in Told :
          k < l /\ In(groupBox[g], Record(k)) /\ told[l].group = g =>
             Routing(l) \/ Lost(l)
    /\ \A x, k \in Number : \A l \in Told :
          /\ device[x].life = "up" /\ k < l /\ SameDevice(l, x)
          /\ In(deviceBox[x], Record(k)) \/ device[x].reading = k
          => In(deviceBox[x], Record(l)) \/ Routing(l) \/ Lost(l)

\* A question is behind the records told before it.
AfterRecords ==
    \A i \in Ask : \A l \in 1 .. asked[i].since :
        /\ Ahead(managerBox, Record(l), Average(i))
        /\ \A g \in Group : In(groupBox[g], Average(i)) =>
              /\ ~In(managerBox, Record(l))
              /\ Ahead(groupBox[g], Record(l), Average(i))
        /\ Started(i) /\ told[l].group = asked[i].group => ~Routing(l)
        /\ query[i].phase # "stopped" =>
              \A x \in Number : Ahead(deviceBox[x], Record(l), Read(i))

Delivered(k) ==
    \/ \E g \in Group : DeviceSpawned(g, k)
    \/ \E g \in Group : \E x \in Number : RecordForwarded(g, k, x)

\* What has been told stays.
LEMMA ToldStays ==
    ASSUME Event
    PROVE  /\ Told \subseteq Told'
           /\ \A k \in Told : told'[k] = told[k]
           /\ \A k \in Told' : k \in Told \/ (k \in Number /\ RecordTold(k))
           /\ \A k, l \in Told : SameDevice(k, l)' <=> SameDevice(k, l)
<1>1. CASE \E k \in Number : RecordTold(k)
  BY <1>1, MoreTold
<1>2. CASE told' = told
  BY <1>2, SameTold
<1>3. CASE ManagerEvent
  BY <1>1, <1>2, <1>3 DEF ManagerEvent, QuestionAsked, ShutdownTold, RecordRouted,
     QuestionRouted, QuestionRefused, QuestionSlipped, ManagerDrained, ManagerStopped
<1> QED
  BY <1>2, <1>3, GroupFrame, QueryFrame, DeviceFrame DEF Event

\* The manager does nothing any more once it has stopped.
LEMMA StoppedFrame ==
    ASSUME Event, manager = "stopped"
    PROVE  /\ ~ManagerEvent
           /\ UNCHANGED <<told, manager, managerBox>>
           /\ \A i \in Ask : asked'[i].since = asked[i].since
<1>1. ~ManagerEvent
  BY DEF ManagerEvent, RecordTold, QuestionAsked, ShutdownTold, RecordRouted,
     QuestionRouted, QuestionRefused, QuestionSlipped, ManagerDrained, ManagerStopped
<1>2. UNCHANGED <<told, manager, managerBox>>
  BY <1>1, GroupFrame, QueryFrame, DeviceFrame DEF Event
<1>3. ASSUME GroupEvent PROVE \A i \in Ask : asked'[i].since = asked[i].since
  BY <1>3 DEF GroupEvent, DeviceSpawned, RecordForwarded, QuerySpawned, DevicePruned,
     GroupStopped, Dropped
<1>4. ASSUME QueryEvent PROVE \A i \in Ask : asked'[i].since = asked[i].since
  BY <1>4, Ended DEF QueryEvent, QueryBegun, QueryEnded, DeviceAsked,
     ReadingCollected, DeviceGivenUp, DeviceDone, SignalIgnored, Elsewhere
<1>5. ASSUME DeviceEvent PROVE \A i \in Ask : asked'[i].since = asked[i].since
  BY <1>5, DeviceFrame
<1> QED
  BY <1>1, <1>2, <1>3, <1>4, <1>5 DEF Event

\* Only the manager routes to groups.
LEMMA GroupQueues ==
    ASSUME Event, ~ManagerEvent, NEW h \in Group
    PROVE  /\ \A k : In(groupBox'[h], Record(k)) => In(groupBox[h], Record(k))
           /\ \A i : In(groupBox'[h], Average(i)) => In(groupBox[h], Average(i))
           /\ \A k, m : Ahead(groupBox[h], Record(k), m) =>
                 Ahead(groupBox'[h], Record(k), m)
<1>1. ASSUME NEW g \in Group, NEW m, Takes(groupBox, groupBox', Group, g, m)
      PROVE  Within(groupBox[h], groupBox'[h])
  BY <1>1, Emptied DEF Takes, Minus, Elsewhere
<1>2. ASSUME NEW g \in Group, GroupStopped(g)
      PROVE  Within(groupBox[h], groupBox'[h])
  BY <1>2, Emptied DEF GroupStopped, Elsewhere
<1>3. CASE GroupEvent
  <2>1. Within(groupBox[h], groupBox'[h])
    BY <1>1, <1>2, <1>3 DEF GroupEvent, DeviceSpawned, RecordForwarded, QuerySpawned,
       DevicePruned
  <2> QED
    BY <2>1 DEF Within
<1>4. CASE \E x \in Number : \E g \in Group : GroupSignalled(x, g)
  BY <1>4, Apart DEF GroupSignalled, Sends, Plus, Elsewhere
<1>5. CASE groupBox' = groupBox
  BY <1>5
<1>6. CASE DeviceEvent
  BY <1>4, <1>5, <1>6, Closed DEF DeviceEvent, RecordStored, DeviceRestarted,
     DeviceClosed, DeviceReplied, DeviceGone, QuerySignalled
<1> QED
  BY <1>3, <1>5, <1>6, QueryFrame DEF Event

\* Only what is delivered comes to a device.
LEMMA DeviceQueues ==
    ASSUME Event, NEW x \in Number, NEW k \in Number, In(deviceBox'[x], Record(k))
    PROVE  \/ In(deviceBox[x], Record(k))
           \/ x = k /\ \E g \in Group : DeviceSpawned(g, k)
           \/ \E g \in Group : RecordForwarded(g, k, x)
<1>1. ASSUME NEW g \in Group, NEW l \in Number, DeviceSpawned(g, l)
      PROVE  In(deviceBox[x], Record(k)) \/ (x = k /\ DeviceSpawned(g, k))
  <2>1. deviceBox'[l] = <<Record(l)>> /\ Elsewhere(deviceBox, deviceBox', Number, l)
    BY <1>1 DEF DeviceSpawned
  <2>2. CASE x = l
    <3>1. \A m : In(deviceBox'[l], m) => m = Record(l)
      BY <2>1, Kinds, Alone
    <3> QED
      BY <1>1, <2>2, <3>1, Apart
  <2>3. CASE x # l
    BY <2>1, <2>3 DEF Elsewhere
  <2> QED
    BY <2>2, <2>3
<1>2. ASSUME NEW g \in Group, NEW l \in Number, NEW y \in Number,
             RecordForwarded(g, l, y)
      PROVE  In(deviceBox[x], Record(k)) \/ RecordForwarded(g, k, x)
  BY <1>2, Apart DEF RecordForwarded, Sends, Plus, Elsewhere
<1>3. CASE deviceBox' = deviceBox
  BY <1>3
<1>4. CASE GroupEvent
  BY <1>1, <1>2, <1>3, <1>4 DEF GroupEvent, QuerySpawned, DevicePruned, GroupStopped
<1>5. CASE QueryEvent
  <2>1. CASE \E i \in Ask : \E y \in Number : DeviceAsked(i, y)
    BY <2>1, Apart DEF DeviceAsked, Sends, Plus, Elsewhere
  <2> QED
    BY <1>3, <1>5, <2>1, Ended DEF QueryEvent, QueryBegun, QueryEnded,
       ReadingCollected, DeviceGivenUp, DeviceDone, SignalIgnored
<1>6. CASE DeviceEvent
  BY <1>6, Closed, Emptied DEF DeviceEvent, RecordStored, DeviceRestarted, DeviceClosed,
     DeviceReplied, DeviceGone, GroupSignalled, QuerySignalled, Takes, Minus, Within,
     Elsewhere
<1> QED
  BY <1>3, <1>4, <1>5, <1>6, ManagerFrame DEF Event

\* No record that has reached its group gets on its way again.
LEMMA NotRoutedAgain ==
    ASSUME Types, Event, NEW l \in Told, ~Routing(l)
    PROVE  ~Routing(l)'
<1>1. /\ told'[l] = told[l] /\ told[l].group \in Group /\ l \in Number
  BY ToldStays, Members
<1> DEFINE h == told[l].group
<1>2. ~In(managerBox, Record(l)) /\ ~In(groupBox[h], Record(l)) /\ h \in Group
  BY <1>1 DEF Routing
<1> HIDE DEF h
<1>3. ~In(managerBox', Record(l)) /\ ~In(groupBox'[h], Record(l))
  <2>1. CASE ManagerEvent
    <3>1. ASSUME NEW k \in Number, RecordTold(k) PROVE ~In(managerBox', Record(l))
      BY <1>2, <3>1, Apart DEF RecordTold, Plus
    <3>2. ~In(managerBox', Record(l))
      BY <1>2, <2>1, <3>1, Apart, Emptied DEF ManagerEvent, QuestionAsked,
         ShutdownTold, RecordRouted, QuestionRouted, QuestionRefused,
         QuestionSlipped, ManagerDrained, ManagerStopped, Plus, Minus, Within
    <3>3. ASSUME NEW k \in Number, NEW g \in Group, RecordRouted(k, g)
          PROVE ~In(groupBox'[h], Record(l))
      BY <1>2, <3>3, Apart DEF RecordRouted, Sends, Plus, Minus, Elsewhere
    <3>4. ~In(groupBox'[h], Record(l))
      BY <1>2, <2>1, <3>3, Apart DEF ManagerEvent, RecordTold, QuestionAsked,
         ShutdownTold, QuestionRouted, QuestionRefused, QuestionSlipped,
         ManagerDrained, ManagerStopped, Sends, Plus, Elsewhere
    <3> QED
      BY <3>2, <3>4
  <2>2. CASE ~ManagerEvent
    BY <1>2, <2>2, GroupQueues, GroupFrame, QueryFrame, DeviceFrame DEF Event
  <2> QED
    BY <2>1, <2>2
<1> QED
  BY <1>1, <1>3 DEF Routing, h

\* A query that begins had its question in the mailbox of the group.
LEMMA BegunFromQueue ==
    ASSUME Types, Questions, Event, NEW i \in Ask, Started(i)'
    PROVE  Started(i) \/ In(groupBox[asked[i].group], Average(i))
<1>1. CASE \E g \in Group : QuerySpawned(g, i)
  <2>1. PICK g \in Group : QuerySpawned(g, i)
    BY <1>1
  <2>2. In(groupBox[g], Average(i))
    BY <2>1 DEF QuerySpawned, Takes, Minus
  <2> QED
    BY <2>2 DEF Questions
<1>2. CASE GroupEvent
  BY <1>1, <1>2 DEF GroupEvent, DeviceSpawned, RecordForwarded, QuerySpawned,
     DevicePruned, GroupStopped, Elsewhere, Started
<1>3. CASE QueryEvent
  BY <1>3, Ended DEF QueryEvent, QueryBegun, QueryEnded, DeviceAsked,
     ReadingCollected, DeviceGivenUp, DeviceDone, SignalIgnored, Elsewhere, Started
<1>4. CASE query' = query
  BY <1>4 DEF Started
<1> QED
  BY <1>2, <1>3, <1>4, ManagerFrame, DeviceFrame DEF Event

LEMMA LostForGood ==
    ASSUME Types, Records, Questions, Event, NEW l \in Told, Lost(l)
    PROVE  Lost(l)'
<1>1. /\ manager = "stopped" /\ ~Routing(l)
      /\ l \in Number /\ told[l].group \in Group
  BY Members DEF Lost
<1>2. /\ ~ManagerEvent /\ told' = told /\ manager' = "stopped"
      /\ \A i \in Ask : asked'[i].since = asked[i].since
                        /\ asked'[i].group = asked[i].group
  BY <1>1, StoppedFrame, QuestionFrame
<1>3. ~Routing(l)'
  BY <1>1, NotRoutedAgain
<1>4. ASSUME NEW x \in Number PROVE ~In(deviceBox'[x], Record(l))
  <2>1. ~In(deviceBox[x], Record(l))
    BY DEF Lost
  <2>2. \A g \in Group : ~In(groupBox[g], Record(l))
    BY <1>1 DEF Records, Routing
  <2>3. ASSUME NEW g \in Group, DeviceSpawned(g, l) \/ RecordForwarded(g, l, x)
        PROVE  In(groupBox[g], Record(l))
    BY <2>3 DEF DeviceSpawned, RecordForwarded, Takes, Minus
  <2> QED
    BY <1>1, <2>1, <2>2, <2>3, DeviceQueues
<1>5. ASSUME NEW i \in Ask, asked'[i].group = told'[l].group,
             Started(i)' \/ In(groupBox'[asked'[i].group], Average(i))
      PROVE  asked'[i].since < l
  <2>1. asked[i].group = told[l].group /\ asked[i].group \in Group
    BY <1>2, <1>5, Members
  <2>2. Started(i) \/ In(groupBox[asked[i].group], Average(i))
    BY <1>2, <1>5, <2>1, BegunFromQueue, GroupQueues
  <2>3. asked[i].since < l
    BY <2>1, <2>2 DEF Lost
  <2> QED
    BY <1>2, <2>3
<1> QED
  BY <1>2, <1>3, <1>4, <1>5 DEF Lost

\* A record on its way is delivered, or lost with a mailbox that is dropped.
LEMMA RoutedOn ==
    ASSUME Types, NoDuplicates, Records, Questions, AfterRecords, Event,
           NEW l \in Told, Routing(l), ~Delivered(l)
    PROVE  Routing(l)' \/ Lost(l)'
<1>1. /\ told'[l] = told[l] /\ told[l].group \in Group /\ l \in Number
  BY ToldStays, Members
<1> DEFINE h == told[l].group
<1>2. /\ h \in Group /\ told'[l].group = h
      /\ In(managerBox, Record(l)) \/ In(groupBox[h], Record(l))
      /\ \A x \in Number : ~In(deviceBox[x], Record(l))
      /\ \A i \in Ask : asked'[i].group = asked[i].group
  BY <1>1, QuestionFrame DEF Routing, Records
<1>3. In(managerBox', Record(l)) \/ In(groupBox'[h], Record(l)) => Routing(l)'
  BY <1>2 DEF Routing
\* What is waited for is ahead of who waits for it.
<1>4. ASSUME manager' = "stopped", UNCHANGED <<told, query, deviceBox>>,
             \A i \in Ask : asked'[i].since = asked[i].since,
             \A m : In(groupBox'[h], m) => In(groupBox[h], m),
             \/ In(managerBox, Record(l))
             \/ \A m : ~In(groupBox'[h], m)
      PROVE  Routing(l)' \/ Lost(l)'
  <2>1. ASSUME NEW i \in Ask, asked'[i].group = h,
               Started(i)' \/ In(groupBox'[asked'[i].group], Average(i))
        PROVE  asked'[i].since < l
    <3>1. asked[i].group = h
      BY <1>2, <2>1
    <3>2. Started(i)' <=> Started(i)
      BY <1>4 DEF Started
    <3>3. \/ Started(i)
          \/ In(groupBox[h], Average(i)) /\ In(managerBox, Record(l))
      BY <1>2, <1>4, <2>1, <3>1, <3>2
    <3>4. ~(l \in 1 .. asked[i].since)
      BY <1>2, <3>1, <3>3 DEF AfterRecords, Routing
    <3>5. asked[i].since \in 0 .. MaxRecords /\ l \in 1 .. MaxRecords
      BY <1>1 DEF Types, Question, Number
    <3>6. \A m \in 1 .. MaxRecords : \A n \in 0 .. MaxRecords : ~(m \in 1 .. n) => n < m
      OBVIOUS
    <3> QED
      BY <1>4, <3>4, <3>5, <3>6
  <2> QED
    BY <1>2, <1>4, <2>1 DEF Lost
<1> HIDE DEF h
<1>5. CASE ManagerEvent
  <2>1. CASE ManagerStopped
    <3>1. /\ manager' = "stopped" /\ UNCHANGED <<told, query, deviceBox, groupBox>>
          /\ \A i \in Ask : asked'[i].since = asked[i].since
      BY <2>1 DEF ManagerStopped, Dropped
    <3> QED
      BY <1>2, <1>3, <1>4, <3>1
  <2>2. ASSUME NEW k \in Number, RecordTold(k) PROVE Routing(l)'
    BY <1>2, <1>3, <2>2 DEF RecordTold, Plus
  <2>3. ASSUME NEW k \in Number, NEW g \in Group, RecordRouted(k, g) PROVE Routing(l)'
    <3>1. /\ \A m : In(managerBox, m) => In(managerBox', m) \/ m = Record(k)
          /\ \A f \in Group : \A m : In(groupBox[f], m) => In(groupBox'[f], m)
          /\ In(groupBox'[g], Record(k)) /\ g = told[k].group
      BY <2>3 DEF RecordRouted, Minus, Sends, Plus, Elsewhere
    <3> QED
      BY <1>2, <1>3, <3>1, Apart DEF h
  <2>4. ASSUME NEW i \in Ask, NEW g \in Group, QuestionRouted(i, g) PROVE Routing(l)'
    <3>1. /\ \A m : In(managerBox, m) => In(managerBox', m) \/ m = Average(i)
          /\ \A f \in Group : \A m : In(groupBox[f], m) => In(groupBox'[f], m)
      BY <2>4 DEF QuestionRouted, Minus, Sends, Plus, Elsewhere
    <3> QED
      BY <1>2, <1>3, <3>1, Apart
  <2>5. CASE ShutdownTold \/ \E i \in Ask : QuestionAsked(i) \/ QuestionRefused(i)
    BY <1>2, <1>3, <2>5, Apart DEF ShutdownTold, QuestionAsked, QuestionRefused, Plus,
       Minus
  <2>6. CASE ManagerDrained \/ \E i \in Ask : QuestionSlipped(i)
    BY <1>2, <1>3, <2>6, Apart DEF ManagerDrained, QuestionSlipped, Minus
  <2> QED
    BY <1>5, <2>1, <2>2, <2>3, <2>4, <2>5, <2>6 DEF ManagerEvent
<1>6. CASE GroupEvent
  <2>1. UNCHANGED <<told, manager, managerBox>>
    BY <1>6, GroupFrame
  <2>2. ASSUME NEW g \in Group, NEW m, m # Record(l),
               Takes(groupBox, groupBox', Group, g, m)
        PROVE  Routing(l)'
    BY <1>2, <1>3, <2>1, <2>2 DEF Takes, Minus, Elsewhere
  <2>3. ASSUME NEW g \in Group, NEW k \in Number, NEW x \in Number,
               DeviceSpawned(g, k) \/ RecordForwarded(g, k, x)
        PROVE  Routing(l)'
    <3>1. k # l
      BY <2>3 DEF Delivered
    <3>2. Takes(groupBox, groupBox', Group, g, Record(k))
      BY <2>3 DEF DeviceSpawned, RecordForwarded
    <3> QED
      BY <2>2, <3>1, <3>2, Apart
  <2>4. ASSUME NEW g \in Group, NEW i \in Ask, QuerySpawned(g, i) PROVE Routing(l)'
    BY <2>2, <2>4, Apart DEF QuerySpawned
  <2>5. ASSUME NEW g \in Group, NEW x \in Number, DevicePruned(g, x) PROVE Routing(l)'
    BY <2>2, <2>5, Apart DEF DevicePruned
  <2>6. ASSUME NEW g \in Group, GroupStopped(g) PROVE Routing(l)' \/ Lost(l)'
    <3>1. /\ manager' = "stopped" /\ UNCHANGED <<query, deviceBox>>
          /\ \A i \in Ask : asked'[i].since = asked[i].since
          /\ \A m : ~In(groupBox'[g], m)
          /\ Elsewhere(groupBox, groupBox', Group, g)
      BY <2>6, Emptied DEF GroupStopped, Dropped
    <3>2. CASE h = g
      BY <1>4, <2>1, <3>1, <3>2
    <3>3. CASE h # g
      BY <1>2, <1>3, <2>1, <3>1, <3>3 DEF Elsewhere
    <3> QED
      BY <3>2, <3>3
  <2> QED
    BY <1>1, <1>6, <2>3, <2>4, <2>5, <2>6 DEF GroupEvent
<1>7. CASE QueryEvent
  BY <1>2, <1>3, <1>7, QueryFrame
<1>8. CASE DeviceEvent
  <2>1. managerBox' = managerBox
    BY <1>8, DeviceFrame
  <2>2. \A g \in Group : \A m : In(groupBox[g], m) => In(groupBox'[g], m)
    <3>1. CASE \E x \in Number : \E g \in Group : GroupSignalled(x, g)
      BY <3>1 DEF GroupSignalled, Sends, Plus, Elsewhere
    <3>2. CASE groupBox' = groupBox
      BY <3>2
    <3> QED
      BY <1>8, <3>1, <3>2, Closed DEF DeviceEvent, RecordStored, DeviceRestarted,
         DeviceClosed, DeviceReplied, DeviceGone, QuerySignalled
  <2> QED
    BY <1>2, <1>3, <2>1, <2>2
<1> QED
  BY <1>5, <1>6, <1>7, <1>8 DEF Event

LEMMA InOrderInManager ==
    ASSUME Types, Records, InOrder, Event,
           NEW k \in Number, NEW l \in Number, k < l
    PROVE  Ahead(managerBox', Record(k), Record(l))
<1>1. Ahead(managerBox, Record(k), Record(l)) /\ k # l
  <2>1. \A m \in Number : ~(m < m)
    BY DEF Number
  <2> QED
    BY <2>1 DEF InOrder
<1>2. ASSUME NEW n \in Number, RecordTold(n)
      PROVE  Ahead(managerBox', Record(k), Record(l))
  <2>1. CASE k # n
    BY <1>1, <1>2, <2>1, Apart DEF RecordTold, Plus
  <2>2. CASE k = n
    <3>1. l \notin Told
      <4>1. \A m \in Told : m < n /\ m \in Number
        BY <1>2, Members DEF RecordTold
      <4>2. \A m, o \in Number : m < o => ~(o < m)
        BY DEF Number
      <4> QED
        BY <2>2, <4>1, <4>2
    <3>2. ~In(managerBox, Record(l))
      BY <3>1 DEF Records
    <3> QED
      BY <1>1, <1>2, <2>2, <3>2, Apart DEF RecordTold, Plus
  <2> QED
    BY <2>1, <2>2
<1>3. ASSUME NEW m, Plus(managerBox, managerBox', m), m # Record(k)
      PROVE  Ahead(managerBox', Record(k), Record(l))
  BY <1>1, <1>3 DEF Plus
<1>4. ASSUME Within(managerBox, managerBox')
      PROVE  Ahead(managerBox', Record(k), Record(l))
  BY <1>1, <1>4 DEF Within
<1>5. CASE ManagerEvent
  BY <1>2, <1>3, <1>4, <1>5, Apart, Emptied DEF ManagerEvent, QuestionAsked,
     ShutdownTold, RecordRouted, QuestionRouted, QuestionRefused, QuestionSlipped,
     ManagerDrained, ManagerStopped, Minus
<1> QED
  BY <1>1, <1>5, GroupFrame, QueryFrame, DeviceFrame DEF Event

LEMMA InOrderInGroups ==
    ASSUME Types, Records, InOrder, InSequence, Event,
           NEW k \in Number, NEW l \in Number, k < l, NEW h \in Group
    PROVE  Ahead(groupBox'[h], Record(k), Record(l))
<1>1. Ahead(groupBox[h], Record(k), Record(l)) /\ k # l
  <2>1. \A m \in Number : ~(m < m)
    BY DEF Number
  <2> QED
    BY <2>1 DEF InOrder
<1>2. ASSUME NEW n \in Number, NEW g \in Group, RecordRouted(n, g)
      PROVE  Ahead(groupBox'[h], Record(k), Record(l))
  <2>1. /\ In(managerBox, Record(n))
        /\ Plus(groupBox[g], groupBox'[g], Record(n))
        /\ Elsewhere(groupBox, groupBox', Group, g)
    BY <1>2 DEF RecordRouted, Minus, Sends
  <2>2. CASE h = g /\ k = n
    <3>1. ~In(groupBox[g], Record(l))
      BY <2>1, <2>2 DEF Records, InSequence
    <3> QED
      BY <1>1, <2>1, <2>2, <3>1, Apart DEF Plus
  <2>3. CASE h = g /\ k # n
    BY <1>1, <2>1, <2>3, Apart DEF Plus
  <2>4. CASE h # g
    BY <1>1, <2>1, <2>4 DEF Elsewhere
  <2> QED
    BY <2>2, <2>3, <2>4
<1>3. ASSUME NEW i \in Ask, NEW g \in Group, QuestionRouted(i, g)
      PROVE  Ahead(groupBox'[h], Record(k), Record(l))
  BY <1>1, <1>3, Apart DEF QuestionRouted, Sends, Plus, Elsewhere
<1>4. CASE ManagerEvent
  BY <1>1, <1>2, <1>3, <1>4 DEF ManagerEvent, RecordTold, QuestionAsked, ShutdownTold,
     QuestionRefused, QuestionSlipped, ManagerDrained, ManagerStopped
<1> QED
  BY <1>1, <1>4, GroupQueues

LEMMA InOrderInDevices ==
    ASSUME Types, Records, InOrder, InSequence, Event,
           NEW k \in Number, NEW l \in Number, k < l, NEW x \in Number
    PROVE  Ahead(deviceBox'[x], Record(k), Record(l))
<1>1. Ahead(deviceBox[x], Record(k), Record(l)) /\ k # l
  <2>1. \A m \in Number : ~(m < m)
    BY DEF Number
  <2> QED
    BY <2>1 DEF InOrder
<1>2. CASE deviceBox' = deviceBox
  BY <1>1, <1>2
<1>3. ASSUME NEW y \in Number, NEW m, Takes(deviceBox, deviceBox', Number, y, m)
      PROVE  Ahead(deviceBox'[x], Record(k), Record(l))
  BY <1>1, <1>3 DEF Takes, Minus, Within, Elsewhere
<1>4. ASSUME NEW g \in Group, NEW n \in Number, DeviceSpawned(g, n)
      PROVE  Ahead(deviceBox'[x], Record(k), Record(l))
  <2>1. deviceBox'[n] = <<Record(n)>> /\ Elsewhere(deviceBox, deviceBox', Number, n)
    BY <1>4 DEF DeviceSpawned
  <2>2. Ahead(<<Record(n)>>, Record(k), Record(l))
    BY <1>1, Kinds, Alone, Apart
  <2> QED
    BY <1>1, <2>1, <2>2 DEF Elsewhere
\* What is told earlier does not come behind what has been delivered.
<1>5. ASSUME NEW g \in Group, NEW n \in Number, NEW y \in Number,
             RecordForwarded(g, n, y)
      PROVE  Ahead(deviceBox'[x], Record(k), Record(l))
  <2>1. CASE device[y].life = "up" /\ x = y
    <3>1. /\ Plus(deviceBox[x], deviceBox'[x], Record(n))
          /\ In(groupBox[g], Record(n)) /\ SameDevice(x, n)
      BY <1>5, <2>1 DEF RecordForwarded, Sends, Takes, Minus
    <3>2. CASE k = n
      <4>1. ASSUME In(deviceBox[x], Record(l)) PROVE FALSE
        <5>1. /\ l \in Told /\ SameDevice(l, x) /\ told[n].group = g
          BY <3>1, <4>1 DEF Records
        <5>2. told[l].group = g
          BY <3>1, <5>1 DEF SameDevice
        <5>3. Routing(l) \/ Lost(l)
          BY <3>1, <3>2, <5>1, <5>2 DEF InSequence
        <5>4. ~Routing(l)
          BY <4>1, <5>2 DEF Routing, Records
        <5> QED
          BY <4>1, <5>3, <5>4 DEF Lost
      <4> QED
        BY <1>1, <3>1, <3>2, <4>1, Apart DEF Plus
    <3>3. CASE k # n
      BY <1>1, <3>1, <3>3, Apart DEF Plus
    <3> QED
      BY <3>2, <3>3
  <2>2. CASE ~(device[y].life = "up" /\ x = y)
    BY <1>1, <1>5, <2>2 DEF RecordForwarded, Sends, Elsewhere
  <2> QED
    BY <2>1, <2>2
<1>6. CASE GroupEvent
  BY <1>2, <1>4, <1>5, <1>6 DEF GroupEvent, QuerySpawned, DevicePruned, GroupStopped
<1>7. CASE QueryEvent
  <2>1. CASE \E i \in Ask : \E y \in Number : DeviceAsked(i, y)
    BY <1>1, <2>1, Apart DEF DeviceAsked, Sends, Plus, Elsewhere
  <2> QED
    BY <1>2, <1>7, <2>1, Ended DEF QueryEvent, QueryBegun, QueryEnded,
       ReadingCollected, DeviceGivenUp, DeviceDone, SignalIgnored
<1>8. ASSUME NEW y \in Number, DeviceClosed(y)
      PROVE  Ahead(deviceBox'[x], Record(k), Record(l))
  <2>1. \A m : ~In(deviceBox'[y], m)
    BY <1>8, Emptied DEF DeviceClosed
  <2> QED
    BY <1>1, <1>8, <2>1, Unordered DEF DeviceClosed, Elsewhere
<1>9. CASE DeviceEvent
  BY <1>2, <1>3, <1>8, <1>9, Closed DEF DeviceEvent, RecordStored, DeviceRestarted,
     DeviceReplied, DeviceGone, GroupSignalled, QuerySignalled
<1> QED
  BY <1>2, <1>6, <1>7, <1>9, ManagerFrame DEF Event

LEMMA InOrderKept ==
    ASSUME Types, Records, InOrder, InSequence, Event
    PROVE  InOrder'
BY InOrderInManager, InOrderInGroups, InOrderInDevices DEF InOrder

-----------------------------------------------------------------------------
LEMMA ManagerSequenceKept ==
    ASSUME Types, NoDuplicates, InOrder, InSequence, Event,
           NEW k \in Number, NEW l \in Told', k < l, In(managerBox', Record(k))
    PROVE  In(managerBox', Record(l))
<1>1. CASE l \notin Told
  BY <1>1, ToldStays DEF RecordTold, Plus
<1>2. CASE l \in Told
  <2>1. l \in Number
    BY <1>2, Members
  <2>2. ASSUME NEW n \in Number, RecordTold(n) PROVE In(managerBox', Record(l))
    <3>1. l < n
      BY <1>2, <2>2 DEF RecordTold
    <3>2. k # n
      <4>1. \A m, o \in Number : m < o => ~(o < m)
        BY DEF Number
      <4> QED
        BY <2>1, <2>2, <3>1, <4>1
    <3>3. In(managerBox, Record(k))
      BY <2>2, <3>2, Apart DEF RecordTold, Plus
    <3> QED
      BY <1>2, <2>2, <3>3 DEF InSequence, RecordTold, Plus
  <2>3. ASSUME NEW m, m # Record(k), Plus(managerBox, managerBox', m)
        PROVE  In(managerBox', Record(l))
    BY <1>2, <2>3 DEF InSequence, Plus
  <2>4. ASSUME NEW m, Minus(managerBox, managerBox', m) PROVE In(managerBox', Record(l))
    <3>1. /\ In(managerBox, Record(k)) /\ ~In(managerBox', m)
          /\ \A n : In(managerBox, n) => In(managerBox', n) \/ n = m
          /\ \A a : Ahead(managerBox, a, m) /\ a # m => ~In(managerBox, a)
      BY <2>4 DEF Minus, Within, NoDuplicates
    <3>2. In(managerBox, Record(l))
      BY <1>2, <3>1 DEF InSequence
    <3>3. m # Record(l)
      BY <2>1, <3>1 DEF InOrder
    <3> QED
      BY <3>1, <3>2, <3>3
  <2>5. CASE ManagerEvent
    <3>1. CASE ManagerStopped
      BY <3>1, Emptied DEF ManagerStopped
    <3>2. CASE ShutdownTold \/ \E i \in Ask : QuestionAsked(i)
      BY <2>3, <3>2, Apart DEF ShutdownTold, QuestionAsked
    <3>3. CASE managerBox' = managerBox
      BY <1>2, <3>3 DEF InSequence
    <3> QED
      BY <2>2, <2>4, <2>5, <3>1, <3>2, <3>3 DEF ManagerEvent, RecordRouted,
         QuestionRouted, QuestionRefused, QuestionSlipped, ManagerDrained
  <2>6. CASE managerBox' = managerBox
    BY <1>2, <2>6 DEF InSequence
  <2> QED
    BY <2>5, <2>6, GroupFrame, QueryFrame, DeviceFrame DEF Event
<1> QED
  BY <1>1, <1>2

LEMMA GroupSequenceKept ==
    ASSUME Types, NoDuplicates, Records, Questions, InOrder, InSequence, AfterRecords,
           Event, NEW g \in Group, NEW k \in Number, NEW l \in Told', k < l,
           In(groupBox'[g], Record(k)), told'[l].group = g
    PROVE  Routing(l)' \/ Lost(l)'
<1>1. CASE l \notin Told
  BY <1>1, ToldStays DEF RecordTold, Plus, Routing
<1>2. CASE l \in Told
  <2>1. l \in Number /\ told[l].group = g
    BY <1>2, Members, ToldStays
  <2>2. In(groupBox[g], Record(k)) \/ In(managerBox, Record(k))
    <3>1. ASSUME NEW n \in Number, NEW h \in Group, RecordRouted(n, h)
          PROVE  In(groupBox[g], Record(k)) \/ In(managerBox, Record(k))
      BY <3>1, Apart DEF RecordRouted, Minus, Sends, Plus, Elsewhere
    <3>2. CASE ManagerEvent
      BY <3>1, <3>2, Apart DEF ManagerEvent, RecordTold, QuestionAsked, ShutdownTold,
         QuestionRouted, QuestionRefused, QuestionSlipped, ManagerDrained,
         ManagerStopped, Sends, Plus, Elsewhere
    <3> QED
      BY <3>2, GroupQueues
  <2>3. Routing(l) \/ Lost(l)
    BY <1>2, <2>1, <2>2 DEF InSequence, Routing
  <2>4. ~Delivered(l)
    <3> SUFFICES ASSUME NEW h \in Group, Takes(groupBox, groupBox', Group, h, Record(l)),
                        managerBox' = managerBox, GroupEvent
                 PROVE  FALSE
      BY <2>1, GroupFrame DEF Delivered, DeviceSpawned, RecordForwarded, GroupEvent
    <3>1. /\ In(groupBox[h], Record(l))
          /\ \A a : Ahead(groupBox[h], a, Record(l)) /\ a # Record(l) =>
                ~In(groupBox[h], a)
          /\ \A m : In(groupBox'[h], m) => In(groupBox[h], m)
          /\ Elsewhere(groupBox, groupBox', Group, h) /\ ~In(groupBox'[h], Record(l))
      BY DEF Takes, Minus, Within, NoDuplicates
    <3>2. h = g
      BY <2>1, <3>1 DEF Records
    <3>3. In(groupBox[g], Record(k)) /\ Record(k) # Record(l)
      BY <3>1, <3>2
    <3> QED
      BY <2>1, <3>1, <3>2, <3>3 DEF InOrder
  <2> QED
    BY <1>2, <2>3, <2>4, RoutedOn, LostForGood
<1> QED
  BY <1>1, <1>2

\* What a device has stored it had in its mailbox.
LEMMA StoredFromQueue ==
    ASSUME Types, Records, Event, NEW x \in Number, NEW k \in Number,
           device'[x].reading = k
    PROVE  /\ In(deviceBox[x], Record(k)) \/ device[x].reading = k
           /\ device[x].life # "unborn"
<1>1. k # None
  BY DEF Number, None
<1>2. device[x].reading # None => device[x].life # "unborn"
  BY DEF Records
<1>3. ASSUME NEW g \in Group, NEW n \in Number, DeviceSpawned(g, n)
      PROVE  device'[x].reading = device[x].reading
  BY <1>3 DEF DeviceSpawned, Elsewhere
<1>4. CASE ManagerEvent \/ QueryEvent
  BY <1>1, <1>2, <1>4, ManagerFrame, QueryFrame
<1>5. CASE GroupEvent
  BY <1>1, <1>2, <1>3, <1>5 DEF GroupEvent, RecordForwarded, QuerySpawned, DevicePruned,
     GroupStopped
<1>6. ASSUME NEW y \in Number, NEW n \in Number, RecordStored(y, n)
      PROVE  /\ In(deviceBox[x], Record(k)) \/ device[x].reading = k
             /\ device[x].life # "unborn"
  BY <1>1, <1>2, <1>6 DEF RecordStored, Takes, Minus, Elsewhere
<1>7. ASSUME NEW y \in Number, NEW n \in Number, DeviceRestarted(y, n)
      PROVE  /\ In(deviceBox[x], Record(k)) \/ device[x].reading = k
             /\ device[x].life # "unborn"
  BY <1>1, <1>2, <1>7 DEF DeviceRestarted, Elsewhere
<1>8. CASE DeviceEvent
  <2>1. CASE \/ \E y \in Number : DeviceClosed(y)
             \/ \E y \in Number : DeviceGone(y)
    <3>1. device'[x].reading = device[x].reading
      BY <2>1 DEF DeviceClosed, DeviceGone, Elsewhere
    <3> QED
      BY <1>1, <1>2, <3>1
  <2> QED
    BY <1>1, <1>2, <1>6, <1>7, <1>8, <2>1, Closed DEF DeviceEvent, DeviceReplied,
       GroupSignalled, QuerySignalled
<1> QED
  BY <1>4, <1>5, <1>8 DEF Event

LEMMA DeviceSequenceKept ==
    ASSUME Types, NoDuplicates, Registry, Records, Questions, InOrder, InSequence,
           AfterRecords, Event,
           NEW x \in Number, NEW k \in Number, NEW l \in Told',
           device'[x].life = "up", k < l, SameDevice(l, x)',
           In(deviceBox'[x], Record(k)) \/ device'[x].reading = k
    PROVE  In(deviceBox'[x], Record(l)) \/ Routing(l)' \/ Lost(l)'
<1>1. CASE l \notin Told
  BY <1>1, ToldStays DEF RecordTold, Plus, Routing
<1>2. CASE l \in Told
  <2>1. l \in Number /\ k # l
    <3>1. \A m \in Number : ~(m < m)
      BY DEF Number
    <3> QED
      BY <1>2, <3>1, Members
\* As long as an earlier one of the group is not delivered.
  <2>2. ASSUME NEW g \in Group, In(groupBox[g], Record(k)), told[l].group = g
        PROVE  ~Delivered(l)
    <3>1. ASSUME NEW h \in Group, Takes(groupBox, groupBox', Group, h, Record(l))
          PROVE  FALSE
      <4>1. h = g
        <5>1. In(groupBox[h], Record(l))
          BY <3>1 DEF Takes, Minus
        <5> QED
          BY <2>1, <2>2, <5>1 DEF Records
      <4>2. Ahead(groupBox[g], Record(k), Record(l))
        BY <2>1 DEF InOrder
      <4> QED
        BY <2>1, <2>2, <3>1, <4>1, <4>2, Apart DEF Takes, Minus
    <3> QED
      BY <3>1 DEF Delivered, DeviceSpawned, RecordForwarded
  <2>3. CASE \E g \in Group : DeviceSpawned(g, k) /\ x = k
    <3>1. PICK g \in Group : DeviceSpawned(g, k) /\ x = k
      BY <2>3
    <3>2. /\ In(groupBox[g], Record(k)) /\ told' = told
          /\ Takes(groupBox, groupBox', Group, g, Record(k))
      BY <3>1 DEF DeviceSpawned, Takes, Minus
    <3>3. told[l].group = g /\ k \in Told
      BY <3>1, <3>2 DEF Records, SameDevice
    <3>4. Routing(l) \/ Lost(l)
      BY <1>2, <3>2, <3>3 DEF InSequence
    <3>5. ~Delivered(l)
      BY <2>2, <3>2, <3>3
    <3> QED
      BY <1>2, <3>4, <3>5, RoutedOn, LostForGood
  <2>4. CASE \E g \in Group : RecordForwarded(g, k, x)
    <3>1. PICK g \in Group : RecordForwarded(g, k, x)
      BY <2>4
    <3>2. /\ In(groupBox[g], Record(k)) /\ told' = told /\ SameDevice(x, k)
          /\ Takes(groupBox, groupBox', Group, g, Record(k))
      BY <3>1 DEF RecordForwarded, Takes, Minus
    <3>3. told[l].group = g /\ k \in Told
      BY <3>2 DEF Records, SameDevice
    <3>4. Routing(l) \/ Lost(l)
      BY <1>2, <3>2, <3>3 DEF InSequence
    <3>5. ~Delivered(l)
      BY <2>2, <3>2, <3>3
    <3> QED
      BY <1>2, <3>4, <3>5, RoutedOn, LostForGood
  <2>5. CASE /\ ~\E g \in Group : DeviceSpawned(g, k) /\ x = k
             /\ ~\E g \in Group : RecordForwarded(g, k, x)
    <3>1. In(deviceBox[x], Record(k)) \/ device[x].reading = k
      BY <2>5, DeviceQueues, StoredFromQueue
    <3>2. /\ device[x].life = "up" /\ x \in Told /\ SameDevice(l, x)
      <4>1. deviceBox[x] # <<>> \/ device[x].life # "unborn"
        <5>1. CASE In(deviceBox[x], Record(k))
          BY <5>1, Emptied
        <5>2. CASE device[x].reading = k
          <6>1. k # None
            BY DEF Number, None
          <6> QED
            BY <5>2, <6>1 DEF Records
        <5> QED
          BY <3>1, <5>1, <5>2
      <4>2. device[x].life # "unborn" /\ x \in Told
        BY <4>1 DEF Records, Registry
      <4>3. device[x].life = "up"
        <5>1. CASE ManagerEvent \/ QueryEvent
          BY <5>1, ManagerFrame, QueryFrame
        <5>2. CASE GroupEvent
          <6>1. ASSUME NEW g \in Group, NEW n \in Number, DeviceSpawned(g, n)
                PROVE  device[x].life = "up"
            <7>1. In(groupBox[g], Record(n)) /\ Elsewhere(device, device', Number, n)
              BY <6>1 DEF DeviceSpawned, Takes, Minus
            <7>2. device[n].life = "unborn"
              BY <7>1 DEF Records
            <7> QED
              BY <4>2, <7>1, <7>2 DEF Elsewhere
          <6> QED
            BY <5>2, <6>1 DEF GroupEvent, RecordForwarded, QuerySpawned, DevicePruned,
               GroupStopped
        <5>3. CASE DeviceEvent
          BY <5>3, Closed DEF DeviceEvent, RecordStored, DeviceRestarted, DeviceClosed,
             DeviceReplied, DeviceGone, GroupSignalled, QuerySignalled, Elsewhere
        <5> QED
          BY <5>1, <5>2, <5>3 DEF Event
      <4> QED
        BY <1>2, <4>2, <4>3, ToldStays
    <3>3. In(deviceBox[x], Record(l)) \/ Routing(l) \/ Lost(l)
      BY <1>2, <3>1, <3>2 DEF InSequence
    <3>4. CASE Delivered(l)
      <4>1. ASSUME NEW g \in Group, DeviceSpawned(g, l) PROVE In(deviceBox'[x], Record(l))
        <5>1. /\ In(groupBox[g], Record(l))
              /\ \A y \in devices[g] : ~SameDevice(y, l)
          BY <4>1 DEF DeviceSpawned, Takes, Minus
        <5>2. x \in devices[told[x].group] /\ told[l].group = g
          BY <2>1, <3>2, <5>1 DEF Registry, Records
        <5> QED
          BY <3>2, <5>1, <5>2 DEF SameDevice
      <4>2. ASSUME NEW g \in Group, NEW y \in Number, RecordForwarded(g, l, y)
            PROVE  In(deviceBox'[x], Record(l))
        <5>1. /\ In(groupBox[g], Record(l))
              /\ y \in devices[g] /\ SameDevice(y, l)
          BY <4>2 DEF RecordForwarded, Takes, Minus
        <5>2. x \in devices[told[x].group] /\ told[l].group = g
          BY <2>1, <3>2, <5>1 DEF Registry, Records
        <5>3. x = y
          BY <3>2, <5>1, <5>2 DEF Registry, SameDevice
        <5> QED
          BY <3>2, <4>2, <5>3 DEF RecordForwarded, Sends, Plus
      <4> QED
        BY <3>4, <4>1, <4>2 DEF Delivered
    <3>5. CASE ~Delivered(l) /\ ~In(deviceBox[x], Record(l))
      BY <1>2, <3>3, <3>5, RoutedOn, LostForGood
    <3>6. CASE In(deviceBox[x], Record(l))
      <4>1. ASSUME NEW m, Takes(deviceBox, deviceBox', Number, x, m), m # Record(l)
            PROVE  In(deviceBox'[x], Record(l))
        BY <3>6, <4>1 DEF Takes, Minus
      <4>2. ASSUME Takes(deviceBox, deviceBox', Number, x, Record(l)),
                   In(deviceBox'[x], Record(k))
            PROVE  FALSE
        <5>1. Ahead(deviceBox[x], Record(k), Record(l)) /\ In(deviceBox[x], Record(k))
          BY <2>1, <4>2 DEF InOrder, Takes, Minus, Within
        <5> QED
          BY <2>1, <4>2, <5>1, Apart DEF Takes, Minus
      <4>3. ASSUME deviceBox'[x] = deviceBox[x] PROVE In(deviceBox'[x], Record(l))
        BY <3>6, <4>3
      <4>4. CASE GroupEvent
        <5>1. ASSUME NEW g \in Group, NEW n \in Number, DeviceSpawned(g, n)
              PROVE  In(deviceBox'[x], Record(l))
          <6>1. /\ In(groupBox[g], Record(n))
                /\ Elsewhere(deviceBox, deviceBox', Number, n)
            BY <5>1 DEF DeviceSpawned, Takes, Minus
          <6>2. n # x
            BY <3>2, <6>1 DEF Records
          <6> QED
            BY <3>6, <6>1, <6>2 DEF Elsewhere
        <5>2. ASSUME NEW g \in Group, NEW n \in Number, NEW y \in Number,
                     RecordForwarded(g, n, y)
              PROVE  In(deviceBox'[x], Record(l))
          BY <3>6, <5>2 DEF RecordForwarded, Sends, Plus, Elsewhere
        <5> QED
          BY <4>3, <4>4, <5>1, <5>2 DEF GroupEvent, QuerySpawned, DevicePruned, GroupStopped
      <4>5. CASE QueryEvent
        <5>1. CASE \E i \in Ask : \E y \in Number : DeviceAsked(i, y)
          BY <3>6, <5>1 DEF DeviceAsked, Sends, Plus, Elsewhere
        <5> QED
          BY <4>3, <4>5, <5>1, Ended DEF QueryEvent, QueryBegun, QueryEnded,
             ReadingCollected, DeviceGivenUp, DeviceDone, SignalIgnored
      <4>6. CASE DeviceEvent
        <5>1. ASSUME NEW y \in Number, NEW n \in Number, RecordStored(y, n)
              PROVE  In(deviceBox'[x], Record(l))
          <6>1. CASE x # y
            BY <4>3, <5>1, <6>1 DEF RecordStored, Takes, Elsewhere
          <6>2. CASE x = y /\ n # l
            BY <4>1, <5>1, <6>2, Apart DEF RecordStored
          <6>3. CASE x = y /\ n = l
            BY <2>1, <4>2, <5>1, <6>3 DEF RecordStored
          <6> QED
            BY <6>1, <6>2, <6>3
        <5>2. ASSUME NEW y \in Number, NEW n \in Number, DeviceRestarted(y, n)
              PROVE  In(deviceBox'[x], Record(l))
          <6>1. CASE x # y
            BY <4>3, <5>2, <6>1 DEF DeviceRestarted, Takes, Elsewhere
          <6>2. CASE x = y /\ n # l
            BY <4>1, <5>2, <6>2, Apart DEF DeviceRestarted
          <6>3. CASE x = y /\ n = l
            <7>1. k # None
              BY DEF Number, None
            <7> QED
              BY <2>1, <4>2, <5>2, <6>3, <7>1 DEF DeviceRestarted
          <6> QED
            BY <6>1, <6>2, <6>3
        <5>3. ASSUME NEW y \in Number, DeviceClosed(y)
              PROVE  In(deviceBox'[x], Record(l))
          BY <4>3, <5>3 DEF DeviceClosed, Elsewhere
        <5>4. ASSUME NEW y \in Number, NEW i \in Ask, DeviceReplied(y, i)
              PROVE  In(deviceBox'[x], Record(l))
          <6>1. Takes(deviceBox, deviceBox', Number, y, Read(i))
            BY <5>4 DEF DeviceReplied
          <6>2. CASE x = y
            BY <4>1, <6>1, <6>2, Apart
          <6>3. CASE x # y
            BY <4>3, <6>1, <6>3 DEF Takes, Elsewhere
          <6> QED
            BY <6>2, <6>3
        <5> QED
          BY <4>3, <4>6, <5>1, <5>2, <5>3, <5>4, Closed DEF DeviceEvent, DeviceGone,
             GroupSignalled, QuerySignalled
      <4> QED
        BY <4>3, <4>4, <4>5, <4>6, ManagerFrame DEF Event
    <3> QED
      BY <3>4, <3>5, <3>6
  <2> QED
    BY <2>3, <2>4, <2>5
<1> QED
  BY <1>1, <1>2

LEMMA InSequenceKept ==
    ASSUME Types, NoDuplicates, Registry, Records, Questions, InOrder, InSequence,
           AfterRecords, Event
    PROVE  InSequence'
<1>1. \A k \in Number : \A l \in Told' :
         k < l /\ In(managerBox', Record(k)) => In(managerBox', Record(l))
  BY ManagerSequenceKept
<1>2. \A g \in Group : \A k \in Number : \A l \in Told' :
         k < l /\ In(groupBox'[g], Record(k)) /\ told'[l].group = g =>
            Routing(l)' \/ Lost(l)'
  BY GroupSequenceKept
<1>3. \A x, k \in Number : \A l \in Told' :
         /\ device'[x].life = "up" /\ k < l /\ SameDevice(l, x)'
         /\ In(deviceBox'[x], Record(k)) \/ device'[x].reading = k
         => In(deviceBox'[x], Record(l)) \/ Routing(l)' \/ Lost(l)'
  BY DeviceSequenceKept
<1> QED
  BY <1>1, <1>2, <1>3 DEF InSequence

\* What was told before a question does not change once it is asked.
LEMMA SinceStays ==
    ASSUME Types, Questions, Event, NEW i \in Ask, ~QuestionAsked(i)
    PROVE  /\ asked'[i].since = asked[i].since
           /\ \A l \in 1 .. asked[i].since : l \in Told /\ l \in Number
<1>1. asked'[i].since = asked[i].since
  <2>1. CASE ManagerEvent
    BY <2>1 DEF ManagerEvent, RecordTold, QuestionAsked, ShutdownTold, RecordRouted,
       QuestionRouted, QuestionRefused, QuestionSlipped, ManagerDrained,
       ManagerStopped, Dropped, Elsewhere
  <2>2. CASE GroupEvent
    BY <2>2 DEF GroupEvent, DeviceSpawned, RecordForwarded, QuerySpawned, DevicePruned,
       GroupStopped, Dropped
  <2>3. CASE QueryEvent
    BY <2>3, Ended DEF QueryEvent, QueryBegun, QueryEnded, DeviceAsked,
       ReadingCollected, DeviceGivenUp, DeviceDone, SignalIgnored, Elsewhere
  <2>4. CASE DeviceEvent
    BY <2>4, DeviceFrame
  <2> QED
    BY <2>1, <2>2, <2>3, <2>4 DEF Event
<1>2. ASSUME NEW l \in 1 .. asked[i].since PROVE l \in Told /\ l \in Number
  <2>1. /\ asked[i].since \in 0 .. MaxRecords /\ asked[i].since <= Len(told)
        /\ Len(told) \in Nat
    BY LenProperties DEF Types, Question, Questions
  <2>2. \A s \in 0 .. MaxRecords : \A n \in Nat : \A m \in 1 .. s :
           s <= n => m \in 1 .. n
    OBVIOUS
  <2> QED
    BY <2>1, <2>2, Members DEF Told
<1> QED
  BY <1>1, <1>2

\* A query that has stopped does not go on.
LEMMA StoppedStays ==
    ASSUME Types, Questions, Event, NEW i \in Ask, query[i].phase = "stopped"
    PROVE  query'[i].phase = "stopped"
<1>1. ASSUME NEW g \in Group, NEW j \in Ask, QuerySpawned(g, j)
      PROVE  query'[i] = query[i]
  <2>1. In(groupBox[g], Average(j)) /\ Elsewhere(query, query', Ask, j)
    BY <1>1 DEF QuerySpawned, Takes, Minus
  <2>2. ~Started(j)
    BY <2>1 DEF Questions
  <2> QED
    BY <2>1, <2>2 DEF Started, Elsewhere
<1>2. CASE GroupEvent
  BY <1>1, <1>2 DEF GroupEvent, DeviceSpawned, RecordForwarded, DevicePruned,
     GroupStopped
<1>3. CASE QueryEvent
  BY <1>3, Ended DEF QueryEvent, QueryBegun, QueryEnded, DeviceAsked,
     ReadingCollected, DeviceGivenUp, DeviceDone, SignalIgnored, Elsewhere
<1> QED
  BY <1>2, <1>3, ManagerFrame, DeviceFrame DEF Event

LEMMA AfterRecordsAsked ==
    ASSUME Types, Questions, Phases, NEW i \in Ask, QuestionAsked(i), NEW l \in Number
    PROVE  /\ Ahead(managerBox', Record(l), Average(i))
           /\ \A g \in Group : ~In(groupBox'[g], Average(i))
           /\ ~Started(i)'
           /\ \A x \in Number : Ahead(deviceBox'[x], Record(l), Read(i))
<1>1. /\ asked[i].status = "unasked"
      /\ Plus(managerBox, managerBox', Average(i))
      /\ UNCHANGED <<groupBox, query, deviceBox>>
  BY DEF QuestionAsked
<1>2. /\ ~In(managerBox, Average(i)) /\ ~Started(i)
      /\ \A g \in Group : ~In(groupBox[g], Average(i))
  BY <1>1 DEF Questions
<1>3. \A x \in Number : ~In(deviceBox[x], Read(i))
  BY <1>2 DEF Phases
<1>4. Ahead(managerBox', Record(l), Average(i))
  <2>1. Ahead(managerBox, Record(l), Average(i))
    BY <1>2, Unordered
  <2> QED
    BY <1>1, <2>1, Apart DEF Plus
<1> QED
  BY <1>1, <1>2, <1>3, <1>4, Unordered DEF Started

LEMMA AfterRecordsInManager ==
    ASSUME Types, Questions, AfterRecords, Event,
           NEW i \in Ask, NEW l \in 1 .. asked[i].since, l \in Told, l \in Number
    PROVE  Ahead(managerBox', Record(l), Average(i))
<1>1. Ahead(managerBox, Record(l), Average(i))
  BY DEF AfterRecords
<1>2. ASSUME NEW m, Plus(managerBox, managerBox', m), m # Record(l)
      PROVE  Ahead(managerBox', Record(l), Average(i))
  BY <1>1, <1>2 DEF Plus
<1>3. ASSUME NEW n \in Number, RecordTold(n)
      PROVE  Ahead(managerBox', Record(l), Average(i))
  BY <1>2, <1>3, Apart DEF RecordTold
<1>4. ASSUME Within(managerBox, managerBox')
      PROVE  Ahead(managerBox', Record(l), Average(i))
  BY <1>1, <1>4 DEF Within
<1>5. CASE ManagerEvent
  BY <1>2, <1>3, <1>4, <1>5, Apart, Emptied DEF ManagerEvent, QuestionAsked,
     ShutdownTold, RecordRouted, QuestionRouted, QuestionRefused, QuestionSlipped,
     ManagerDrained, ManagerStopped, Minus
<1> QED
  BY <1>1, <1>5, GroupFrame, QueryFrame, DeviceFrame DEF Event

LEMMA AfterRecordsInGroups ==
    ASSUME Types, Questions, AfterRecords, Event,
           NEW i \in Ask, NEW l \in 1 .. asked[i].since, l \in Told, l \in Number,
           NEW g \in Group, In(groupBox'[g], Average(i))
    PROVE  /\ ~In(managerBox', Record(l))
           /\ Ahead(groupBox'[g], Record(l), Average(i))
<1>1. ~In(managerBox, Record(l)) => ~In(managerBox', Record(l))
  <2>1. ASSUME NEW n \in Number, RecordTold(n), ~In(managerBox, Record(l))
        PROVE  ~In(managerBox', Record(l))
    BY <2>1, Apart DEF RecordTold, Plus
  <2>2. CASE ManagerEvent
    BY <2>1, <2>2, Apart, Emptied DEF ManagerEvent, QuestionAsked, ShutdownTold,
       RecordRouted, QuestionRouted, QuestionRefused, QuestionSlipped,
       ManagerDrained, ManagerStopped, Plus, Minus, Within
  <2> QED
    BY <2>2, GroupFrame, QueryFrame, DeviceFrame DEF Event
<1>2. CASE In(groupBox[g], Average(i))
  <2>1. ~In(managerBox, Record(l)) /\ Ahead(groupBox[g], Record(l), Average(i))
    BY <1>2 DEF AfterRecords
  <2>2. ASSUME NEW n \in Number, NEW h \in Group, RecordRouted(n, h)
        PROVE  Ahead(groupBox'[g], Record(l), Average(i))
    <3>1. Record(n) # Record(l)
      BY <2>1, <2>2 DEF RecordRouted, Minus
    <3> QED
      BY <2>1, <2>2, <3>1 DEF RecordRouted, Sends, Plus, Elsewhere
  <2>3. ASSUME NEW j \in Ask, NEW h \in Group, QuestionRouted(j, h)
        PROVE  Ahead(groupBox'[g], Record(l), Average(i))
    BY <2>1, <2>3, Apart DEF QuestionRouted, Sends, Plus, Elsewhere
  <2>4. CASE groupBox' = groupBox
    BY <1>1, <2>1, <2>4
  <2>5. CASE ManagerEvent
    BY <1>1, <2>1, <2>2, <2>3, <2>4, <2>5 DEF ManagerEvent, RecordTold, QuestionAsked,
       ShutdownTold, QuestionRefused, QuestionSlipped, ManagerDrained, ManagerStopped
  <2> QED
    BY <1>1, <2>1, <2>5, GroupQueues
<1>3. CASE ~In(groupBox[g], Average(i))
  <2>1. ManagerEvent
    BY <1>3, GroupQueues
  <2>2. QuestionRouted(i, g)
    <3>1. ASSUME NEW j \in Ask, NEW h \in Group, QuestionRouted(j, h)
          PROVE  QuestionRouted(i, g)
      <4>1. Sends(groupBox, groupBox', Group, h, Average(j))
        BY <3>1 DEF QuestionRouted
      <4>2. g = h /\ j = i
        BY <1>3, <4>1, Apart DEF Sends, Plus, Elsewhere
      <4> QED
        BY <3>1, <4>2
    <3>2. ASSUME NEW n \in Number, NEW h \in Group, RecordRouted(n, h) PROVE FALSE
      BY <1>3, <3>2, Apart DEF RecordRouted, Sends, Plus, Elsewhere
    <3>3. ASSUME groupBox' = groupBox PROVE FALSE
      BY <1>3, <3>3
    <3> QED
      BY <2>1, <3>1, <3>2, <3>3 DEF ManagerEvent, RecordTold, QuestionAsked,
         ShutdownTold, QuestionRefused, QuestionSlipped, ManagerDrained,
         ManagerStopped
  <2>3. /\ Ahead(managerBox, Record(l), Average(i))
        /\ Minus(managerBox, managerBox', Average(i))
        /\ Plus(groupBox[g], groupBox'[g], Average(i))
    BY <2>2 DEF AfterRecords, QuestionRouted, Sends
  <2>4. ~In(managerBox, Record(l))
    BY <2>3, Apart DEF Minus
  <2>5. Ahead(groupBox[g], Record(l), Average(i))
    BY <1>3, Unordered
  <2> QED
    BY <1>1, <2>3, <2>4, <2>5, Apart DEF Plus
<1> QED
  BY <1>2, <1>3

LEMMA AfterRecordsOnceStarted ==
    ASSUME Types, Questions, AfterRecords, Event,
           NEW i \in Ask, NEW l \in 1 .. asked[i].since, l \in Told,
           Started(i)', told[l].group = asked[i].group
    PROVE  ~Routing(l)'
<1>1. CASE Started(i)
  BY <1>1, NotRoutedAgain DEF AfterRecords
<1>2. CASE ~Started(i)
  <2>1. PICK g \in Group : QuerySpawned(g, i)
    <3>1. CASE GroupEvent
      BY <1>2, <3>1 DEF GroupEvent, DeviceSpawned, RecordForwarded, QuerySpawned,
         DevicePruned, GroupStopped, Started, Elsewhere
    <3>2. CASE QueryEvent
      BY <1>2, <3>2, Ended DEF QueryEvent, QueryBegun, QueryEnded, DeviceAsked,
         ReadingCollected, DeviceGivenUp, DeviceDone, SignalIgnored, Started, Elsewhere
    <3> QED
      BY <1>2, <3>1, <3>2, ManagerFrame, DeviceFrame DEF Event, Started
  <2>2. /\ In(groupBox[g], Average(i))
        /\ \A a : Ahead(groupBox[g], a, Average(i)) /\ a # Average(i) =>
              ~In(groupBox[g], a)
    BY <2>1 DEF QuerySpawned, Takes, Minus
  <2>3. /\ ~In(managerBox, Record(l)) /\ Ahead(groupBox[g], Record(l), Average(i))
        /\ asked[i].group = g
    BY <2>2 DEF AfterRecords, Questions
  <2>4. ~Routing(l)
    BY <2>2, <2>3, Apart DEF Routing
  <2> QED
    BY <2>4, NotRoutedAgain
<1> QED
  BY <1>1, <1>2

LEMMA AfterRecordsInDevices ==
    ASSUME Types, Registry, Records, Questions, AfterRecords, Phases, Readings, Event,
           NEW i \in Ask, NEW l \in 1 .. asked[i].since, l \in Told, l \in Number,
           query[i].phase # "stopped", NEW x \in Number
    PROVE  Ahead(deviceBox'[x], Record(l), Read(i))
<1>1. Ahead(deviceBox[x], Record(l), Read(i))
  BY DEF AfterRecords
<1>2. CASE deviceBox' = deviceBox
  BY <1>1, <1>2
<1>3. ASSUME NEW y \in Number, NEW m, Takes(deviceBox, deviceBox', Number, y, m)
      PROVE  Ahead(deviceBox'[x], Record(l), Read(i))
  BY <1>1, <1>3 DEF Takes, Minus, Within, Elsewhere
<1>4. ASSUME NEW g \in Group, NEW n \in Number, DeviceSpawned(g, n)
      PROVE  Ahead(deviceBox'[x], Record(l), Read(i))
  <2>1. deviceBox'[n] = <<Record(n)>> /\ Elsewhere(deviceBox, deviceBox', Number, n)
    BY <1>4 DEF DeviceSpawned
  <2>2. Ahead(<<Record(n)>>, Record(l), Read(i))
    BY Kinds, Alone, Apart
  <2> QED
    BY <1>1, <2>1, <2>2 DEF Elsewhere
<1>5. ASSUME NEW g \in Group, NEW n \in Number, NEW y \in Number,
             RecordForwarded(g, n, y)
      PROVE  Ahead(deviceBox'[x], Record(l), Read(i))
  <2>1. CASE device[y].life = "up" /\ x = y
    <3>1. /\ Plus(deviceBox[x], deviceBox'[x], Record(n))
          /\ In(groupBox[g], Record(n)) /\ SameDevice(x, n)
      BY <1>5, <2>1 DEF RecordForwarded, Sends, Takes, Minus
    <3>2. CASE In(deviceBox[x], Read(i)) /\ n = l
      <4>1. x \in query[i].pending /\ told[n].group = g
        BY <3>1, <3>2 DEF Readings, ReadingsOf, Asking, Records
      <4>2. told[x].group = asked[i].group
        BY <4>1 DEF Phases
      <4>3. Started(i)
        BY <3>2 DEF Phases
      <4>4. told[l].group = asked[i].group
        BY <3>1, <3>2, <4>2 DEF SameDevice
      <4>5. ~Routing(l)
        BY <4>3, <4>4 DEF AfterRecords
      <4> QED
        BY <3>1, <3>2, <4>1, <4>5 DEF Routing
    <3>3. CASE ~(In(deviceBox[x], Read(i)) /\ n = l)
      BY <1>1, <3>1, <3>3, Apart DEF Plus
    <3> QED
      BY <3>2, <3>3
  <2>2. CASE ~(device[y].life = "up" /\ x = y)
    BY <1>1, <1>5, <2>2 DEF RecordForwarded, Sends, Elsewhere
  <2> QED
    BY <2>1, <2>2
<1>6. CASE GroupEvent
  BY <1>2, <1>4, <1>5, <1>6 DEF GroupEvent, QuerySpawned, DevicePruned, GroupStopped
<1>7. CASE QueryEvent
  <2>1. CASE \E j \in Ask : \E y \in Number : DeviceAsked(j, y)
    BY <1>1, <2>1, Apart DEF DeviceAsked, Sends, Plus, Elsewhere
  <2> QED
    BY <1>2, <1>7, <2>1, Ended DEF QueryEvent, QueryBegun, QueryEnded,
       ReadingCollected, DeviceGivenUp, DeviceDone, SignalIgnored
<1>8. ASSUME NEW y \in Number, DeviceClosed(y)
      PROVE  Ahead(deviceBox'[x], Record(l), Read(i))
  <2>1. \A m : ~In(deviceBox'[y], m)
    BY <1>8, Emptied DEF DeviceClosed
  <2> QED
    BY <1>1, <1>8, <2>1, Unordered DEF DeviceClosed, Elsewhere
<1>9. CASE DeviceEvent
  BY <1>2, <1>3, <1>8, <1>9, Closed DEF DeviceEvent, RecordStored, DeviceRestarted,
     DeviceReplied, DeviceGone, GroupSignalled, QuerySignalled
<1> QED
  BY <1>2, <1>6, <1>7, <1>9, ManagerFrame DEF Event

LEMMA AfterRecordsKept ==
    ASSUME Types, Types', Registry, Records, Questions, AfterRecords, Phases, Readings,
           Event
    PROVE  AfterRecords'
<1> SUFFICES ASSUME NEW i \in Ask, NEW l \in 1 .. asked'[i].since
             PROVE  /\ Ahead(managerBox', Record(l), Average(i))
                    /\ \A g \in Group : In(groupBox'[g], Average(i)) =>
                          /\ ~In(managerBox', Record(l))
                          /\ Ahead(groupBox'[g], Record(l), Average(i))
                    /\ Started(i)' /\ told'[l].group = asked'[i].group => ~Routing(l)'
                    /\ query'[i].phase # "stopped" =>
                          \A x \in Number : Ahead(deviceBox'[x], Record(l), Read(i))
  BY DEF AfterRecords
<1>1. CASE QuestionAsked(i)
  <2>1. l \in Number
    <3>1. asked'[i].since \in 0 .. MaxRecords
      BY DEF Types, Question
    <3>2. \A s \in 0 .. MaxRecords : \A m \in 1 .. s : m \in 1 .. MaxRecords
      OBVIOUS
    <3> QED
      BY <3>1, <3>2 DEF Number
  <2> QED
    BY <1>1, <2>1, AfterRecordsAsked
<1>2. CASE ~QuestionAsked(i)
  <2>1. l \in 1 .. asked[i].since /\ l \in Told /\ l \in Number
    BY <1>2, SinceStays
  <2>2. told'[l] = told[l] /\ asked'[i].group = asked[i].group
    BY <2>1, ToldStays, QuestionFrame
  <2>3. Ahead(managerBox', Record(l), Average(i))
    BY <2>1, AfterRecordsInManager
  <2>4. \A g \in Group : In(groupBox'[g], Average(i)) =>
           /\ ~In(managerBox', Record(l))
           /\ Ahead(groupBox'[g], Record(l), Average(i))
    BY <2>1, AfterRecordsInGroups
  <2>5. Started(i)' /\ told'[l].group = asked'[i].group => ~Routing(l)'
    BY <2>1, <2>2, AfterRecordsOnceStarted
  <2>6. query'[i].phase # "stopped" =>
           \A x \in Number : Ahead(deviceBox'[x], Record(l), Read(i))
    BY <2>1, StoppedStays, AfterRecordsInDevices
  <2> QED
    BY <2>3, <2>4, <2>5, <2>6
<1> QED
  BY <1>1, <1>2

-----------------------------------------------------------------------------
(***************************************************************************)
(* What is counted.                                                         *)
(***************************************************************************)

\* A reading of an incarnation that an answer to the question may count.
Fresh(i, x, k) ==
    /\ k \in Told
    /\ told[k].valid
    /\ SameDevice(k, x)
    /\ \A l \in 1 .. asked[i].since : SameDevice(l, x) => l <= k

FreshSet(i, counted) ==
    /\ \A k \in counted : Fresh(i, k, k)
    /\ \A k, l \in counted : SameDevice(k, l) => k = l

Freshness ==
    /\ \A i \in Ask : \A x, k \in Number :
          In(queryBox[i], Reading(x, k)) => Fresh(i, x, k)
    /\ \A i \in Ask : FreshSet(i, query[i].counted)
    /\ \A i \in Ask : \A x \in query[i].todo \cup query[i].pending :
          \A k \in query[i].counted : ~SameDevice(x, k)
    /\ \A i \in Ask : FreshSet(i, asked[i].counted)
    /\ \A i \in Ask : asked[i].status = "unasked" => asked[i].counted = {}

LEMMA FreshStays ==
    ASSUME Types, Questions, Event, NEW i \in Ask, ~QuestionAsked(i)
    PROVE  /\ \A x \in Told : \A k : Fresh(i, x, k) => Fresh(i, x, k)'
           /\ \A counted : FreshSet(i, counted) => FreshSet(i, counted)'
<1>1. /\ asked'[i].since = asked[i].since
      /\ \A l \in 1 .. asked[i].since : l \in Told
  BY SinceStays
<1>2. /\ Told \subseteq Told' /\ \A k \in Told : told'[k] = told[k]
      /\ \A k, l \in Told : SameDevice(k, l)' <=> SameDevice(k, l)
  BY ToldStays
<1>3. \A x \in Told : \A k : Fresh(i, x, k) => Fresh(i, x, k)'
  BY <1>1, <1>2 DEF Fresh
<1>4. \A counted : FreshSet(i, counted) => \A k \in counted : k \in Told
  BY DEF FreshSet, Fresh
<1>5. \A counted : FreshSet(i, counted) => FreshSet(i, counted)'
  BY <1>2, <1>3, <1>4 DEF FreshSet
<1> QED
  BY <1>3, <1>5

\* A reading is in the mailbox of a query because its device has replied.
LEMMA ReadingsFromDevices ==
    ASSUME Event, NEW i \in Ask, NEW x \in Number, NEW k \in {None} \cup Number,
           In(queryBox'[i], Reading(x, k))
    PROVE  \/ In(queryBox[i], Reading(x, k))
           \/ /\ DeviceReplied(x, i) /\ query[i].phase # "stopped"
              /\ k = device[x].reading
<1>1. CASE queryBox' = queryBox
  BY <1>1
<1>2. ASSUME NEW j \in Ask, NEW m, Takes(queryBox, queryBox', Ask, j, m)
      PROVE  In(queryBox[i], Reading(x, k))
  BY <1>2 DEF Takes, Minus, Within, Elsewhere
<1>3. ASSUME NEW j \in Ask, NEW y, Sends(queryBox, queryBox', Ask, j, Terminated(y))
      PROVE  In(queryBox[i], Reading(x, k))
  BY <1>3, Apart DEF Sends, Plus, Elsewhere
<1>4. ASSUME NEW g \in Group, NEW j \in Ask, QuerySpawned(g, j)
      PROVE  In(queryBox[i], Reading(x, k))
  <2>1. queryBox'[j] = <<Start>> /\ Elsewhere(queryBox, queryBox', Ask, j)
    BY <1>4 DEF QuerySpawned
  <2>2. ~In(queryBox'[j], Reading(x, k))
    BY <2>1, Kinds, Alone, Apart
  <2> QED
    BY <2>1, <2>2 DEF Elsewhere
<1>5. CASE GroupEvent
  BY <1>1, <1>4, <1>5 DEF GroupEvent, DeviceSpawned, RecordForwarded, DevicePruned,
     GroupStopped
<1>6. ASSUME NEW j \in Ask, Ending(j) PROVE In(queryBox[i], Reading(x, k))
  BY <1>6, Ended, Emptied DEF QueryEnded, Elsewhere
<1>7. CASE QueryEvent
  BY <1>1, <1>2, <1>3, <1>6, <1>7 DEF QueryEvent, QueryBegun, DeviceAsked,
     ReadingCollected, DeviceGivenUp, SignalIgnored
<1>8. ASSUME NEW y \in Number, NEW j \in Ask, DeviceReplied(y, j)
      PROVE  \/ In(queryBox[i], Reading(x, k))
             \/ /\ DeviceReplied(x, i) /\ query[i].phase # "stopped"
                /\ k = device[x].reading
  <2>1. CASE query[j].phase = "stopped"
    BY <1>1, <1>8, <2>1 DEF DeviceReplied
  <2>2. CASE query[j].phase # "stopped"
    <3>1. Sends(queryBox, queryBox', Ask, j, Reading(y, device[y].reading))
      BY <1>8, <2>2 DEF DeviceReplied
    <3>2. \/ In(queryBox[i], Reading(x, k))
          \/ i = j /\ Reading(x, k) = Reading(y, device[y].reading)
      BY <3>1 DEF Sends, Plus, Elsewhere
    <3> QED
      BY <1>8, <2>2, <3>2, Apart
  <2> QED
    BY <2>1, <2>2
<1>9. CASE DeviceEvent
  BY <1>1, <1>3, <1>8, <1>9, Closed DEF DeviceEvent, RecordStored, DeviceRestarted,
     DeviceClosed, DeviceGone, GroupSignalled, QuerySignalled
<1> QED
  BY <1>1, <1>5, <1>7, <1>9, ManagerFrame DEF Event

\* A device replies with the last record told before the question, or a later one.
LEMMA RepliesAreFresh ==
    ASSUME Types, Records, Questions, InSequence, AfterRecords, Phases, Readings,
           NEW x \in Number, NEW i \in Ask, DeviceReplied(x, i),
           query[i].phase # "stopped", device[x].reading \in Number
    PROVE  Fresh(i, x, device[x].reading)
<1> DEFINE k == device[x].reading
<1>1. /\ device[x].life = "up" /\ Asking(i, x) /\ k \in Number /\ k # None
      /\ \A a : Ahead(deviceBox[x], a, Read(i)) /\ a # Read(i) => ~In(deviceBox[x], a)
  BY DEF DeviceReplied, Takes, Minus, Asking, Number, None
<1>2. k \in Told /\ told[k].valid /\ SameDevice(k, x)
  BY <1>1 DEF Records
<1>3. /\ x \in query[i].pending
      /\ told[x].group = asked[i].group
  BY <1>1 DEF Readings, ReadingsOf, Phases
<1>4. Started(i)
  BY <1>1 DEF Phases, Asking
<1> HIDE DEF k
<1>5. ASSUME NEW l \in 1 .. asked[i].since, SameDevice(l, x) PROVE l <= k
  <2>1. l \in Told /\ l \in Number
    <3>1. /\ asked[i].since \in 0 .. MaxRecords /\ asked[i].since <= Len(told)
          /\ Len(told) \in Nat
      BY LenProperties DEF Types, Question, Questions
    <3>2. \A s \in 0 .. MaxRecords : \A n \in Nat : \A m \in 1 .. s :
             s <= n => m \in 1 .. n
      OBVIOUS
    <3> QED
      BY <3>1, <3>2, Members DEF Told
  <2>2. told[l].group = asked[i].group
    BY <1>3, <1>5 DEF SameDevice
  <2>3. ~Routing(l)
    BY <1>4, <2>2 DEF AfterRecords
  <2>4. ~In(deviceBox[x], Record(l))
    BY <1>1, Apart DEF AfterRecords
  <2>5. ~Lost(l)
    <3>1. asked[i].since \in 0 .. MaxRecords
      BY DEF Types, Question
    <3>2. \A s \in 0 .. MaxRecords : \A m \in 1 .. s : ~(s < m)
      OBVIOUS
    <3> QED
      BY <1>4, <2>2, <3>1, <3>2 DEF Lost
  <2>6. ~(k < l)
    BY <1>1, <1>5, <2>1, <2>3, <2>4, <2>5 DEF InSequence, k
  <2>7. \A m, n \in Number : ~(m < n) => n <= m
    BY DEF Number
  <2> QED
    BY <1>1, <2>1, <2>6, <2>7
<1> QED
  BY <1>2, <1>5 DEF Fresh, k

\* A reading that a query collects can be counted.
LEMMA CountedIsFresh ==
    ASSUME Types, Phases, Readings, Freshness,
           NEW i \in Ask, NEW x \in Number, NEW k \in {None} \cup Number,
           In(queryBox[i], Reading(x, k))
    PROVE  /\ FreshSet(i, query[i].counted \cup ({k} \ {None}))
           /\ \A y \in query[i].todo \cup (query[i].pending \ {x}) :
                 \A l \in query[i].counted \cup ({k} \ {None}) : ~SameDevice(y, l)
<1>1. /\ FreshSet(i, query[i].counted)
      /\ \A y \in query[i].todo \cup query[i].pending :
            \A l \in query[i].counted : ~SameDevice(y, l)
  BY DEF Freshness
<1>2. Replied(i, x)
  BY DEF Replied
<1>3. x \in query[i].pending /\ x \notin query[i].todo
  BY <1>2 DEF Readings, ReadingsOf
<1>4. CASE k = None
  BY <1>1, <1>4
<1>5. CASE k # None
  <2>1. Fresh(i, x, k) /\ SameDevice(k, x)
    BY <1>5 DEF Freshness, Fresh
  <2>2. Fresh(i, k, k)
    BY <2>1 DEF Fresh, SameDevice
  <2>3. \A l \in query[i].counted : ~SameDevice(k, l) /\ ~SameDevice(l, k)
    BY <1>1, <1>3, <2>1 DEF SameDevice
  <2>4. FreshSet(i, query[i].counted \cup ({k} \ {None}))
    BY <1>1, <2>2, <2>3 DEF FreshSet
  <2>5. ASSUME NEW y \in query[i].todo \cup (query[i].pending \ {x}) PROVE ~SameDevice(y, k)
    <3>1. y # x /\ ~SameDevice(y, x)
      BY <1>3, <2>5 DEF Phases
    <3> QED
      BY <2>1, <3>1 DEF SameDevice
  <2> QED
    BY <1>1, <2>4, <2>5
<1> QED
  BY <1>4, <1>5

LEMMA FreshReadingsKept ==
    ASSUME Types, Records, Questions, InSequence, AfterRecords, Phases, Readings,
           Freshness, Event, NEW i \in Ask, NEW x \in Number, NEW k \in Number,
           In(queryBox'[i], Reading(x, k))
    PROVE  Fresh(i, x, k)'
<1>1. CASE In(queryBox[i], Reading(x, k))
  <2>1. Fresh(i, x, k) /\ Replied(i, x)
    BY <1>1 DEF Freshness, Replied
  <2>2. x \in Told
    BY <2>1 DEF Readings, ReadingsOf, Phases
  <2>3. Started(i)
    BY <1>1, Emptied DEF Phases
  <2>4. ~QuestionAsked(i)
    BY <2>3 DEF QuestionAsked, Questions
  <2> QED
    BY <2>1, <2>2, <2>4, FreshStays
<1>2. CASE DeviceReplied(x, i) /\ query[i].phase # "stopped" /\ k = device[x].reading
  <2>1. Fresh(i, x, k)
    BY <1>2, RepliesAreFresh
  <2>2. Asking(i, x)
    BY <1>2 DEF DeviceReplied, Takes, Minus, Asking
  <2>3. x \in Told /\ Started(i)
    BY <1>2, <2>2 DEF Readings, ReadingsOf, Phases, Asking
  <2>4. ~QuestionAsked(i)
    BY <2>3 DEF QuestionAsked, Questions
  <2> QED
    BY <2>1, <2>3, <2>4, FreshStays
<1> QED
  BY <1>1, <1>2, ReadingsFromDevices

LEMMA FreshCountsKept ==
    ASSUME Types, Questions, Phases, Readings, Freshness, Event, NEW i \in Ask
    PROVE  /\ FreshSet(i, query[i].counted)'
           /\ \A x \in query'[i].todo \cup query'[i].pending :
                 \A k \in query'[i].counted : ~SameDevice(x, k)'
<1>1. /\ FreshSet(i, query[i].counted)
      /\ \A x \in query[i].todo \cup query[i].pending :
            \A k \in query[i].counted : ~SameDevice(x, k)
      /\ \A x \in query[i].todo \cup query[i].pending : x \in Told
      /\ \A k \in query[i].counted : k \in Told
  BY DEF Freshness, Phases, FreshSet, Fresh
<1>2. \A x, k \in Told : SameDevice(x, k)' <=> SameDevice(x, k)
  BY ToldStays
<1>3. CASE QuestionAsked(i)
  <2>1. query' = query /\ query[i].counted = {}
    BY <1>3 DEF QuestionAsked, Questions, Phases
  <2> QED
    BY <2>1 DEF FreshSet
<1>4. CASE ~QuestionAsked(i)
  <2>1. \A counted : FreshSet(i, counted) => FreshSet(i, counted)'
    BY <1>4, FreshStays
  <2>2. ASSUME query'[i].counted = query[i].counted,
               query'[i].todo \cup query'[i].pending
                  \subseteq query[i].todo \cup query[i].pending
        PROVE  /\ FreshSet(i, query[i].counted)'
               /\ \A x \in query'[i].todo \cup query'[i].pending :
                     \A k \in query'[i].counted : ~SameDevice(x, k)'
    BY <1>1, <1>2, <2>1, <2>2
  <2>3. CASE GroupEvent
    <3>1. ASSUME NEW g \in Group, QuerySpawned(g, i)
          PROVE  query'[i].counted = {}
      <4>1. In(groupBox[g], Average(i)) /\ query'[i].counted = query[i].counted
        BY <3>1 DEF QuerySpawned, Takes, Minus
      <4> QED
        BY <4>1 DEF Questions, Phases
    <3>2. CASE \E g \in Group : QuerySpawned(g, i)
      BY <3>1, <3>2 DEF FreshSet
    <3>3. CASE query'[i] = query[i]
      BY <2>2, <3>3
    <3> QED
      BY <2>3, <3>2, <3>3 DEF GroupEvent, DeviceSpawned, RecordForwarded, QuerySpawned,
         DevicePruned, GroupStopped, Elsewhere
  <2>4. CASE QueryEvent
    <3>1. ASSUME NEW x \in Number, NEW k \in {None} \cup Number, ReadingCollected(i, x, k)
          PROVE  /\ FreshSet(i, query[i].counted)'
                 /\ \A y \in query'[i].todo \cup query'[i].pending :
                       \A l \in query'[i].counted : ~SameDevice(y, l)'
      <4>1. /\ In(queryBox[i], Reading(x, k))
            /\ query'[i].todo = query[i].todo
            /\ query'[i].pending = query[i].pending \ {x}
            /\ query'[i].counted = query[i].counted \cup ({k} \ {None})
        BY <3>1 DEF ReadingCollected, DeviceDone, Takes, Minus
      <4>2. /\ FreshSet(i, query'[i].counted)
            /\ \A y \in query'[i].todo \cup query'[i].pending :
                  \A l \in query'[i].counted : ~SameDevice(y, l)
        BY <4>1, CountedIsFresh
      <4>3. /\ \A l \in query'[i].counted : l \in Told
            /\ \A y \in query'[i].todo \cup query'[i].pending : y \in Told
        BY <1>1, <4>1, <4>2 DEF FreshSet, Fresh
      <4> QED
        BY <1>2, <2>1, <4>2, <4>3
    <3>2. CASE \E x \in Number : \E k \in {None} \cup Number : ReadingCollected(i, x, k)
      BY <3>1, <3>2
    <3>3. CASE query'[i] = query[i]
      BY <2>2, <3>3
    <3>4. CASE Ending(i)
      <4>1. QueryEnded(i)
        BY <3>4, Ended
      <4> QED
        BY <2>2, <4>1 DEF QueryEnded
    <3>5. CASE \E x \in Number : DeviceAsked(i, x)
      BY <2>2, <3>5 DEF DeviceAsked
    <3>6. CASE QueryBegun(i) \/ \E x \in Number : DeviceGivenUp(i, x)
      BY <2>2, <3>6 DEF QueryBegun, DeviceGivenUp, DeviceDone
    <3>7. \/ query'[i] = query[i]
          \/ Ending(i) \/ QueryBegun(i)
          \/ \E x \in Number : DeviceAsked(i, x) \/ DeviceGivenUp(i, x)
          \/ \E x \in Number : \E k \in {None} \cup Number : ReadingCollected(i, x, k)
      BY <2>4, Ended DEF QueryEvent, QueryBegun, QueryEnded, DeviceAsked,
         ReadingCollected, DeviceGivenUp, DeviceDone, SignalIgnored, Elsewhere
    <3> QED
      BY <3>2, <3>3, <3>4, <3>5, <3>6, <3>7
  <2> QED
    BY <2>2, <2>3, <2>4, ManagerFrame, DeviceFrame DEF Event
<1> QED
  BY <1>3, <1>4

LEMMA FreshAnswersKept ==
    ASSUME Types, Questions, Phases, Readings, Freshness, Event, NEW i \in Ask
    PROVE  /\ FreshSet(i, asked[i].counted)'
           /\ asked'[i].status = "unasked" => asked'[i].counted = {}
<1>1. /\ FreshSet(i, asked[i].counted) /\ FreshSet(i, query[i].counted)
      /\ asked[i].status = "unasked" => asked[i].counted = {}
  BY DEF Freshness
<1>2. FreshSet(i, {})'
  BY DEF FreshSet
<1>3. CASE QuestionAsked(i)
  BY <1>1, <1>2, <1>3 DEF QuestionAsked
<1>4. CASE ~QuestionAsked(i)
  <2>1. \A counted : FreshSet(i, counted) => FreshSet(i, counted)'
    BY <1>4, FreshStays
  <2>2. CASE asked'[i] = asked[i]
    BY <1>1, <2>1, <2>2
  <2>3. ASSUME asked'[i].status # "unasked",
               \/ asked'[i].counted = asked[i].counted
               \/ FreshSet(i, asked'[i].counted)
        PROVE  /\ FreshSet(i, asked[i].counted)'
               /\ asked'[i].status = "unasked" => asked'[i].counted = {}
    BY <1>1, <2>1, <2>3
  <2>4. ASSUME NEW box, Dropped(box)
        PROVE  /\ FreshSet(i, asked[i].counted)'
               /\ asked'[i].status = "unasked" => asked'[i].counted = {}
    BY <2>2, <2>3, <2>4 DEF Dropped
  <2>5. CASE ManagerEvent
    <3>1. CASE QuestionRefused(i)
      BY <1>2, <3>1 DEF QuestionRefused
    <3>2. CASE QuestionSlipped(i)
      BY <2>3, <3>2 DEF QuestionSlipped
    <3> QED
      BY <1>4, <2>2, <2>4, <2>5, <3>1, <3>2 DEF ManagerEvent, RecordTold,
         QuestionAsked, ShutdownTold, RecordRouted, QuestionRouted, QuestionRefused,
         QuestionSlipped, ManagerDrained, ManagerStopped, Elsewhere
  <2>6. CASE GroupEvent
    BY <2>2, <2>4, <2>6 DEF GroupEvent, DeviceSpawned, RecordForwarded, QuerySpawned,
       DevicePruned, GroupStopped
  <2>7. CASE QueryEvent
    <3>1. CASE Ending(i)
      <4>1. asked'[i].status # "unasked"
        BY <3>1, Ended DEF QueryEnded
      <4>2. \/ asked'[i].counted = asked[i].counted
            \/ FreshSet(i, asked'[i].counted)
        <5>1. CASE EndedAtOnce(i)
          BY <5>1 DEF EndedAtOnce, FreshSet
        <5>2. CASE \E x \in Number : \E k \in {None} \cup Number : LastCollected(i, x, k)
          BY <5>2, CountedIsFresh DEF LastCollected
        <5>3. CASE \E x \in Number : LastGivenUp(i, x)
          BY <1>1, <5>3 DEF LastGivenUp
        <5>4. CASE QueryStopped(i)
          BY <5>4 DEF QueryStopped
        <5> QED
          BY <3>1, <5>1, <5>2, <5>3, <5>4 DEF Ending
      <4> QED
        BY <2>3, <4>1, <4>2
    <3>2. CASE ~Ending(i)
      <4>1. asked'[i] = asked[i]
        BY <2>7, <3>2, Ended DEF QueryEvent, QueryBegun, QueryEnded, DeviceAsked,
           ReadingCollected, DeviceGivenUp, DeviceDone, SignalIgnored, Elsewhere
      <4> QED
        BY <2>2, <4>1
    <3> QED
      BY <3>1, <3>2
  <2>8. CASE DeviceEvent
    BY <2>2, <2>8, DeviceFrame
  <2> QED
    BY <2>5, <2>6, <2>7, <2>8 DEF Event
<1> QED
  BY <1>3, <1>4

LEMMA FreshnessKept ==
    ASSUME Types, Types', Records, Questions, InSequence, AfterRecords, Phases, Readings,
           Freshness, Event
    PROVE  Freshness'
<1>1. \A i \in Ask : \A x, k \in Number :
         In(queryBox'[i], Reading(x, k)) => Fresh(i, x, k)'
  BY FreshReadingsKept
<1>2. \A i \in Ask :
         /\ FreshSet(i, query[i].counted)'
         /\ \A x \in query'[i].todo \cup query'[i].pending :
               \A k \in query'[i].counted : ~SameDevice(x, k)'
  BY FreshCountsKept
<1>3. \A i \in Ask :
         /\ FreshSet(i, asked[i].counted)'
         /\ asked'[i].status = "unasked" => asked'[i].counted = {}
  BY FreshAnswersKept
<1> QED
  BY <1>1, <1>2, <1>3 DEF Freshness

-----------------------------------------------------------------------------
\* What the order of the mailboxes comes to, for a system that is coherent.
Ordered ==
    /\ InOrder
    /\ InSequence
    /\ AfterRecords
    /\ Freshness

LEMMA InitOrdered == Init => Ordered
<1> SUFFICES ASSUME Init PROVE Ordered
  OBVIOUS
<1>1. /\ Len(told) = 0 /\ Told = {}
      /\ \A i \in Ask : /\ asked[i].status = "unasked" /\ asked[i].since = 0
                        /\ asked[i].counted = {}
      /\ managerBox = <<>>
      /\ \A g \in Group : groupBox[g] = <<>>
      /\ \A i \in Ask : /\ query[i].counted = {} /\ queryBox[i] = <<>>
      /\ \A x \in Number : deviceBox[x] = <<>>
  BY DEF Init, Told
<1>2. (\A m : ~In(<<>>, m)) /\ \A a, b : Ahead(<<>>, a, b)
  <2>1. \A m : ~In(<<>>, m)
    BY Emptied
  <2> QED
    BY <2>1, Unordered
<1>3. InOrder
  BY <1>1, <1>2 DEF InOrder
<1>4. InSequence
  BY <1>1 DEF InSequence
<1>5. AfterRecords
  <2>1. \A i \in Ask : \A l \in 1 .. asked[i].since : FALSE
    BY <1>1
  <2> QED
    BY <2>1 DEF AfterRecords
<1>6. Freshness
  BY <1>1, <1>2 DEF Freshness, FreshSet
<1> QED
  BY <1>3, <1>4, <1>5, <1>6 DEF Ordered

LEMMA OrderedKept == Coherent /\ Coherent' /\ Ordered /\ [Next]_vars => Ordered'
<1> SUFFICES ASSUME Coherent, Coherent', Ordered, [Next]_vars PROVE Ordered'
  OBVIOUS
<1>1. /\ Types /\ Types' /\ NoDuplicates /\ Registry /\ Records /\ Questions
      /\ Phases /\ Readings
      /\ InOrder /\ InSequence /\ AfterRecords /\ Freshness
  BY DEF Coherent, Ordered
<1>2. CASE Next
  <2>1. Event
    BY <1>1, <1>2, EveryStep
  <2>2. InOrder'
    BY <1>1, <2>1, InOrderKept
  <2>3. InSequence'
    BY <1>1, <2>1, InSequenceKept
  <2>4. AfterRecords'
    BY <1>1, <2>1, AfterRecordsKept
  <2>5. Freshness'
    BY <1>1, <2>1, FreshnessKept
  <2> QED
    BY <2>2, <2>3, <2>4, <2>5 DEF Ordered
<1>3. CASE UNCHANGED vars
  <2>1. UNCHANGED <<told, asked, manager, managerBox, group, groupBox, devices, query,
                    queryBox, device, deviceBox, watchers>>
    BY <1>3 DEF vars, clients, managers, groups, queries, incarnations
  <2>2. InOrder' /\ InSequence'
    BY <1>1, <2>1 DEF InOrder, InSequence, Told, SameDevice, Routing, Lost, Started
  <2>3. AfterRecords'
    BY <1>1, <2>1 DEF AfterRecords, Routing, Started
  <2>4. Freshness'
    BY <1>1, <2>1 DEF Freshness, FreshSet, Fresh, Told, SameDevice
  <2> QED
    BY <2>2, <2>3, <2>4 DEF Ordered
<1> QED
  BY <1>2, <1>3

LEMMA OrderedImpliesFresh == Freshness => AnswersAreFresh
<1> SUFFICES ASSUME Freshness, NEW i \in Ask, NEW k \in asked[i].counted
             PROVE  /\ told[k].valid
                    /\ \A l \in asked[i].counted : SameDevice(k, l) => k = l
                    /\ \A l \in 1 .. asked[i].since : SameDevice(k, l) => l <= k
  BY DEF AnswersAreFresh
<1>1. Fresh(i, k, k) /\ \A l \in asked[i].counted : SameDevice(k, l) => k = l
  BY DEF Freshness, FreshSet
<1>2. \A l : SameDevice(k, l) => SameDevice(l, k)
  BY DEF SameDevice
<1> QED
  BY <1>1, <1>2 DEF Fresh

\* Records are queued, routed and stored in the order they were told in, and a
\* question is never ahead of a record told before it.
THEOREM DeviceManagerOrder == Spec => []Ordered
<1>1. Init => Ordered
  BY InitOrdered
<1>2. Coherent /\ Coherent' /\ Ordered /\ [Next]_vars => Ordered'
  BY OrderedKept
<1> QED
  BY <1>1, <1>2, DeviceManagerCoherence, PTL DEF Spec

\* An answer counts every device once at most, with the last reading told before
\* the question or a later one.
THEOREM FreshAnswers == Spec => []AnswersAreFresh
<1>1. Ordered => AnswersAreFresh
  BY OrderedImpliesFresh DEF Ordered
<1> QED
  BY <1>1, DeviceManagerOrder, PTL

-----------------------------------------------------------------------------
(***************************************************************************)
(* Failures of devices.                                                     *)
(***************************************************************************)

\* Not more invalid records than restarts make up for.
Sound(k) == Cardinality(InvalidRecords(k)) <= MaxRestarts

\* And none from k on.
Steady(k) ==
    /\ Sound(k)
    /\ \A l \in Told : SameDevice(k, l) /\ l >= k => told[l].valid

\* The invalid records of a device that an incarnation can have failed on.
Failed(x) ==
    {l \in InvalidRecords(x) : ~Routing(l) /\ ~In(deviceBox[x], Record(l))}

\* A device has restarted once per record at most.
Restarting == \A x \in Told : device[x].restarts <= Cardinality(Failed(x))

\* The invalid records of a device are finitely many.
Countable ==
    /\ \A k : InvalidRecords(k) = {l \in Told : SameDevice(k, l) /\ ~told[l].valid}
    /\ \A k : /\ IsFiniteSet(InvalidRecords(k))
              /\ Cardinality(InvalidRecords(k)) \in Nat
    /\ \A x : /\ Failed(x) \subseteq InvalidRecords(x)
              /\ IsFiniteSet(Failed(x))
              /\ Cardinality(Failed(x)) \in Nat

LEMMA Invalid == Types => Countable
<1> SUFFICES ASSUME Types PROVE Countable
  OBVIOUS
<1>1. DOMAIN told = Told
  BY LenProperties DEF Types, Told
<1>2. IsFiniteSet(Told)
  <2>1. Len(told) \in Int /\ 1 \in Int
    BY LenProperties DEF Types
  <2> QED
    BY <2>1, FS_Interval DEF Told
<1>3. \A k : InvalidRecords(k) = {l \in Told : SameDevice(k, l) /\ ~told[l].valid}
  BY <1>1 DEF InvalidRecords
<1>4. ASSUME NEW k
      PROVE  IsFiniteSet(InvalidRecords(k)) /\ Cardinality(InvalidRecords(k)) \in Nat
  <2>1. InvalidRecords(k) \in SUBSET Told
    BY <1>3
  <2> QED
    BY <1>2, <2>1, FS_Subset, FS_CardinalityType
<1>5. ASSUME NEW x
      PROVE  /\ Failed(x) \subseteq InvalidRecords(x)
             /\ IsFiniteSet(Failed(x)) /\ Cardinality(Failed(x)) \in Nat
  <2>1. Failed(x) \in SUBSET InvalidRecords(x)
    BY DEF Failed
  <2> QED
    BY <1>4, <2>1, FS_Subset, FS_CardinalityType
<1> QED
  BY <1>3, <1>4, <1>5 DEF Countable

\* Records of one device are as sound as one another.
LEMMA SoundAlike ==
    ASSUME NEW k, NEW l, SameDevice(k, l)
    PROVE  Sound(k) <=> Sound(l)
<1>1. InvalidRecords(k) = InvalidRecords(l)
  BY DEF InvalidRecords, SameDevice
<1> QED
  BY <1>1 DEF Sound

\* What has failed once stays so.
LEMMA UnsoundStays ==
    ASSUME Types, Types', Event, NEW k \in Told
    PROVE  /\ InvalidRecords(k) \subseteq InvalidRecords(k)'
           /\ Sound(k)' => Sound(k)
           /\ Steady(k)' => Steady(k)
<1>1. /\ Told \subseteq Told' /\ \A l \in Told : told'[l] = told[l]
      /\ \A l \in Told : SameDevice(k, l)' <=> SameDevice(k, l)
  BY ToldStays
<1>2. /\ InvalidRecords(k) = {l \in Told : SameDevice(k, l) /\ ~told[l].valid}
      /\ IsFiniteSet(InvalidRecords(k)) /\ Cardinality(InvalidRecords(k)) \in Nat
  BY Invalid DEF Countable
<1>3. /\ InvalidRecords(k)' = {l \in Told' : SameDevice(k, l)' /\ ~told'[l].valid}
      /\ IsFiniteSet(InvalidRecords(k)') /\ Cardinality(InvalidRecords(k)') \in Nat
  <2>1. Countable'
    BY Invalid, PTL
  <2> QED
    BY <2>1 DEF Countable
<1>4. InvalidRecords(k) \subseteq InvalidRecords(k)'
  BY <1>1, <1>2, <1>3
<1>5. Sound(k)' => Sound(k)
  <2>1. Cardinality(InvalidRecords(k)) <= Cardinality(InvalidRecords(k)')
    BY <1>3, <1>4, FS_Subset
  <2> QED
    BY <1>2, <1>3, <2>1 DEF Sound
<1>6. Steady(k)' => Steady(k)
  BY <1>1, <1>5 DEF Steady
<1> QED
  BY <1>4, <1>5, <1>6

\* A failure that ends a device is one too many for good.
LEMMA FailedIsUnsound ==
    ASSUME Types, Registry, Records, Restarting,
           NEW x \in Number, NEW k \in Number, DeviceFailed(x, k)
    PROVE  ~Sound(x)
<1>1. /\ device[x].life = "up" /\ In(deviceBox[x], Record(k)) /\ ~told[k].valid
      /\ MaxRestarts <= device[x].restarts
  BY DEF DeviceFailed, DeviceClosed
<1>2. x \in Told /\ k \in Told /\ SameDevice(x, k)
  BY <1>1 DEF Registry, Records, SameDevice
<1>3. /\ k \in InvalidRecords(x) /\ k \notin Failed(x)
      /\ IsFiniteSet(InvalidRecords(x)) /\ Cardinality(InvalidRecords(x)) \in Nat
      /\ Failed(x) \subseteq InvalidRecords(x)
      /\ IsFiniteSet(Failed(x)) /\ Cardinality(Failed(x)) \in Nat
  BY <1>1, <1>2, Invalid DEF Countable, Failed
<1>4. /\ Cardinality(Failed(x) \cup {k}) = Cardinality(Failed(x)) + 1
      /\ Cardinality(Failed(x) \cup {k}) <= Cardinality(InvalidRecords(x))
  <2>1. Failed(x) \cup {k} \in SUBSET InvalidRecords(x)
    BY <1>3
  <2> QED
    BY <1>3, <2>1, FS_AddElement, FS_Subset
<1>5. device[x].restarts <= Cardinality(Failed(x)) /\ device[x].restarts \in Nat
  <2>1. device[x] \in Incarnation
    BY DEF Types
  <2> QED
    BY <1>2, <2>1 DEF Restarting, Incarnation
<1> QED
  BY <1>1, <1>3, <1>4, <1>5 DEF Sound

LEMMA RestartingKept ==
    ASSUME Types, Types', NoDuplicates, Registry, Records, Restarting, Event
    PROVE  Restarting'
<1> SUFFICES ASSUME NEW x \in Told'
             PROVE  device'[x].restarts <= Cardinality(Failed(x)')
  BY DEF Restarting
<1>1. /\ IsFiniteSet(Failed(x)') /\ Cardinality(Failed(x)') \in Nat
      /\ InvalidRecords(x)' = {l \in Told' : SameDevice(x, l)' /\ ~told'[l].valid}
  <2>1. Countable'
    BY Invalid, PTL
  <2> QED
    BY <2>1 DEF Countable
<1>2. x \in Number
  BY ToldStays, Members
<1>3. CASE x \notin Told
  <2>1. RecordTold(x)
    BY <1>3, ToldStays
  <2>2. device' = device /\ device[x].life = "unborn"
    BY <1>2, <1>3, <2>1 DEF RecordTold, Registry
  <2> QED
    BY <1>1, <1>2, <2>2 DEF Records
<1>4. CASE x \in Told
  <2>1. /\ IsFiniteSet(Failed(x)) /\ Cardinality(Failed(x)) \in Nat
        /\ Failed(x) \subseteq InvalidRecords(x)
        /\ InvalidRecords(x) = {l \in Told : SameDevice(x, l) /\ ~told[l].valid}
    BY Invalid DEF Countable
  <2>2. Failed(x) \subseteq Failed(x)'
    <3> SUFFICES ASSUME NEW l \in Failed(x)
                 PROVE  /\ l \in InvalidRecords(x)' /\ ~Routing(l)'
                        /\ ~In(deviceBox'[x], Record(l))
      BY DEF Failed
    <3>1. /\ l \in Told /\ l \in InvalidRecords(x) /\ l \in Number
          /\ ~Routing(l) /\ ~In(deviceBox[x], Record(l))
      BY <2>1, Members DEF Failed
    <3>2. l \in InvalidRecords(x)' /\ ~Routing(l)'
      BY <1>4, <3>1, UnsoundStays, NotRoutedAgain
    <3>3. ASSUME NEW g \in Group, Takes(groupBox, groupBox', Group, g, Record(l))
          PROVE  FALSE
      <4>1. In(groupBox[g], Record(l))
        BY <3>3 DEF Takes, Minus
      <4> QED
        BY <3>1, <4>1 DEF Records, Routing
    <3>4. ~In(deviceBox'[x], Record(l))
      BY <1>2, <3>1, <3>3, DeviceQueues DEF DeviceSpawned, RecordForwarded
    <3> QED
      BY <3>2, <3>4
  <2>3. /\ device[x].restarts <= Cardinality(Failed(x))
        /\ device[x].restarts \in Nat /\ device'[x].restarts \in Nat
    <3>1. device[x] \in Incarnation /\ device'[x] \in Incarnation
      BY <1>2 DEF Types
    <3> QED
      BY <1>4, <3>1 DEF Restarting, Incarnation
  <2>4. Cardinality(Failed(x)) <= Cardinality(Failed(x)')
    BY <1>1, <2>2, FS_Subset
  <2>5. CASE device'[x].restarts <= device[x].restarts
    BY <1>1, <2>1, <2>3, <2>4, <2>5
  <2>6. CASE \E k \in Number : DeviceRestarted(x, k)
    <3>1. PICK k \in Number : DeviceRestarted(x, k)
      BY <2>6
    <3>2. /\ In(deviceBox[x], Record(k)) /\ ~told[k].valid
          /\ ~In(deviceBox'[x], Record(k))
          /\ device'[x].restarts <= device[x].restarts + 1
          /\ told' = told /\ managerBox' = managerBox /\ groupBox' = groupBox
      BY <1>2, <3>1 DEF DeviceRestarted, Takes, Minus, NoDuplicates
    <3>3. k \in Told /\ SameDevice(k, x)
      BY <1>2, <3>2 DEF Records
    <3>4. ~Routing(k)
      <4>1. ~In(managerBox, Record(k)) /\ \A g \in Group : ~In(groupBox[g], Record(k))
        BY <1>2, <3>2 DEF Records
      <4> QED
        BY <3>3, <4>1, Members DEF Routing
    <3>5. k \in InvalidRecords(x)
      BY <2>1, <3>2, <3>3 DEF SameDevice
    <3>6. k \in Failed(x)' /\ k \notin Failed(x)
      BY <1>4, <3>2, <3>3, <3>4, <3>5, UnsoundStays, NotRoutedAgain DEF Failed
    <3>7. /\ Cardinality(Failed(x) \cup {k}) = Cardinality(Failed(x)) + 1
          /\ Cardinality(Failed(x) \cup {k}) <= Cardinality(Failed(x)')
      <4>1. Failed(x) \cup {k} \in SUBSET Failed(x)'
        BY <2>2, <3>6
      <4> QED
        BY <1>1, <2>1, <3>6, <4>1, FS_AddElement, FS_Subset
    <3> QED
      BY <1>1, <2>1, <2>3, <3>2, <3>7
  <2>7. device'[x].restarts = device[x].restarts \/ \E k \in Number : DeviceRestarted(x, k)
    <3>1. CASE GroupEvent
      BY <1>2, <3>1 DEF GroupEvent, DeviceSpawned, RecordForwarded, QuerySpawned,
         DevicePruned, GroupStopped, Elsewhere
    <3>2. CASE DeviceEvent
      <4>1. ASSUME NEW y \in Number, NEW k \in Number, DeviceRestarted(y, k)
            PROVE  device'[x].restarts = device[x].restarts \/ DeviceRestarted(x, k)
        BY <1>2, <4>1 DEF DeviceRestarted, Elsewhere
      <4>2. ASSUME \/ \E y, k \in Number : RecordStored(y, k)
                   \/ \E y \in Number : DeviceClosed(y) \/ DeviceGone(y)
            PROVE  device'[x].restarts = device[x].restarts
        BY <1>2, <4>2 DEF RecordStored, DeviceClosed, DeviceGone, Elsewhere
      <4> QED
        BY <3>2, <4>1, <4>2, Closed DEF DeviceEvent, DeviceReplied, GroupSignalled,
           QuerySignalled
    <3> QED
      BY <3>1, <3>2, ManagerFrame, QueryFrame DEF Event
  <2> QED
    BY <2>3, <2>5, <2>6, <2>7
<1> QED
  BY <1>3, <1>4

-----------------------------------------------------------------------------
(***************************************************************************)
(* Who is alive, as long as the manager is up.                              *)
(***************************************************************************)

Alive ==
    /\ \A g \in Group : group[g] # "stopped"
    /\ \A k \in Told : ~In(managerBox, Record(k)) => group[told[k].group] = "up"
    /\ \A x \in Number : device[x].life # "unborn" /\ Sound(x) => device[x].life = "up"
    /\ \A k \in Told : ~Routing(k) /\ Sound(k) =>
          \E x \in devices[told[k].group] : SameDevice(x, k)
    /\ \A x \in Number : \A k \in Told :
          /\ device[x].life = "up" /\ SameDevice(k, x) /\ ~Routing(k) /\ Steady(k)
          => In(deviceBox[x], Record(k)) \/ device[x].reading # None

LEMMA ManagerUp ==
    ASSUME Event, manager' = "up"
    PROVE  manager = "up"
BY GroupFrame, QueryFrame, DeviceFrame DEF Event, ManagerEvent, RecordTold,
   QuestionAsked, ShutdownTold, RecordRouted, QuestionRouted, QuestionRefused,
   QuestionSlipped, ManagerDrained, ManagerStopped

LEMMA GroupsLive ==
    ASSUME Types, Alive, Event, manager' = "up"
    PROVE  /\ \A g \in Group : group'[g] # "stopped"
           /\ \A k \in Told' : ~In(managerBox', Record(k)) => group'[told'[k].group] = "up"
<1>1. ManagerEvent \/ UNCHANGED <<told, managerBox, group>>
  <2>1. CASE GroupEvent
    <3>1. ASSUME NEW g \in Group, GroupStopped(g) PROVE FALSE
      BY <3>1, ManagerUp DEF GroupStopped
    <3> QED
      BY <2>1, <3>1, GroupFrame DEF GroupEvent, DeviceSpawned, RecordForwarded,
         QuerySpawned, DevicePruned
  <2> QED
    BY <2>1, QueryFrame, DeviceFrame DEF Event
<1>2. CASE UNCHANGED <<told, managerBox, group>>
  BY <1>2 DEF Alive, Told
<1>3. CASE ManagerEvent
  <2>1. \A g \in Group : group[g] = "up" => group'[g] = "up"
    BY <1>3 DEF ManagerEvent, RecordTold, QuestionAsked, ShutdownTold, RecordRouted,
       QuestionRouted, QuestionRefused, QuestionSlipped, ManagerDrained,
       ManagerStopped, Elsewhere
  <2>2. \A g \in Group : group'[g] # "stopped"
    BY <1>3 DEF ManagerEvent, RecordTold, QuestionAsked, ShutdownTold, RecordRouted,
       QuestionRouted, QuestionRefused, QuestionSlipped, ManagerDrained,
       ManagerStopped, Elsewhere, Alive
  <2>3. ASSUME NEW k \in Told', ~In(managerBox', Record(k))
        PROVE  group'[told'[k].group] = "up"
    <3>1. CASE k \notin Told
      BY <2>3, <3>1, ToldStays DEF RecordTold, Plus
    <3>2. CASE k \in Told /\ ~In(managerBox, Record(k))
      BY <2>1, <3>2, ToldStays, Members DEF Alive
    <3>3. CASE k \in Told /\ In(managerBox, Record(k))
      <4>1. ASSUME NEW m, Minus(managerBox, managerBox', m) PROVE m = Record(k)
        BY <2>3, <3>3, <4>1 DEF Minus
      <4>2. ASSUME NEW m, Plus(managerBox, managerBox', m) PROVE FALSE
        BY <2>3, <3>3, <4>2 DEF Plus
      <4>3. ASSUME NEW l \in Number, NEW g \in Group, RecordRouted(l, g)
            PROVE  group'[told'[k].group] = "up"
        <5>1. l = k
          BY <4>1, <4>3, Apart DEF RecordRouted
        <5> QED
          BY <4>3, <5>1 DEF RecordRouted
      <4>4. ~ManagerStopped /\ ~ManagerDrained /\ \A i \in Ask : ~QuestionSlipped(i)
        BY DEF ManagerStopped, ManagerDrained, QuestionSlipped
      <4>5. \A i \in Ask : \A g \in Group : ~QuestionRouted(i, g)
        BY <4>1, Apart DEF QuestionRouted
      <4>6. /\ ~ShutdownTold /\ \A i \in Ask : ~QuestionAsked(i)
            /\ \A l \in Number : ~RecordTold(l)
        BY <4>2 DEF ShutdownTold, QuestionAsked, RecordTold
      <4>7. \A i \in Ask : ~QuestionRefused(i)
        BY <4>1, Apart DEF QuestionRefused
      <4> QED
        BY <1>3, <4>3, <4>4, <4>5, <4>6, <4>7 DEF ManagerEvent
    <3> QED
      BY <3>1, <3>2, <3>3
  <2> QED
    BY <2>2, <2>3
<1> QED
  BY <1>1, <1>2, <1>3

\* A device ends because of its failures only.
LEMMA DevicesLive ==
    ASSUME Types, Types', Registry, Records, Restarting, Alive, Event, manager' = "up",
           NEW x \in Number, device'[x].life # "unborn", Sound(x)'
    PROVE  device'[x].life = "up"
<1>1. CASE \E g \in Group : DeviceSpawned(g, x)
  BY <1>1 DEF DeviceSpawned
<1>2. CASE device[x].life # "unborn"
  <2>1. x \in Told
    BY <1>2 DEF Registry
  <2>2. Sound(x) /\ device[x].life = "up"
    BY <1>2, <2>1, UnsoundStays DEF Alive
  <2>3. ~Closing(x)
    <3>1. \A k \in Number : ~DeviceFailed(x, k)
      BY <2>2, FailedIsUnsound
    <3>2. ~DeviceStopped(x)
      BY <2>1, Members DEF DeviceStopped, Alive
    <3> QED
      BY <3>1, <3>2 DEF Closing
  <2>4. ~DeviceGone(x)
    BY <2>2 DEF DeviceGone
  <2>5. CASE GroupEvent
    BY <2>2, <2>5 DEF GroupEvent, DeviceSpawned, RecordForwarded, QuerySpawned,
       DevicePruned, GroupStopped, Elsewhere
  <2>6. CASE DeviceEvent
    <3>1. ASSUME NEW y \in Number, Closing(y) PROVE device'[x].life = "up"
      BY <2>2, <2>3, <3>1, Closed DEF DeviceClosed, Elsewhere
    <3>2. ASSUME NEW y \in Number, DeviceGone(y) PROVE device'[x].life = "up"
      BY <2>2, <2>4, <3>2 DEF DeviceGone, Elsewhere
    <3> QED
      BY <2>2, <2>6, <3>1, <3>2 DEF DeviceEvent, RecordStored, DeviceRestarted,
         DeviceReplied, GroupSignalled, QuerySignalled, Elsewhere
  <2> QED
    BY <2>2, <2>5, <2>6, ManagerFrame, QueryFrame DEF Event
<1>3. CASE device[x].life = "unborn" /\ ~\E g \in Group : DeviceSpawned(g, x)
  <2>1. CASE GroupEvent
    BY <1>3, <2>1 DEF GroupEvent, DeviceSpawned, RecordForwarded, QuerySpawned,
       DevicePruned, GroupStopped, Elsewhere
  <2>2. CASE DeviceEvent
    BY <1>3, <2>2, Closed DEF DeviceEvent, RecordStored, DeviceRestarted, DeviceClosed,
       DeviceGone, DeviceReplied, GroupSignalled, QuerySignalled, Elsewhere
  <2> QED
    BY <1>3, <2>1, <2>2, ManagerFrame, QueryFrame DEF Event
<1> QED
  BY <1>1, <1>2, <1>3

\* A record that has arrived since is delivered.
LEMMA Arrived ==
    ASSUME Types, NoDuplicates, Records, Questions, AfterRecords, Event,
           manager' = "up", NEW k \in Told', ~Routing(k)'
    PROVE  k \in Told /\ (~Routing(k) \/ Delivered(k))
<1>1. k \in Told
  BY ToldStays DEF RecordTold, Plus, Routing
<1>2. ASSUME Routing(k), ~Delivered(k) PROVE FALSE
  <2>1. Lost(k)'
    BY <1>1, <1>2, RoutedOn
  <2> QED
    BY <2>1 DEF Lost
<1> QED
  BY <1>1, <1>2

\* Whose device is sound is in the registry.
LEMMA RegistryLives ==
    ASSUME Types, Types', NoDuplicates, Registry, Signals, Records, Questions,
           AfterRecords, Alive, Event, manager' = "up",
           NEW k \in Told', ~Routing(k)', Sound(k)'
    PROVE  \E x \in devices'[told'[k].group] : SameDevice(x, k)'
<1>1. k \in Told /\ (~Routing(k) \/ Delivered(k))
  BY Arrived
<1>2. /\ told'[k] = told[k] /\ told[k].group \in Group /\ Sound(k)
      /\ \A x \in Told : SameDevice(x, k)' <=> SameDevice(x, k)
  BY <1>1, ToldStays, Members, UnsoundStays
<1> DEFINE h == told[k].group
<1>3. SUFFICES \E x \in devices'[h] : x \in Told /\ SameDevice(x, k)
  BY <1>2
<1>4. CASE ~Routing(k)
  <2>1. PICK x \in devices[h] : SameDevice(x, k)
    BY <1>1, <1>2, <1>4 DEF Alive
  <2>2. x \in Told /\ x \in Number /\ device[x].life # "unborn"
    BY <1>2, <2>1, Members DEF Registry
  <2>3. device[x].life = "up"
    BY <1>2, <2>1, <2>2, SoundAlike DEF Alive
  <2>4. ASSUME NEW g \in Group, NEW y \in Number, DevicePruned(g, y) PROVE y # x
    BY <2>3, <2>4 DEF DevicePruned, Takes, Minus, Signals
  <2>5. x \in devices'[h]
    <3>1. CASE GroupEvent
      BY <1>2, <2>1, <2>4, <3>1 DEF GroupEvent, DeviceSpawned, RecordForwarded,
         QuerySpawned, DevicePruned, GroupStopped, Elsewhere
    <3> QED
      BY <2>1, <3>1, ManagerFrame, QueryFrame, DeviceFrame DEF Event
  <2> QED
    BY <2>1, <2>2, <2>5
<1>5. CASE Delivered(k)
  <2>1. ASSUME NEW g \in Group, Takes(groupBox, groupBox', Group, g, Record(k))
        PROVE  h = g
    BY <1>1, <2>1, Members DEF Records, Takes, Minus
  <2>2. ASSUME NEW g \in Group, DeviceSpawned(g, k)
        PROVE  \E x \in devices'[h] : x \in Told /\ SameDevice(x, k)
    <3>1. h = g /\ k \in devices'[h]
      BY <2>1, <2>2 DEF DeviceSpawned
    <3> QED
      BY <1>1, <3>1 DEF SameDevice
  <2>3. ASSUME NEW g \in Group, NEW y \in Number, RecordForwarded(g, k, y)
        PROVE  \E x \in devices'[h] : x \in Told /\ SameDevice(x, k)
    <3>1. h = g /\ y \in devices[g] /\ SameDevice(y, k) /\ devices' = devices
      BY <2>1, <2>3 DEF RecordForwarded
    <3> QED
      BY <3>1 DEF Registry
  <2> QED
    BY <1>5, <2>2, <2>3 DEF Delivered
<1> QED
  BY <1>1, <1>4, <1>5

\* A record that is queued at a device stays, or is the next to be processed.
LEMMA QueuedStays ==
    ASSUME Types, Records, Event, NEW x \in Number, NEW k \in Number,
           In(deviceBox[x], Record(k)), device'[x].life = "up"
    PROVE  \/ In(deviceBox'[x], Record(k))
           \/ RecordStored(x, k)
           \/ DeviceRestarted(x, k)
<1>1. CASE deviceBox'[x] = deviceBox[x]
  BY <1>1
<1>2. device[x].life = "up"
  BY Emptied DEF Records
<1>3. ASSUME NEW m, NEW y \in Number, Takes(deviceBox, deviceBox', Number, y, m),
             m # Record(k) \/ x # y
      PROVE  In(deviceBox'[x], Record(k))
  BY <1>3 DEF Takes, Minus, Elsewhere
<1>4. ASSUME NEW g \in Group, NEW n \in Number, DeviceSpawned(g, n)
      PROVE  In(deviceBox'[x], Record(k))
  <2>1. In(groupBox[g], Record(n)) /\ Elsewhere(deviceBox, deviceBox', Number, n)
    BY <1>4 DEF DeviceSpawned, Takes, Minus
  <2>2. n # x
    BY <1>2, <2>1 DEF Records
  <2> QED
    BY <2>1, <2>2 DEF Elsewhere
<1>5. CASE GroupEvent
  <2>1. ASSUME NEW g \in Group, NEW n \in Number, NEW y \in Number,
               RecordForwarded(g, n, y)
        PROVE  In(deviceBox'[x], Record(k))
    BY <2>1 DEF RecordForwarded, Sends, Plus, Elsewhere
  <2> QED
    BY <1>1, <1>4, <1>5, <2>1 DEF GroupEvent, QuerySpawned, DevicePruned, GroupStopped
<1>6. CASE QueryEvent
  <2>1. CASE \E i \in Ask : \E y \in Number : DeviceAsked(i, y)
    BY <2>1 DEF DeviceAsked, Sends, Plus, Elsewhere
  <2> QED
    BY <1>1, <1>6, <2>1, Ended DEF QueryEvent, QueryBegun, QueryEnded,
       ReadingCollected, DeviceGivenUp, DeviceDone, SignalIgnored
<1>7. CASE DeviceEvent
  <2>1. ASSUME NEW y \in Number, NEW n \in Number, RecordStored(y, n)
        PROVE  In(deviceBox'[x], Record(k)) \/ RecordStored(x, k)
    BY <1>3, <2>1, Apart DEF RecordStored
  <2>2. ASSUME NEW y \in Number, NEW n \in Number, DeviceRestarted(y, n)
        PROVE  In(deviceBox'[x], Record(k)) \/ DeviceRestarted(x, k)
    BY <1>3, <2>2, Apart DEF DeviceRestarted
  <2>3. ASSUME NEW y \in Number, DeviceClosed(y) PROVE In(deviceBox'[x], Record(k))
    BY <2>3 DEF DeviceClosed, Elsewhere
  <2>4. ASSUME NEW y \in Number, NEW i \in Ask, DeviceReplied(y, i)
        PROVE  In(deviceBox'[x], Record(k))
    BY <1>3, <2>4, Apart DEF DeviceReplied
  <2> QED
    BY <1>1, <1>7, <2>1, <2>2, <2>3, <2>4, Closed DEF DeviceEvent, DeviceGone,
       GroupSignalled, QuerySignalled
<1> QED
  BY <1>1, <1>5, <1>6, <1>7, ManagerFrame DEF Event

\* A reading is forgotten by a restart only.
LEMMA ReadingStays ==
    ASSUME Event, NEW x \in Number, device[x].reading # None
    PROVE  device'[x].reading # None \/ \E l \in Number : DeviceRestarted(x, l)
<1>1. CASE device'[x].reading = device[x].reading
  BY <1>1
<1>2. CASE GroupEvent
  BY <1>1, <1>2 DEF GroupEvent, DeviceSpawned, RecordForwarded, QuerySpawned,
     DevicePruned, GroupStopped, Elsewhere
<1>3. CASE DeviceEvent
  <2>1. ASSUME NEW y \in Number, NEW n \in Number, RecordStored(y, n)
        PROVE  device'[x].reading # None
    <3>1. n # None
      BY DEF Number, None
    <3> QED
      BY <2>1, <3>1 DEF RecordStored, Elsewhere
  <2>2. ASSUME NEW y \in Number, NEW n \in Number, DeviceRestarted(y, n)
        PROVE  device'[x].reading # None \/ DeviceRestarted(x, n)
    BY <2>2 DEF DeviceRestarted, Elsewhere
  <2>3. ASSUME NEW y \in Number, DeviceClosed(y) \/ DeviceGone(y)
        PROVE  device'[x].reading # None
    BY <2>3 DEF DeviceClosed, DeviceGone, Elsewhere
  <2> QED
    BY <1>1, <1>3, <2>1, <2>2, <2>3, Closed DEF DeviceEvent, DeviceReplied,
       GroupSignalled, QuerySignalled
<1> QED
  BY <1>1, <1>2, <1>3, ManagerFrame, QueryFrame DEF Event

\* What a failure leaves queued, and what was stored before it: a device that fails
\* no more has a reading, or is about to have one.
LEMMA ReadingsLive ==
    ASSUME Types, Types', NoDuplicates, Registry, Records, Questions,
           InSequence, AfterRecords, Alive, Event, manager' = "up",
           NEW x \in Number, NEW k \in Told',
           device'[x].life = "up", SameDevice(k, x)', ~Routing(k)', Steady(k)'
    PROVE  In(deviceBox'[x], Record(k)) \/ device'[x].reading # None
<1>1. k \in Told /\ (~Routing(k) \/ Delivered(k)) /\ k \in Number
  BY Arrived, Members
<1>2. Steady(k) /\ Sound(k)
  BY <1>1, UnsoundStays DEF Steady
<1>3. CASE \E g \in Group : DeviceSpawned(g, x)
  <2>1. PICK g \in Group : DeviceSpawned(g, x)
    BY <1>3
  <2>2. /\ In(groupBox[g], Record(x)) /\ told' = told /\ deviceBox'[x] = <<Record(x)>>
        /\ \A y \in devices[g] : ~SameDevice(y, x)
        /\ Takes(groupBox, groupBox', Group, g, Record(x))
    BY <2>1 DEF DeviceSpawned, Takes, Minus
  <2>3. x \in Told /\ told[x].group = g /\ SameDevice(k, x)
    BY <1>1, <2>2 DEF Records, SameDevice
  <2>4. CASE k = x
    BY <1>1, <2>2, <2>4, Kinds, Alone
  <2>5. CASE k # x
    <3>1. Routing(k)
      <4>1. ASSUME ~Routing(k) PROVE FALSE
        <5>1. PICK y \in devices[told[k].group] : SameDevice(y, k)
          BY <1>1, <1>2, <4>1 DEF Alive
        <5> QED
          BY <2>2, <2>3, <5>1 DEF SameDevice
      <4> QED
        BY <4>1
    <3>2. CASE \E h \in Group : DeviceSpawned(h, k)
      BY <2>1, <2>5, <3>2, <1>1 DEF DeviceSpawned, Elsewhere, Records, Takes, Minus
    <3>3. CASE \E h \in Group : \E y \in Number : RecordForwarded(h, k, y)
      BY <2>1, <3>3 DEF DeviceSpawned, RecordForwarded, Records, Takes, Minus
    <3> QED
      BY <1>1, <3>1, <3>2, <3>3 DEF Delivered
  <2> QED
    BY <2>4, <2>5
<1>4. CASE ~\E g \in Group : DeviceSpawned(g, x)
  <2>1. device[x].life = "up"
    <3>1. CASE GroupEvent
      BY <1>4, <3>1 DEF GroupEvent, DeviceSpawned, RecordForwarded, QuerySpawned,
         DevicePruned, GroupStopped, Elsewhere
    <3>2. CASE DeviceEvent
      BY <3>2, Closed DEF DeviceEvent, RecordStored, DeviceRestarted, DeviceClosed,
         DeviceGone, DeviceReplied, GroupSignalled, QuerySignalled, Elsewhere
    <3> QED
      BY <3>1, <3>2, ManagerFrame, QueryFrame DEF Event
  <2>2. x \in Told /\ x \in devices[told[x].group]
    BY <2>1 DEF Registry
  <2>3. SameDevice(k, x)
    BY <1>1, <2>2, ToldStays
  <2>4. CASE Delivered(k)
    <3>1. ASSUME NEW g \in Group, DeviceSpawned(g, k) PROVE FALSE
      <4>1. /\ \A y \in devices[g] : ~SameDevice(y, k)
            /\ told[k].group = g
        BY <1>1, <3>1 DEF DeviceSpawned, Takes, Minus, Records
      <4> QED
        BY <2>2, <2>3, <4>1 DEF SameDevice
    <3>2. ASSUME NEW g \in Group, NEW y \in Number, RecordForwarded(g, k, y)
          PROVE  In(deviceBox'[x], Record(k))
      <4>1. y \in devices[g] /\ SameDevice(y, k) /\ told[k].group = g
        BY <1>1, <3>2 DEF RecordForwarded, Takes, Minus, Records
      <4>2. x = y
        BY <2>2, <2>3, <4>1 DEF Registry, SameDevice
      <4> QED
        BY <2>1, <3>2, <4>2 DEF RecordForwarded, Sends, Plus
    <3> QED
      BY <2>4, <3>1, <3>2 DEF Delivered
  <2>5. CASE ~Routing(k) /\ In(deviceBox[x], Record(k))
    <3>1. told[k].valid
      <4>1. SameDevice(k, k) /\ \A n \in Number : n >= n
        BY DEF SameDevice, Number
      <4> QED
        BY <1>1, <1>2, <4>1 DEF Steady
    <3>2. ~DeviceRestarted(x, k)
      BY <3>1 DEF DeviceRestarted
    <3>3. RecordStored(x, k) => device'[x].reading # None
      <4>1. k # None
        BY <1>1 DEF Number, None
      <4> QED
        BY <4>1 DEF RecordStored
    <3> QED
      BY <1>1, <2>5, <3>2, <3>3, QueuedStays
  <2>6. CASE ~Routing(k) /\ ~In(deviceBox[x], Record(k))
    <3>1. device[x].reading # None
      BY <1>1, <1>2, <2>1, <2>3, <2>6 DEF Alive
    <3>2. ASSUME NEW l \in Number, DeviceRestarted(x, l) PROVE FALSE
      <4>1. In(deviceBox[x], Record(l)) /\ ~told[l].valid
        BY <3>2 DEF DeviceRestarted, Takes, Minus
      <4>2. l \in Told /\ SameDevice(k, l)
        BY <2>3, <4>1 DEF Records, SameDevice
      <4>3. ~(l >= k)
        BY <1>2, <4>1, <4>2 DEF Steady
      <4>4. l < k
        <5>1. \A m, n \in Number : ~(m >= n) => m < n
          BY DEF Number
        <5> QED
          BY <1>1, <4>3, <5>1
      <4>5. Lost(k)
        BY <1>1, <2>1, <2>3, <2>6, <4>1, <4>4 DEF InSequence
      <4> QED
        BY <4>5, ManagerUp DEF Lost
    <3> QED
      BY <3>1, <3>2, ReadingStays
  <2> QED
    BY <1>1, <2>4, <2>5, <2>6
<1> QED
  BY <1>3, <1>4

LEMMA AliveKept ==
    ASSUME Types, Types', NoDuplicates, Registry, Signals, Records, Questions,
           InSequence, AfterRecords, Restarting, Alive, Event, manager' = "up"
    PROVE  Alive'
<1>1. /\ \A g \in Group : group'[g] # "stopped"
      /\ \A k \in Told' : ~In(managerBox', Record(k)) => group'[told'[k].group] = "up"
  BY GroupsLive
<1>2. \A x \in Number : device'[x].life # "unborn" /\ Sound(x)' => device'[x].life = "up"
  BY DevicesLive
<1>3. \A k \in Told' : ~Routing(k)' /\ Sound(k)' =>
         \E x \in devices'[told'[k].group] : SameDevice(x, k)'
  BY RegistryLives
<1>4. \A x \in Number : \A k \in Told' :
         /\ device'[x].life = "up" /\ SameDevice(k, x)' /\ ~Routing(k)' /\ Steady(k)'
         => In(deviceBox'[x], Record(k)) \/ device'[x].reading # None
  BY ReadingsLive
<1> QED
  BY <1>1, <1>2, <1>3, <1>4 DEF Alive

-----------------------------------------------------------------------------
(***************************************************************************)
(* Nobody is counted out.                                                   *)
(***************************************************************************)

Counts(counted, k) == \E l \in counted : SameDevice(l, k)

Waits(i, k) == \E x \in query[i].todo \cup query[i].pending : SameDevice(x, k)

Complete(i, k) ==
    /\ Started(i) /\ query[i].phase # "stopped" =>
          Counts(query[i].counted, k) \/ Waits(i, k)
    /\ \A x \in Number : In(queryBox[i], Reading(x, None)) => ~SameDevice(k, x)
    /\ asked[i].status = "answered" => Counts(asked[i].counted, k)

\* A question and a record that its answer has to count the device of.
Concerns(i, k) ==
    k \in 1 .. asked[i].since /\ told[k].group = asked[i].group /\ Steady(k)

Completeness == \A i \in Ask : \A k \in Told : Concerns(i, k) => Complete(i, k)

\* Whose signal a query receives is not a device that is to be counted.
LEMMA SignalledUnsound ==
    ASSUME Signals, Alive, NEW i \in Ask, NEW x \in Number, NEW k, Steady(k),
           In(queryBox[i], Terminated(x))
    PROVE  ~SameDevice(x, k)
<1>1. device[x].life = "gone"
  BY DEF Signals
<1>2. ~Sound(x)
  BY <1>1 DEF Alive
<1> QED
  BY <1>2, SoundAlike DEF Steady

\* What a query collects of a device that is to be counted it counts.
LEMMA CollectedCounts ==
    ASSUME Phases, Readings, Freshness, NEW i \in Ask, NEW k, Complete(i, k),
           NEW x \in Number, NEW r \in {None} \cup Number,
           In(queryBox[i], Reading(x, r)), SameDevice(x, k)
    PROVE  Counts(query[i].counted \cup ({r} \ {None}), k)
<1>1. r # None
  BY DEF Complete, SameDevice
<1>2. Fresh(i, x, r)
  BY <1>1 DEF Freshness
<1>3. SameDevice(r, k)
  BY <1>2 DEF Fresh, SameDevice
<1> QED
  BY <1>1, <1>3 DEF Counts

\* A query that goes on counts, or waits for, whom it has to count.
LEMMA CountingKept ==
    ASSUME Types, Types', NoDuplicates, Registry, Signals, Records, Questions, Phases,
           Phases', Readings, AfterRecords, Freshness, Freshness', Alive, Alive', Event,
           NEW i \in Ask, NEW k \in Told, k \in 1 .. asked[i].since,
           told[k].group = asked[i].group, Steady(k), Steady(k)', Complete(i, k),
           Started(i)', query'[i].phase # "stopped"
    PROVE  Counts(query[i].counted, k)' \/ Waits(i, k)'
<1>1. /\ \A l \in Told : SameDevice(l, k)' <=> SameDevice(l, k)
      /\ told'[k] = told[k] /\ asked'[i].group = asked[i].group
  BY ToldStays, QuestionFrame
<1>2. CASE ~Started(i)
  <2>1. PICK g \in Group : QuerySpawned(g, i)
    <3>1. CASE GroupEvent
      BY <1>2, <3>1 DEF GroupEvent, DeviceSpawned, RecordForwarded, QuerySpawned,
         DevicePruned, GroupStopped, Started, Elsewhere
    <3>2. CASE QueryEvent
      BY <1>2, <3>2, Ended DEF QueryEvent, QueryBegun, QueryEnded, DeviceAsked,
         ReadingCollected, DeviceGivenUp, DeviceDone, SignalIgnored, Started, Elsewhere
    <3> QED
      BY <1>2, <3>1, <3>2, ManagerFrame, DeviceFrame DEF Event, Started
  <2>2. /\ query'[i].todo = devices[g] /\ devices' = devices
        /\ In(groupBox[g], Average(i))
    BY <2>1 DEF QuerySpawned, Takes, Minus
  <2>3. g = asked[i].group
    BY <2>2 DEF Questions
  <2>4. ~Routing(k)' /\ k \in Told'
    BY AfterRecordsOnceStarted, ToldStays
  <2>5. \E x \in devices'[told'[k].group] : SameDevice(x, k)'
    BY <2>4 DEF Alive, Steady
  <2> QED
    BY <1>1, <2>2, <2>3, <2>5 DEF Waits
<1>3. CASE Started(i)
  <2>1. query[i].phase # "stopped"
    BY StoppedStays
  <2>2. Counts(query[i].counted, k) \/ Waits(i, k)
    BY <1>3, <2>1 DEF Complete
  <2>3. /\ \A l \in query[i].counted : l \in Told
        /\ \A l \in query'[i].counted : l \in Told'
        /\ \A x \in query[i].todo \cup query[i].pending : x \in Told
    BY DEF Freshness, FreshSet, Fresh, Phases
\* By what becomes of the sets of the query.
  <2>4. ASSUME query[i].counted \subseteq query'[i].counted,
               query[i].todo \cup query[i].pending
                 \subseteq query'[i].todo \cup query'[i].pending
        PROVE  Counts(query[i].counted, k)' \/ Waits(i, k)'
    BY <1>1, <2>2, <2>3, <2>4 DEF Counts, Waits
  <2>5. CASE query'[i] = query[i]
    BY <2>4, <2>5
  <2>6. CASE GroupEvent
    <3>1. ASSUME NEW g \in Group, NEW j \in Ask, QuerySpawned(g, j)
          PROVE  query'[i] = query[i]
      <4>1. In(groupBox[g], Average(j))
        BY <3>1 DEF QuerySpawned, Takes, Minus
      <4>2. i # j
        BY <1>3, <4>1 DEF Questions
      <4> QED
        BY <3>1, <4>2 DEF QuerySpawned, Elsewhere
    <3> QED
      BY <2>5, <2>6, <3>1 DEF GroupEvent, DeviceSpawned, RecordForwarded, DevicePruned,
         GroupStopped
  <2>7. ASSUME NEW x \in Number, DeviceAsked(i, x)
        PROVE  Counts(query[i].counted, k)' \/ Waits(i, k)'
    <3>1. /\ query'[i].todo = query[i].todo \ {x}
          /\ query'[i].pending = query[i].pending \cup {x}
          /\ query'[i].counted = query[i].counted
      BY <2>7 DEF DeviceAsked
    <3> QED
      BY <2>4, <3>1
  <2>8. ASSUME NEW x \in Number, NEW r \in {None} \cup Number, ReadingCollected(i, x, r)
        PROVE  Counts(query[i].counted, k)' \/ Waits(i, k)'
    <3>1. /\ query'[i].todo = query[i].todo
          /\ query'[i].pending = query[i].pending \ {x}
          /\ query'[i].counted = query[i].counted \cup ({r} \ {None})
          /\ In(queryBox[i], Reading(x, r)) /\ told' = told
      BY <2>8 DEF ReadingCollected, DeviceDone, Takes, Minus
    <3>2. CASE SameDevice(x, k)
      <4>1. Counts(query'[i].counted, k)
        BY <3>1, <3>2, CollectedCounts
      <4> QED
        BY <3>1, <4>1, SameTold DEF Counts
    <3>3. CASE ~SameDevice(x, k)
      BY <1>1, <2>2, <2>3, <3>1, <3>3 DEF Counts, Waits
    <3> QED
      BY <3>2, <3>3
  <2>9. ASSUME NEW x \in Number, DeviceGivenUp(i, x)
        PROVE  Counts(query[i].counted, k)' \/ Waits(i, k)'
    <3>1. /\ query'[i].todo = query[i].todo
          /\ query'[i].pending = query[i].pending \ {x}
          /\ query'[i].counted = query[i].counted
          /\ In(queryBox[i], Terminated(x))
      BY <2>9 DEF DeviceGivenUp, DeviceDone, Takes, Minus
    <3>2. ~SameDevice(x, k)
      BY <3>1, SignalledUnsound
    <3> QED
      BY <1>1, <2>2, <2>3, <3>1, <3>2 DEF Counts, Waits
  <2>10. CASE QueryEvent
    <3>1. ASSUME QueryBegun(i) PROVE Counts(query[i].counted, k)' \/ Waits(i, k)'
      BY <2>4, <3>1 DEF QueryBegun
    <3>2. ~Ending(i)
      BY Ended DEF QueryEnded
    <3>3. \/ query'[i] = query[i] \/ QueryBegun(i) \/ Ending(i)
          \/ \E x \in Number : DeviceAsked(i, x) \/ DeviceGivenUp(i, x)
          \/ \E x \in Number : \E r \in {None} \cup Number : ReadingCollected(i, x, r)
      BY <2>10, Ended DEF QueryEvent, QueryBegun, QueryEnded, DeviceAsked,
         ReadingCollected, DeviceGivenUp, DeviceDone, SignalIgnored, Elsewhere
    <3> QED
      BY <2>5, <2>7, <2>8, <2>9, <3>1, <3>2, <3>3
  <2> QED
    BY <2>5, <2>6, <2>10, ManagerFrame, DeviceFrame DEF Event
<1> QED
  BY <1>2, <1>3

\* A device that is to be counted does not reply without a reading.
LEMMA RepliesCount ==
    ASSUME Types, Registry, Records, Questions, AfterRecords, Phases, Readings, Alive,
           NEW i \in Ask, NEW k \in Told, Concerns(i, k),
           NEW x \in Number, DeviceReplied(x, i), query[i].phase # "stopped",
           device[x].reading = None
    PROVE  ~SameDevice(k, x)
<1> SUFFICES ASSUME SameDevice(k, x) PROVE FALSE
  OBVIOUS
<1>1. /\ device[x].life = "up" /\ In(deviceBox[x], Read(i))
      /\ \A a : Ahead(deviceBox[x], a, Read(i)) /\ a # Read(i) => ~In(deviceBox[x], a)
  BY DEF DeviceReplied, Takes, Minus
<1>2. Started(i)
  BY <1>1 DEF Phases
<1>3. ~Routing(k)
  BY <1>2 DEF AfterRecords, Concerns
<1>4. ~In(deviceBox[x], Record(k))
  BY <1>1, Apart DEF AfterRecords, Concerns
<1> QED
  BY <1>1, <1>3, <1>4 DEF Alive, Concerns

LEMMA NothingRepliedKept ==
    ASSUME Types, Types', Registry, Records, Questions, AfterRecords, Phases, Readings,
           Alive, Event, NEW i \in Ask, NEW k \in Told, Concerns(i, k), Complete(i, k),
           NEW x \in Number, In(queryBox'[i], Reading(x, None))
    PROVE  ~SameDevice(k, x)'
<1>1. CASE In(queryBox[i], Reading(x, None))
  <2>1. ~SameDevice(k, x)
    BY <1>1 DEF Complete
  <2>2. x \in Told
    <3>1. Replied(i, x)
      BY <1>1 DEF Replied
    <3>2. x \in query[i].pending
      BY <3>1 DEF Readings, ReadingsOf
    <3> QED
      BY <3>2 DEF Phases
  <2> QED
    BY <2>1, <2>2, ToldStays
<1>2. CASE ~In(queryBox[i], Reading(x, None))
  <2>1. /\ DeviceReplied(x, i) /\ query[i].phase # "stopped"
        /\ device[x].reading = None
    <3>1. None \in {None} \cup Number
      OBVIOUS
    <3> QED
      BY <1>2, <3>1, ReadingsFromDevices
  <2>2. ~SameDevice(k, x) /\ told' = told
    BY <2>1, RepliesCount DEF DeviceReplied
  <2> QED
    BY <2>2, SameTold
<1> QED
  BY <1>1, <1>2

\* An answer counts whom it has to.
LEMMA AnswersKept ==
    ASSUME Types, Types', Registry, Signals, Records, Questions, AfterRecords, Phases,
           Readings, Freshness, Alive, Event, manager' = "up",
           NEW i \in Ask, NEW k \in Told, Concerns(i, k), Complete(i, k),
           ~QuestionAsked(i), asked'[i].status = "answered"
    PROVE  Counts(asked[i].counted, k)'
<1>1. /\ \A l \in Told : SameDevice(l, k)' <=> SameDevice(l, k)
      /\ \A l \in asked[i].counted : l \in Told
      /\ \A l \in query[i].counted : l \in Told
  BY ToldStays DEF Freshness, FreshSet, Fresh
<1>2. CASE asked[i].status = "answered" /\ asked'[i].counted = asked[i].counted
  BY <1>1, <1>2 DEF Complete, Counts
<1>3. ASSUME NEW box, Dropped(box) PROVE asked'[i] = asked[i]
  BY <1>3 DEF Dropped
<1>4. CASE QuestionRefused(i)
  <2>1. /\ group[asked[i].group] # "up"
        /\ \A a : Ahead(managerBox, a, Average(i)) /\ a # Average(i) => ~In(managerBox, a)
    BY <1>4 DEF QuestionRefused, Minus
  <2>2. ~In(managerBox, Record(k))
    BY <2>1, Apart DEF AfterRecords, Concerns
  <2> QED
    BY <2>1, <2>2 DEF Alive, Concerns
<1>5. CASE Ending(i)
  <2>1. QueryEnded(i)
    BY <1>5, Ended
  <2>2. /\ query[i].phase \in {"starting", "running"} /\ told' = told
        /\ Started(i) /\ query[i].phase # "stopped"
    BY <2>1 DEF QueryEnded, Started
  <2>3. Counts(query[i].counted, k) \/ Waits(i, k)
    BY <2>2 DEF Complete
  <2>4. CASE EndedAtOnce(i)
    <3>1. query[i].todo = {} /\ query[i].pending = {} /\ query[i].counted = {}
      BY <2>4 DEF EndedAtOnce, Phases
    <3> QED
      BY <2>3, <3>1 DEF Counts, Waits
  <2>5. ASSUME NEW x \in Number, NEW r \in {None} \cup Number, LastCollected(i, x, r)
        PROVE  Counts(asked[i].counted, k)'
    <3>1. /\ query[i].todo = {} /\ query[i].pending \subseteq {x}
          /\ In(queryBox[i], Reading(x, r))
          /\ asked'[i].counted = query[i].counted \cup ({r} \ {None})
      BY <2>5 DEF LastCollected, Phases
    <3>2. Counts(asked'[i].counted, k)
      <4>1. CASE SameDevice(x, k)
        BY <3>1, <4>1, CollectedCounts
      <4>2. CASE ~SameDevice(x, k)
        BY <2>3, <3>1, <4>2 DEF Counts, Waits
      <4> QED
        BY <4>1, <4>2
    <3> QED
      BY <2>2, <3>2, SameTold DEF Counts
  <2>6. ASSUME NEW x \in Number, LastGivenUp(i, x)
        PROVE  Counts(asked[i].counted, k)'
    <3>1. /\ query[i].todo = {} /\ query[i].pending = {x}
          /\ In(queryBox[i], Terminated(x))
          /\ asked'[i].counted = query[i].counted
      BY <2>6 DEF LastGivenUp, Phases
    <3>2. ~SameDevice(x, k)
      BY <3>1, SignalledUnsound DEF Concerns
    <3> QED
      BY <1>1, <2>3, <3>1, <3>2 DEF Counts, Waits
  <2>7. ~QueryStopped(i)
    BY DEF QueryStopped
  <2> QED
    BY <1>5, <2>4, <2>5, <2>6, <2>7 DEF Ending
<1>6. CASE ~QuestionRefused(i) /\ ~Ending(i)
  <2>1. asked'[i] = asked[i]
    <3>1. CASE ManagerEvent
      BY <1>3, <1>6, <3>1 DEF ManagerEvent, RecordTold, QuestionAsked, ShutdownTold,
         RecordRouted, QuestionRouted, QuestionRefused, QuestionSlipped,
         ManagerDrained, ManagerStopped, Elsewhere
    <3>2. CASE GroupEvent
      BY <1>3, <3>2 DEF GroupEvent, DeviceSpawned, RecordForwarded, QuerySpawned,
         DevicePruned, GroupStopped
    <3>3. CASE QueryEvent
      BY <1>6, <3>3, Ended DEF QueryEvent, QueryBegun, QueryEnded, DeviceAsked,
         ReadingCollected, DeviceGivenUp, DeviceDone, SignalIgnored, Elsewhere
    <3> QED
      BY <3>1, <3>2, <3>3, DeviceFrame DEF Event
  <2> QED
    BY <1>2, <2>1
<1> QED
  BY <1>4, <1>5, <1>6

\* A question that has just been asked has neither a query nor an answer.
LEMMA AskedIsComplete ==
    ASSUME Types, Questions, Phases, NEW i \in Ask, QuestionAsked(i), NEW k
    PROVE  Complete(i, k)'
<1>1. /\ asked[i].status = "unasked" /\ asked'[i].status = "pending"
      /\ UNCHANGED <<query, queryBox>>
  BY DEF QuestionAsked
<1>2. ~Started(i)
  BY <1>1 DEF Questions
<1>3. queryBox[i] = <<>>
  BY <1>2 DEF Phases
<1>4. \A m : ~In(queryBox'[i], m)
  BY <1>1, <1>3, Emptied
<1> QED
  BY <1>1, <1>2, <1>4 DEF Complete, Started

LEMMA CompletenessKept ==
    ASSUME Types, Types', NoDuplicates, Registry, Signals, Records, Questions, Phases,
           Phases', Readings, AfterRecords, Freshness, Freshness', Alive, Alive', Event,
           Completeness, manager' = "up"
    PROVE  Completeness'
<1> SUFFICES ASSUME NEW i \in Ask, NEW k \in Told', Concerns(i, k)'
             PROVE  Complete(i, k)'
  BY DEF Completeness
<1>1. CASE QuestionAsked(i)
  BY <1>1, AskedIsComplete
<1>2. CASE ~QuestionAsked(i)
  <2>1. k \in 1 .. asked[i].since /\ k \in Told
    BY <1>2, SinceStays DEF Concerns
  <2>2. /\ told'[k] = told[k] /\ asked'[i].group = asked[i].group
        /\ Steady(k) /\ Steady(k)'
    BY <2>1, ToldStays, QuestionFrame, UnsoundStays DEF Concerns
  <2>3. Concerns(i, k) /\ Complete(i, k)
    BY <2>1, <2>2 DEF Concerns, Completeness
  <2>4. Started(i)' /\ query'[i].phase # "stopped" =>
           Counts(query[i].counted, k)' \/ Waits(i, k)'
    BY <2>1, <2>2, <2>3, CountingKept DEF Concerns
  <2>5. \A x \in Number : In(queryBox'[i], Reading(x, None)) => ~SameDevice(k, x)'
    BY <2>1, <2>3, NothingRepliedKept
  <2>6. asked'[i].status = "answered" => Counts(asked[i].counted, k)'
    BY <1>2, <2>1, <2>3, AnswersKept
  <2> QED
    BY <2>4, <2>5, <2>6 DEF Complete
<1> QED
  BY <1>1, <1>2

-----------------------------------------------------------------------------
\* What an answer needs besides to be complete.
Lively ==
    /\ Restarting
    /\ manager = "up" => Alive /\ Completeness

LEMMA InitLively == Init => Lively
<1> SUFFICES ASSUME Init PROVE Lively
  OBVIOUS
<1>1. /\ Told = {}
      /\ \A g \in Group : group[g] = "unborn"
      /\ \A x \in Number : device[x].life = "unborn"
  <2>1. Len(told) = 0
    BY DEF Init
  <2> QED
    BY <2>1 DEF Init, Told
<1>2. Restarting /\ Completeness
  BY <1>1 DEF Restarting, Completeness
<1>3. Alive
  BY <1>1 DEF Alive
<1> QED
  BY <1>2, <1>3 DEF Lively

LEMMA LivelyKept ==
    Coherent /\ Coherent' /\ Ordered /\ Ordered' /\ Lively /\ [Next]_vars => Lively'
<1> SUFFICES ASSUME Coherent, Coherent', Ordered, Ordered', Lively, [Next]_vars
             PROVE  Lively'
  OBVIOUS
<1>1. /\ Types /\ Types' /\ NoDuplicates /\ Registry /\ Signals /\ Records /\ Questions
      /\ Phases /\ Phases' /\ Readings
      /\ InSequence /\ AfterRecords /\ Freshness /\ Freshness' /\ Restarting
  BY DEF Coherent, Ordered, Lively
<1>2. CASE Next
  <2>1. Event
    BY <1>1, <1>2, EveryStep
  <2>2. Restarting'
    BY <1>1, <2>1, RestartingKept
  <2>3. ASSUME manager' = "up" PROVE Alive' /\ Completeness'
    <3>1. Alive /\ Completeness
      BY <2>1, <2>3, ManagerUp DEF Lively
    <3>2. Alive'
      BY <1>1, <2>1, <2>3, <3>1, AliveKept
    <3> QED
      BY <1>1, <2>1, <2>3, <3>1, <3>2, CompletenessKept
  <2> QED
    BY <2>2, <2>3 DEF Lively
<1>3. CASE UNCHANGED vars
  <2>1. UNCHANGED <<told, asked, manager, managerBox, group, groupBox, devices, query,
                    queryBox, device, deviceBox, watchers>>
    BY <1>3 DEF vars, clients, managers, groups, queries, incarnations
  <2>2. Restarting'
    BY <1>1, <2>1 DEF Restarting, Failed, InvalidRecords, SameDevice, Routing, Told
  <2>3. Alive => Alive'
    BY <2>1 DEF Alive, Sound, Steady, InvalidRecords, SameDevice, Routing, Told
  <2>4. Completeness => Completeness'
    <3>1. \A i, k : Concerns(i, k)' <=> Concerns(i, k)
      BY <2>1 DEF Concerns, Steady, Sound, InvalidRecords, SameDevice, Told
    <3>2. \A i, k : Complete(i, k)' <=> Complete(i, k)
      BY <2>1 DEF Complete, Counts, Waits, SameDevice, Started
    <3> QED
      BY <2>1, <3>1, <3>2 DEF Completeness, Told
  <2> QED
    BY <2>1, <2>2, <2>3, <2>4 DEF Lively
<1> QED
  BY <1>2, <1>3

LEMMA LivelyImpliesComplete == Coherent /\ Lively => AnswersAreComplete
<1> SUFFICES ASSUME Coherent, Lively, manager = "up",
                    NEW i \in Ask, asked[i].status = "answered",
                    NEW k \in 1 .. asked[i].since,
                    told[k].group = asked[i].group,
                    \A l \in DOMAIN told :
                       (SameDevice(k, l) /\ l >= k) => told[l].valid,
                    Cardinality(InvalidRecords(k)) <= MaxRestarts
             PROVE  \E l \in asked[i].counted : SameDevice(k, l)
  BY DEF AnswersAreComplete
<1>1. Types /\ Questions /\ Completeness
  BY DEF Coherent, Lively
<1>2. DOMAIN told = Told
  BY <1>1, LenProperties DEF Types, Told
<1>3. k \in Told
  <2>1. /\ asked[i].since \in 0 .. MaxRecords /\ asked[i].since <= Len(told)
        /\ Len(told) \in Nat
    BY <1>1, LenProperties DEF Types, Question, Questions
  <2>2. \A s \in 0 .. MaxRecords : \A n \in Nat : \A m \in 1 .. s :
           s <= n => m \in 1 .. n
    OBVIOUS
  <2> QED
    BY <2>1, <2>2 DEF Told
<1>4. Concerns(i, k)
  BY <1>2 DEF Concerns, Steady, Sound
<1>5. Counts(asked[i].counted, k)
  BY <1>1, <1>3, <1>4 DEF Completeness, Complete
<1> QED
  BY <1>5 DEF Counts, SameDevice

\* While the manager is up, a device ends only of more failures than its restarts
\* make up for, and every other one with a record told before a question is counted or
\* waited for until the question is answered.
THEOREM DeviceManagerLives == Spec => []Lively
<1>1. Init => Lively
  BY InitLively
<1>2. Coherent /\ Coherent' /\ Ordered /\ Ordered' /\ Lively /\ [Next]_vars => Lively'
  BY LivelyKept
<1> QED
  BY <1>1, <1>2, DeviceManagerCoherence, DeviceManagerOrder, PTL DEF Spec

\* While the manager is up, an answer counts every device with a valid record told
\* before the question, failures that its restarts do not make up for excepted.
THEOREM CompleteAnswers == Spec => []AnswersAreComplete
<1>1. Coherent /\ Lively => AnswersAreComplete
  BY LivelyImpliesComplete
<1> QED
  BY <1>1, DeviceManagerCoherence, DeviceManagerLives, PTL
=============================================================================
