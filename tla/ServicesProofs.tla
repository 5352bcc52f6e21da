---------------------------- MODULE ServicesProofs ----------------------------
(*****************************************************************************)
(* What holds of the services around the executor for any number of callers  *)
(* and any values of their bounds: the sequence numbers of a workflow's      *)
(* events, the streams of the hub, the sessions of the agents, the reloads   *)
(* of a server, the claims of the scheduler, the versions of a template and  *)
(* the files that actions write. Each part has its own invariant.            *)
(*****************************************************************************)
EXTENDS EventLog, EventHub, Sessions, ServerProcess, Scheduler, ToolServer, FileActions,
        DataLemmas

(* Event log. *)

AppendLabels == {"idle", "lock", "read", "insert", "commit", "refused"}

EventLogTypeOK ==
  /\ events \in Seq(Nat)
  /\ writeLock \in Appenders \cup {Unheld}
  /\ append \in [Appenders -> [at : AppendLabels, seq : Nat, snapshot : Int]]

\* From the lock to the commit a call is the only writer.
WriterIsAlone ==
  \A a \in Appenders : append[a].at \in {"read", "insert", "commit"} => writeLock = a

\* The number a writer has read is still the next one.
NumberIsNext ==
  \A a \in Appenders :
    append[a].at \in {"insert", "commit"} => append[a].seq = Len(events) + 1

EventLogInv == EventLogTypeOK /\ WriterIsAlone /\ NumberIsNext /\ AppendsAreSerial

-----------------------------------------------------------------------------

\* How many numbers of a dense log come before the i-th.
LEMMA DenseRank ==
  ASSUME NEW k \in Nat, NEW i \in 1..k
  PROVE  Cardinality({m \in 1..k : m < i}) = i - 1
<1>1. {m \in 1..k : m < i} = 1..(i - 1)
  OBVIOUS
<1>2. CASE i = 1
  BY <1>1, <1>2, FS_EmptySet
<1>3. CASE i # 1
  <2>1. 1 \in Int /\ i - 1 \in Int /\ 1 <= i - 1
    BY <1>3
  <2>2. Cardinality(1..(i - 1)) = (i - 1) - 1 + 1
    BY <2>1, FS_Interval
  <2>3. (i - 1) - 1 + 1 = i - 1
    OBVIOUS
  <2> QED
    BY <1>1, <2>2, <2>3, Zenon
<1> QED
  BY <1>2, <1>3

\* A dense log is read in its order, and its last number is its length
\* (libsql.go:363-374, eventlog.go:47-53).
LEMMA DenseLogIsRead ==
  ASSUME events \in Seq(Nat), \A i \in DOMAIN events : events[i] = i
  PROVE  /\ LastSequence = Len(events)
         /\ DOMAIN GetEvents = DOMAIN events
         /\ \A i \in DOMAIN events : GetEvents[i] = i
<1>1. Len(events) \in Nat /\ DOMAIN events = 1..Len(events)
  OBVIOUS
<1>2. Numbers = 1..Len(events)
  BY <1>1 DEF Numbers
<1>3. LastSequence = Len(events)
  <2>1. CASE events = <<>>
    BY <2>1 DEF LastSequence
  <2>2. CASE events # <<>>
    <3>1. Len(events) \in Numbers /\ \A m \in Numbers : m <= Len(events)
      BY <1>1, <1>2, <2>2
    <3>2. ASSUME NEW n \in Numbers, \A m \in Numbers : m <= n
          PROVE  n = Len(events)
      <4>1. Len(events) <= n
        BY <3>1, <3>2
      <4>2. n <= Len(events) /\ n \in Nat
        BY <1>1, <1>2
      <4>3. n \in Int /\ Len(events) \in Int
        BY <1>1, <4>2
      <4> QED
        BY <4>1, <4>2, <4>3
    <3> QED
      BY <2>2, <3>1, <3>2 DEF LastSequence
  <2> QED
    BY <2>1, <2>2
<1>4. ASSUME NEW i \in DOMAIN events PROVE GetEvents[i] = i
  <2>1. \A n \in Numbers : Cardinality({m \in Numbers : m < n}) = n - 1
    BY <1>1, <1>2, DenseRank
  <2>2. i \in Numbers /\ i \in Nat /\ \A n \in Numbers : n \in Nat
    BY <1>1, <1>2, <1>4
  <2>3. \A n \in Numbers : Cardinality({m \in Numbers : m < n}) = i - 1 <=> n = i
    BY <2>1, <2>2
  <2>4. (CHOOSE n \in Numbers : Cardinality({m \in Numbers : m < n}) = i - 1) = i
    BY <2>2, <2>3
  <2> QED
    BY <1>4, <2>4 DEF GetEvents
<1>5. DOMAIN GetEvents = DOMAIN events
  BY DEF GetEvents
<1> QED
  BY <1>3, <1>4, <1>5

-----------------------------------------------------------------------------

\* At the start the log is empty and nobody appends.
LEMMA EventLogInvInit == EventLogInit => EventLogInv
BY DEF EventLogInit, EventLogInv, EventLogTypeOK, WriterIsAlone, NumberIsNext,
       AppendsAreSerial, SequencesAreDense, NoAppendIsRefused, AppendLabels,
       NoAppend, AppendAt

\* Calls, processes that die and readers keep the invariant
\* (eventlog.go:24-76).
LEMMA EventLogInvNext == EventLogInv /\ [EventLogNext]_eventLogVars => EventLogInv'
<1> SUFFICES ASSUME EventLogInv, [EventLogNext]_eventLogVars PROVE EventLogInv'
  OBVIOUS
<1> USE EventLogAssumption
        DEF EventLogInv, EventLogTypeOK, WriterIsAlone, NumberIsNext,
            AppendsAreSerial, SequencesAreDense, NoAppendIsRefused,
            AppendLabels, NoAppend, AppendAt
<1>1. ASSUME NEW a \in Appenders, BeginAppend(a) PROVE EventLogInv'
  BY <1>1 DEF BeginAppend
<1>2. ASSUME NEW a \in Appenders, TakeWriteLock(a) PROVE EventLogInv'
  BY <1>2 DEF TakeWriteLock
<1>3. ASSUME NEW a \in Appenders, ReadSequence(a) PROVE EventLogInv'
  <2>1. LastSequence = Len(events) /\ Len(events) \in Nat
    BY DenseLogIsRead
  <2> QED
    BY <1>3, <2>1 DEF ReadSequence
<1>4. ASSUME NEW a \in Appenders, Insert(a) PROVE EventLogInv'
  <2>1. writeLock = a /\ a # Unheld
    BY <1>4 DEF Insert
  <2>2. /\ writeLock' = a /\ events' = events /\ seen' = seen
        /\ append' = [append EXCEPT ![a].at = "commit"]
    BY <1>4, <2>1 DEF Insert
  <2>3. append[a].at = "insert"
    BY <1>4 DEF Insert
  <2>4. EventLogTypeOK'
    BY <2>1, <2>2, <2>3
  <2>5. WriterIsAlone' /\ NumberIsNext'
    BY <2>1, <2>2, <2>3
  <2>6. AppendsAreSerial'
    BY <2>2
  <2> QED
    BY <2>4, <2>5, <2>6
<1>5. ASSUME NEW a \in Appenders, Commit(a) PROVE EventLogInv'
  <2>1. append[a].seq = Len(events) + 1 /\ writeLock = a
    BY <1>5 DEF Commit
  <2>2. /\ events' \in Seq(Nat) /\ Len(events') = Len(events) + 1
        /\ \A i \in DOMAIN events' : events'[i] = i
    BY <1>5, <2>1 DEF Commit
  <2>3. \A b \in Appenders : b # a => append[b].at \notin {"read", "insert", "commit"}
    BY <2>1
  <2>4. writeLock' = Unheld
    BY <1>5, <2>1 DEF Commit, Release
  <2> QED
    BY <1>5, <2>2, <2>3, <2>4 DEF Commit
<1>6. ASSUME NEW a \in Appenders, Rollback(a) PROVE EventLogInv'
  BY <1>6 DEF Rollback, Release
<1>7. ASSUME NEW p \in Processes, Die(p) PROVE EventLogInv'
  BY <1>7 DEF Die
<1>8. CASE Poll
  <2>1. DOMAIN seen' = DOMAIN events /\ \A i \in DOMAIN events : seen'[i] = i
    BY <1>8, DenseLogIsRead DEF Poll
  <2> QED
    BY <1>8, <2>1 DEF Poll
<1>9. CASE UNCHANGED eventLogVars
  BY <1>9 DEF eventLogVars
<1> QED
  BY <1>1, <1>2, <1>3, <1>4, <1>5, <1>6, <1>7, <1>8, <1>9 DEF EventLogNext

\* Appends are one after the other, each with the next number, and none is
\* refused, for any number of processes that share the file
\* (eventlog.go:35-45 makes a writer of the transaction before it reads).
THEOREM AppendsStaySerial == EventLogSpec => []AppendsAreSerial
<1>1. EventLogInv => AppendsAreSerial
  BY DEF EventLogInv
<1> QED
  BY <1>1, EventLogInvInit, EventLogInvNext, PTL DEF EventLogSpec

-----------------------------------------------------------------------------
(* Event hub. *)

StreamType ==
  [at : {"new", "open", "leaving", "closed"}, filter : Workflows \cup {AllEvents},
   since : Nat, channel : Seq(Nat), written : Seq(Nat), dropped : SUBSET Nat]
EventType == [workflow : Workflows, after : SUBSET Nat]
PublisherType == [event : Nat, left : SUBSET Streams]

HubTypeOK ==
  /\ emitted \in Seq(EventType)
  /\ publishing \in [Publishers -> PublisherType]
  /\ stream \in [Streams -> StreamType]

\* A handler that has yet to subscribe has nothing, and one that has did so
\* after some number of events.
HandlersStartEmpty ==
  \A s \in Streams :
    /\ stream[s].at = "new" => /\ stream[s].channel = <<>>
                               /\ stream[s].written = <<>>
                               /\ stream[s].dropped = {}
    /\ Subscribed(s) => stream[s].since <= Len(emitted)

\* What a publisher with the lock has yet to do: its event is its own, and goes
\* to handlers that subscribed before it and want it.
HoldsLock(p) ==
  /\ publishing[p].event \in 0..Len(emitted)
  /\ \A q \in Publishers \ {p} :
       publishing[p].event = publishing[q].event => publishing[p].event = 0
  /\ \A s \in publishing[p].left :
       /\ publishing[p].event > stream[s].since /\ Subscribed(s)
       /\ MatchFilter(s, emitted[publishing[p].event].workflow)

\* No event was begun after one that is still being sent had been published.
AfterIsOver ==
  \A m \in 1..Len(emitted) :
    /\ emitted[m].after \in SUBSET (1..Len(emitted))
    /\ \A p \in Publishers : publishing[p].event \notin emitted[m].after

HubInv ==
  /\ HubTypeOK /\ HandlersStartEmpty
  /\ \A p \in Publishers : HoldsLock(p)
  /\ AfterIsOver /\ StreamsAreFaithful

-----------------------------------------------------------------------------

Entries(q) == {q[i] : i \in DOMAIN q}
Got(r) == r.written \o r.channel
Wanted(r, log) ==
  {n \in (r.since + 1)..Len(log) : r.filter \in {AllEvents, log[n].workflow}}
Ordered(q, log) ==
  \A i, j \in DOMAIN q : i < j => q[i] # q[j] /\ q[j] \notin log[q[i]].after

\* What StreamsAreFaithful asks of one handler.
FaithfulTo(r, log, away) ==
  r.at = "open" => /\ Ordered(Got(r), log)
                   /\ Entries(Got(r)) \cap r.dropped = {}
                   /\ Entries(Got(r)) \cup r.dropped = Wanted(r, log) \ away

LEMMA FaithfulIsPerStream ==
  StreamsAreFaithful <=> \A s \in Streams : FaithfulTo(stream[s], emitted, OnTheWay(s))
BY DEF StreamsAreFaithful, FaithfulTo, OnceInOrder, Ordered, Entries, Got, Wanted, MatchFilter

LEMMA FaithfulIsPerStreamNext ==
  StreamsAreFaithful' <=>
    \A s \in Streams : FaithfulTo(stream'[s], emitted', OnTheWay(s)')
BY DEF StreamsAreFaithful, FaithfulTo, OnceInOrder, Ordered, Entries, Got, Wanted, MatchFilter

\* An event of its own, after which none of the others was begun, keeps a
\* sequence in order.
LEMMA OrderedAppend ==
  ASSUME NEW q \in Seq(Nat), NEW n \in Nat, NEW log, Ordered(q, log),
         \A x \in Entries(q) : x # n /\ n \notin log[x].after
  PROVE  Ordered(Append(q, n), log) /\ Entries(Append(q, n)) = Entries(q) \cup {n}
<1>1. Len(q) \in Nat /\ DOMAIN q = 1..Len(q)
  OBVIOUS
<1>2. /\ DOMAIN Append(q, n) = 1..(Len(q) + 1)
      /\ Append(q, n)[Len(q) + 1] = n
      /\ \A i \in 1..Len(q) : Append(q, n)[i] = q[i] /\ q[i] \in Nat
  BY <1>1
<1>3. \A i \in 1..Len(q) : q[i] # n /\ n \notin log[q[i]].after
  BY <1>1 DEF Entries
<1> DEFINE t == Append(q, n)
<1> HIDE DEF t
<1>4. Ordered(t, log)
  <2> SUFFICES ASSUME NEW i \in DOMAIN t, NEW j \in DOMAIN t, i < j
               PROVE  t[i] # t[j] /\ t[j] \notin log[t[i]].after
    BY DEF Ordered
  <2>1. i \in 1..Len(q) /\ t[i] = q[i]
    BY <1>1, <1>2 DEF t
  <2>2. CASE j \in 1..Len(q)
    BY <1>1, <1>2, <2>1, <2>2 DEF Ordered, t
  <2>3. CASE j = Len(q) + 1
    BY <1>2, <1>3, <2>1, <2>3 DEF t
  <2> QED
    BY <1>1, <1>2, <2>2, <2>3 DEF t
<1>5. Entries(Append(q, n)) = Entries(q) \cup {n}
  BY <1>1, <1>2 DEF Entries
<1> QED
  BY <1>4, <1>5 DEF t

\* Writing an event out moves it within what a handler has.
LEMMA ServeKeepsGot ==
  ASSUME NEW w \in Seq(Nat), NEW c \in Seq(Nat), c # <<>>
  PROVE  Append(w, Head(c)) \o Tail(c) = w \o c
<1>1. /\ Head(c) \in Nat /\ Tail(c) \in Seq(Nat) /\ Len(c) \in Nat
      /\ Len(Tail(c)) = Len(c) - 1 /\ Head(c) = c[1]
      /\ \A i \in 1..(Len(c) - 1) : Tail(c)[i] = c[i + 1]
  BY HeadTailProperties, EmptySeq, LenProperties
<1> DEFINE v == Append(w, Head(c))
<1>2. /\ v \in Seq(Nat) /\ Len(w) \in Nat /\ Len(v) = Len(w) + 1
      /\ v[Len(w) + 1] = c[1] /\ \A i \in 1..Len(w) : v[i] = w[i]
  BY <1>1
<1> HIDE DEF v
<1>3. /\ v \o Tail(c) \in Seq(Nat) /\ Len(v \o Tail(c)) = Len(w) + Len(c)
      /\ \A i \in 1..(Len(w) + Len(c)) : (v \o Tail(c))[i] =
            IF i <= Len(w) + 1 THEN v[i] ELSE Tail(c)[i - (Len(w) + 1)]
  <2> DEFINE t == Tail(c)
  <2>1. t \in Seq(Nat) /\ Len(t) = Len(c) - 1
    BY <1>1
  <2> HIDE DEF t
  <2>2. /\ v \o t \in Seq(Nat) /\ Len(v \o t) = Len(v) + Len(t)
        /\ \A i \in 1..(Len(v) + Len(t)) :
              (v \o t)[i] = IF i <= Len(v) THEN v[i] ELSE t[i - Len(v)]
    BY <1>2, <2>1, ConcatProperties
  <2>3. Len(v) + Len(t) = Len(w) + Len(c)
    BY <1>1, <1>2, <2>1
  <2> QED
    BY <1>2, <2>2, <2>3 DEF t
<1>4. /\ w \o c \in Seq(Nat) /\ Len(w \o c) = Len(w) + Len(c)
      /\ \A i \in 1..(Len(w) + Len(c)) :
            (w \o c)[i] = IF i <= Len(w) THEN w[i] ELSE c[i - Len(w)]
  BY <1>1, <1>2, ConcatProperties
<1>5. ASSUME NEW i \in 1..(Len(w) + Len(c))
      PROVE  (v \o Tail(c))[i] = (w \o c)[i]
  <2>1. CASE i <= Len(w)
    BY <1>2, <1>3, <1>4, <2>1
  <2>2. CASE i = Len(w) + 1
    BY <1>1, <1>2, <1>3, <1>4, <2>2
  <2>3. CASE i > Len(w) + 1
    <3>1. i - (Len(w) + 1) \in 1..(Len(c) - 1)
      BY <1>1, <1>2, <2>3
    <3> QED
      BY <1>1, <1>2, <1>3, <1>4, <2>3, <3>1, SMTT(30)
  <2> QED
    BY <1>1, <1>2, <2>1, <2>2, <2>3
<1>6. v \o Tail(c) = w \o c
  BY <1>1, <1>2, <1>3, <1>4, <1>5, SeqEqual
<1> QED
  BY <1>6 DEF v

LEMMA AppendToGot ==
  ASSUME NEW w \in Seq(Nat), NEW c \in Seq(Nat), NEW n \in Nat
  PROVE  w \o Append(c, n) = Append(w \o c, n)
<1>1. <<n>> \in Seq(Nat) /\ Append(c, n) = c \o <<n>>
  OBVIOUS
<1>2. w \o c \in Seq(Nat) /\ Append(w \o c, n) = (w \o c) \o <<n>>
  <2> DEFINE g == w \o c
  <2>1. g \in Seq(Nat)
    BY ConcatProperties
  <2> HIDE DEF g
  <2>2. Append(g, n) = g \o <<n>>
    BY <2>1
  <2> QED
    BY <2>1, <2>2 DEF g
<1> QED
  BY <1>1, <1>2, ConcatAssociative

-----------------------------------------------------------------------------

LEMMA HubInitially == HubInit => HubInv
<1> SUFFICES ASSUME HubInit
             PROVE  HubInv
  OBVIOUS
<1>1. /\ \A s \in Streams : stream[s] = NoStream
      /\ \A p \in Publishers : publishing[p].event = 0 /\ publishing[p].left = {}
      /\ emitted = <<>> /\ Len(emitted) = 0
  BY EmptySeq DEF HubInit, NotPublishing
<1>2. HubTypeOK
  BY EmptySeq DEF HubInit, HubTypeOK, NoStream, StreamType, NotPublishing, PublisherType
<1>3. HandlersStartEmpty
  <2>1. /\ NoStream.at = "new" /\ NoStream.channel = <<>>
        /\ NoStream.written = <<>> /\ NoStream.dropped = {}
    BY DEF NoStream
  <2> QED
    BY <1>1, <2>1 DEF HandlersStartEmpty, Subscribed
<1>4. StreamsAreFaithful
  BY <1>1 DEF StreamsAreFaithful, NoStream
<1>5. \A p \in Publishers : HoldsLock(p)
  BY <1>1 DEF HoldsLock
<1>6. AfterIsOver
  BY <1>1 DEF AfterIsOver
<1> QED
  BY <1>2, <1>3, <1>4, <1>5, <1>6 DEF HubInv

\* What is known of a publisher and of a handler.
LEMMA HubFacts ==
  ASSUME HubInv
  PROVE  /\ Len(emitted) \in Nat /\ emitted \in Seq(EventType)
         /\ \A p \in Publishers :
              /\ publishing[p] \in PublisherType /\ HoldsLock(p)
              /\ publishing[p].event \in 0..Len(emitted)
              /\ publishing[p].left \in SUBSET Streams
              /\ publishing[p].event = 0 => publishing[p].left = {}
         /\ \A s \in Streams :
              /\ stream[s] \in StreamType
              /\ FaithfulTo(stream[s], emitted, OnTheWay(s))
              /\ OnTheWay(s) \in SUBSET (1..Len(emitted))
<1>1. /\ Len(emitted) \in Nat /\ emitted \in Seq(EventType)
      /\ \A s \in Streams : stream[s] \in StreamType
  BY DEF HubInv, HubTypeOK
<1>2. ASSUME NEW p \in Publishers
      PROVE  /\ publishing[p] \in PublisherType /\ HoldsLock(p)
             /\ publishing[p].event \in 0..Len(emitted)
             /\ publishing[p].left \in SUBSET Streams
             /\ publishing[p].event = 0 => publishing[p].left = {}
  <2>1. publishing[p] \in PublisherType /\ HoldsLock(p)
    BY DEF HubInv, HubTypeOK
  <2>2. publishing[p].left \in SUBSET Streams
    BY <2>1 DEF PublisherType
  <2>3. publishing[p].event \in 0..Len(emitted)
    BY <2>1 DEF HoldsLock
  <2>4. \A s \in publishing[p].left : stream[s].since \in Nat
    BY <1>1, <2>2 DEF StreamType
  <2>5. \A s \in publishing[p].left : publishing[p].event > stream[s].since
    BY <2>1 DEF HoldsLock
  <2>6. publishing[p].event = 0 => publishing[p].left = {}
    BY <2>4, <2>5
  <2> QED
    BY <2>1, <2>2, <2>3, <2>6
<1>3. ASSUME NEW s \in Streams
      PROVE  OnTheWay(s) \in SUBSET (1..Len(emitted))
  <2>1. ASSUME NEW p \in Publishers, s \in publishing[p].left
        PROVE  publishing[p].event \in 1..Len(emitted)
    <3>1. publishing[p].event # 0
      BY <1>2, <2>1
    <3> QED
      BY <1>1, <1>2, <3>1
  <2> QED
    BY <2>1 DEF OnTheWay
<1> QED
  BY <1>1, <1>2, <1>3, FaithfulIsPerStream DEF HubInv

\* A publisher gets the lock with a new event, which is on its way to whoever
\* wants it.
LEMMA PublishKeepsHub ==
  ASSUME HubInv, NEW p \in Publishers, NEW w \in Workflows, Publish(p, w)
  PROVE  HubInv'
<1> DEFINE n == Len(emitted) + 1
           e == [workflow |-> w,
                 after |-> (1..Len(emitted)) \ {publishing[q].event : q \in Publishers}]
           to == {s \in Streams : Subscribed(s) /\ MatchFilter(s, w)}
<1>1. /\ emitted' = Append(emitted, e) /\ stream' = stream
      /\ publishing' = [publishing EXCEPT ![p] = [event |-> n, left |-> to]]
      /\ publishing[p].event = 0
  BY DEF Publish
<1>2. /\ e \in EventType /\ e.workflow = w /\ e.after \in SUBSET (1..Len(emitted))
      /\ \A q \in Publishers : publishing[q].event \notin e.after
  <2>1. Len(emitted) \in Nat
    BY HubFacts
  <2> QED
    BY <2>1 DEF EventType
<1> HIDE DEF e
<1>3. /\ Len(emitted) \in Nat /\ emitted' \in Seq(EventType) /\ Len(emitted') = n
      /\ n \in Nat /\ emitted'[n] = e
      /\ \A m \in 1..Len(emitted) : emitted'[m] = emitted[m]
  <2>1. emitted \in Seq(EventType) /\ Len(emitted) \in Nat
    BY HubFacts
  <2> QED
    BY <1>1, <1>2, <2>1, AppendProperties
<1>4. \A q \in Publishers :
        publishing'[q] = IF q = p THEN [event |-> n, left |-> to] ELSE publishing[q]
  BY <1>1 DEF HubInv, HubTypeOK
<1>5. to \in SUBSET Streams /\ publishing[p].left = {}
  BY <1>1, HubFacts
<1> HIDE DEF to
<1>6. HubTypeOK'
  BY <1>1, <1>3, <1>4, <1>5 DEF HubInv, HubTypeOK, PublisherType
<1>7. HandlersStartEmpty'
  <2>1. \A s \in Streams : stream[s].since \in Nat
    BY HubFacts DEF StreamType
  <2> QED
    BY <1>1, <1>3, <2>1 DEF HubInv, HandlersStartEmpty, Subscribed
<1>8. ASSUME NEW q \in Publishers
      PROVE  HoldsLock(q)'
  <2>1. \A r \in Publishers : publishing[r].event \in 0..Len(emitted)
    BY HubFacts
  <2>2. CASE q = p
    <3>1. publishing'[q].event = n /\ publishing'[q].left = to
      BY <1>4, <2>2
    <3>2. \A r \in Publishers \ {q} : publishing'[r].event # n
      BY <1>3, <1>4, <2>1, <2>2
    <3>3. \A s \in to : /\ n > stream[s].since /\ Subscribed(s)
                        /\ MatchFilter(s, emitted'[n].workflow)
      <4>1. \A s \in to : Subscribed(s) /\ MatchFilter(s, w) /\ s \in Streams
        BY DEF to
      <4>2. \A s \in Streams : Subscribed(s) => stream[s].since <= Len(emitted)
                                                /\ stream[s].since \in Nat
        BY HubFacts DEF HubInv, HandlersStartEmpty, StreamType
      <4> QED
        BY <1>2, <1>3, <4>1, <4>2
    <3> QED
      BY <1>1, <1>3, <3>1, <3>2, <3>3 DEF HoldsLock, Subscribed, MatchFilter
  <2>3. CASE q # p
    <3>1. publishing'[q] = publishing[q] /\ HoldsLock(q)
      BY <1>4, <2>3, HubFacts
    <3>2. publishing[q].event \in 0..Len(emitted')
      BY <1>3, <2>1
    <3>3. \A r \in Publishers \ {q} :
            publishing[q].event = publishing'[r].event => publishing[q].event = 0
      BY <1>3, <1>4, <2>1, <3>1 DEF HoldsLock
    <3>4. \A s \in publishing[q].left : publishing[q].event \in 1..Len(emitted)
      BY <1>3, <2>1, HubFacts
    <3> QED
      BY <1>1, <1>3, <3>1, <3>2, <3>3, <3>4 DEF HoldsLock, Subscribed, MatchFilter
  <2> QED
    BY <2>2, <2>3
<1>9. AfterIsOver'
  <2> SUFFICES ASSUME NEW m \in 1..n
               PROVE  /\ emitted'[m].after \in SUBSET (1..n)
                      /\ \A q \in Publishers : publishing'[q].event \notin emitted'[m].after
    BY <1>3 DEF AfterIsOver
  <2>1. /\ emitted'[m].after \in SUBSET (1..Len(emitted))
        /\ \A q \in Publishers : publishing[q].event \notin emitted'[m].after
    <3>1. CASE m = n
      BY <1>2, <1>3, <3>1
    <3>2. CASE m # n
      <4>1. m \in 1..Len(emitted)
        BY <1>3, <3>2
      <4> QED
        BY <1>3, <4>1 DEF HubInv, AfterIsOver
    <3> QED
      BY <3>1, <3>2
  <2>2. n \notin emitted'[m].after
    BY <1>3, <2>1
  <2> QED
    BY <1>3, <1>4, <2>1, <2>2
<1>10. ASSUME NEW s \in Streams
       PROVE  FaithfulTo(stream'[s], emitted', OnTheWay(s)')
  <2> DEFINE r == stream[s]
  <2> SUFFICES ASSUME r.at = "open"
               PROVE  FaithfulTo(r, emitted', OnTheWay(s)')
    BY <1>1 DEF FaithfulTo
  <2>1. /\ Ordered(Got(r), emitted) /\ Entries(Got(r)) \cap r.dropped = {}
        /\ Entries(Got(r)) \cup r.dropped = Wanted(r, emitted) \ OnTheWay(s)
        /\ r.since \in Nat /\ r.since <= Len(emitted)
    BY HubFacts DEF FaithfulTo, HubInv, HandlersStartEmpty, Subscribed, StreamType
  <2>2. Entries(Got(r)) \in SUBSET (1..Len(emitted))
    BY <1>3, <2>1 DEF Wanted
  <2>3. Ordered(Got(r), emitted')
    BY <1>3, <2>1, <2>2 DEF Ordered, Entries
  <2>4. Wanted(r, emitted') = IF MatchFilter(s, w) THEN Wanted(r, emitted) \cup {n}
                              ELSE Wanted(r, emitted)
    BY <1>2, <1>3, <2>1 DEF Wanted, MatchFilter
  <2>5. OnTheWay(s)' = IF MatchFilter(s, w) THEN OnTheWay(s) \cup {n} ELSE OnTheWay(s)
    <3>1. s \in to <=> MatchFilter(s, w)
      BY DEF to, Subscribed
    <3>2. OnTheWay(s)' = {publishing'[q].event : q \in {t \in Publishers : s \in publishing'[t].left}}
      BY DEF OnTheWay
    <3> QED
      BY <1>4, <1>5, <3>1, <3>2 DEF OnTheWay
  <2>6. n \notin Wanted(r, emitted) /\ n \notin OnTheWay(s)
    <3>1. n \notin Wanted(r, emitted)
      BY <1>3 DEF Wanted
    <3>2. OnTheWay(s) \in SUBSET (1..Len(emitted))
      BY HubFacts
    <3> QED
      BY <1>3, <3>1, <3>2
  <2>7. Wanted(r, emitted') \ OnTheWay(s)' = Wanted(r, emitted) \ OnTheWay(s)
    BY <2>4, <2>5, <2>6
  <2> QED
    BY <2>1, <2>3, <2>7 DEF FaithfulTo
<1> QED
  BY <1>6, <1>7, <1>8, <1>9, <1>10, FaithfulIsPerStreamNext DEF HubInv

\* A step that leaves the events and the publishers alone, and one handler with
\* what it owes.
LEMMA HandlerKeepsHub ==
  ASSUME HubInv, NEW s \in Streams, NEW r \in StreamType,
         UNCHANGED <<emitted, publishing>>, stream' = [stream EXCEPT ![s] = r],
         \/ Unread
         \/ /\ Subscribed(s) /\ r.at \in {"open", "leaving"}
            /\ r.filter = stream[s].filter /\ r.since = stream[s].since,
         r.at # "new", r.at \in {"open", "leaving"} => r.since <= Len(emitted),
         FaithfulTo(r, emitted, OnTheWay(s))
  PROVE  HubInv'
<1>1. \A t \in Streams : stream'[t] = IF t = s THEN r ELSE stream[t]
  BY DEF HubInv, HubTypeOK
<1>2. HubTypeOK'
  BY <1>1 DEF HubInv, HubTypeOK
<1>3. HandlersStartEmpty'
  BY <1>1 DEF HubInv, HandlersStartEmpty, Subscribed
<1>4. \A t \in Streams : OnTheWay(t)' = OnTheWay(t)
  BY DEF OnTheWay
<1>5. StreamsAreFaithful'
  <2>1. \A t \in Streams : FaithfulTo(stream'[t], emitted', OnTheWay(t)')
    BY <1>1, <1>4, HubFacts
  <2> QED
    BY <2>1, FaithfulIsPerStreamNext
<1>6. ASSUME NEW p \in Publishers
      PROVE  HoldsLock(p)'
  <2>1. HoldsLock(p) /\ publishing[p].left \in SUBSET Streams
    BY HubFacts
  <2>2. \A t \in publishing[p].left :
          Subscribed(t)' /\ stream'[t].filter = stream[t].filter
          /\ stream'[t].since = stream[t].since
    <3>1. CASE Unread
      BY <3>1, HubFacts DEF Unread
    <3>2. CASE /\ Subscribed(s) /\ r.at \in {"open", "leaving"}
               /\ r.filter = stream[s].filter /\ r.since = stream[s].since
      BY <1>1, <2>1, <3>2 DEF HoldsLock, Subscribed
    <3> QED
      BY <3>1, <3>2
  <2> QED
    BY <2>1, <2>2 DEF HoldsLock, MatchFilter
<1>7. AfterIsOver'
  BY DEF HubInv, AfterIsOver
<1> QED
  BY <1>2, <1>3, <1>5, <1>6, <1>7 DEF HubInv

\* When one publisher is done with one stream, the event is on its way to that
\* one no longer, and to the others as before.
LEMMA SendEndsTheWay ==
  ASSUME HubInv, NEW p \in Publishers, NEW s \in publishing[p].left,
         publishing' = [publishing EXCEPT ![p].left = @ \ {s}]
  PROVE  /\ \A q \in Publishers : /\ publishing'[q].event = publishing[q].event
                                  /\ publishing'[q].left =
                                       IF q = p THEN publishing[p].left \ {s}
                                       ELSE publishing[q].left
         /\ publishing' \in [Publishers -> PublisherType]
         /\ \A t \in Streams : OnTheWay(t)' =
              IF t = s THEN OnTheWay(s) \ {publishing[p].event} ELSE OnTheWay(t)
         /\ publishing[p].event \in OnTheWay(s)
<1> DEFINE e == publishing[p].event
<1>1. /\ publishing \in [Publishers -> PublisherType] /\ e # 0
      /\ publishing[p].left \in SUBSET Streams
  BY HubFacts DEF HubInv, HubTypeOK
<1>2. \A q \in Publishers : /\ publishing'[q].event = publishing[q].event
                            /\ publishing'[q].left =
                                 IF q = p THEN publishing[p].left \ {s}
                                 ELSE publishing[q].left
  BY <1>1 DEF PublisherType
<1>3. publishing' \in [Publishers -> PublisherType]
  BY <1>1 DEF PublisherType
<1>4. \A q \in Publishers : q # p => publishing[q].event # e
  BY <1>1, HubFacts DEF HoldsLock
<1>5. \A t \in Streams : OnTheWay(t)' =
        {publishing[q].event : q \in {u \in Publishers : t \in publishing'[u].left}}
  <2>1. \A t \in Streams : OnTheWay(t)' =
          {publishing'[q].event : q \in {u \in Publishers : t \in publishing'[u].left}}
    BY DEF OnTheWay
  <2> QED
    BY <1>2, <2>1
<1>6. ASSUME NEW t \in Streams, t # s
      PROVE  OnTheWay(t)' = OnTheWay(t)
  <2>1. \A u \in Publishers : t \in publishing'[u].left <=> t \in publishing[u].left
    BY <1>2, <1>6
  <2> QED
    BY <1>5, <2>1 DEF OnTheWay
<1>7. OnTheWay(s)' = OnTheWay(s) \ {e}
  <2>1. \A u \in Publishers :
          s \in publishing'[u].left <=> s \in publishing[u].left /\ u # p
    BY <1>2
  <2>2. \A u \in Publishers : u # p <=> publishing[u].event # e
    BY <1>4
  <2>3. OnTheWay(s)' =
          {publishing[q].event : q \in {u \in Publishers : s \in publishing[u].left /\ u # p}}
    BY <1>1, <1>5, <2>1
  <2> HIDE DEF e
  <2> QED
    BY <2>2, <2>3 DEF OnTheWay
<1>8. e \in OnTheWay(s)
  BY DEF OnTheWay
<1> QED
  BY <1>2, <1>3, <1>6, <1>7, <1>8

\* A stream takes an event that was on its way to it, or has no room for it.
LEMMA SendKeepsFaith ==
  ASSUME NEW r \in StreamType, NEW log, NEW away, NEW e \in Nat, e \in away,
         e \in Wanted(r, log),
         \A n \in Wanted(r, log) : e \notin log[n].after,
         r.at = "open", FaithfulTo(r, log, away)
  PROVE  /\ FaithfulTo([r EXCEPT !.channel = Append(@, e)], log, away \ {e})
         /\ FaithfulTo([r EXCEPT !.dropped = @ \cup {e}], log, away \ {e})
<1>1. /\ Ordered(Got(r), log) /\ Entries(Got(r)) \cap r.dropped = {}
      /\ Entries(Got(r)) \cup r.dropped = Wanted(r, log) \ away
  BY DEF FaithfulTo
<1>2. /\ r.written \in Seq(Nat) /\ r.channel \in Seq(Nat) /\ Got(r) \in Seq(Nat)
  BY ConcatProperties DEF StreamType, Got
<1>3. e \notin Entries(Got(r)) /\ e \notin r.dropped
  BY <1>1
<1>4. Wanted(r, log) \ (away \ {e}) = (Wanted(r, log) \ away) \cup {e}
  OBVIOUS
<1>5. FaithfulTo([r EXCEPT !.channel = Append(@, e)], log, away \ {e})
  <2> DEFINE t == [r EXCEPT !.channel = Append(@, e)]
  <2>1. /\ t.written = r.written /\ t.channel = Append(r.channel, e)
        /\ t.since = r.since /\ t.filter = r.filter /\ t.dropped = r.dropped
    BY DEF StreamType
  <2> HIDE DEF t
  <2>2. Got(t) = Append(Got(r), e) /\ Wanted(t, log) = Wanted(r, log)
    BY <1>2, <2>1, AppendToGot DEF Got, Wanted
  <2>3. \A x \in Entries(Got(r)) : x # e /\ e \notin log[x].after
    BY <1>1, <1>3
  <2>4. Ordered(Got(t), log) /\ Entries(Got(t)) = Entries(Got(r)) \cup {e}
    BY <1>1, <1>2, <2>2, <2>3, OrderedAppend
  <2>5. /\ Entries(Got(t)) \cap t.dropped = {}
        /\ Entries(Got(t)) \cup t.dropped = Wanted(t, log) \ (away \ {e})
    BY <1>1, <1>3, <1>4, <2>1, <2>2, <2>4, ZenonT(20)
  <2>6. FaithfulTo(t, log, away \ {e})
    BY <2>4, <2>5 DEF FaithfulTo
  <2> QED
    BY <2>6 DEF t
<1>6. FaithfulTo([r EXCEPT !.dropped = @ \cup {e}], log, away \ {e})
  <2> DEFINE t == [r EXCEPT !.dropped = @ \cup {e}]
  <2>1. /\ t.written = r.written /\ t.channel = r.channel
        /\ t.since = r.since /\ t.filter = r.filter /\ t.dropped = r.dropped \cup {e}
    BY DEF StreamType
  <2> HIDE DEF t
  <2>2. Got(t) = Got(r) /\ Wanted(t, log) = Wanted(r, log)
    BY <2>1 DEF Got, Wanted
  <2>3. /\ Entries(Got(t)) \cap t.dropped = {}
        /\ Entries(Got(t)) \cup t.dropped = Wanted(t, log) \ (away \ {e})
    BY <1>1, <1>3, <1>4, <2>1, <2>2, ZenonT(20)
  <2>4. FaithfulTo(t, log, away \ {e})
    BY <1>1, <2>2, <2>3 DEF FaithfulTo
  <2> QED
    BY <2>4 DEF t
<1> QED
  BY <1>5, <1>6

LEMMA SendKeepsHub ==
  ASSUME HubInv, NEW p \in Publishers, NEW s \in Streams, Send(p, s)
  PROVE  HubInv'
<1> DEFINE e == publishing[p].event
           r == stream[s]
           taken == [r EXCEPT !.channel = Append(@, e)]
           lost == [r EXCEPT !.dropped = @ \cup {e}]
<1>1. /\ s \in publishing[p].left /\ emitted' = emitted
      /\ publishing' = [publishing EXCEPT ![p].left = @ \ {s}]
  BY DEF Send
<1>2. /\ r \in StreamType /\ Subscribed(s) /\ e \in 1..Len(emitted)
      /\ e > r.since /\ r.filter \in {AllEvents, emitted[e].workflow}
      /\ r.since \in Nat /\ r.since <= Len(emitted) /\ Len(emitted) \in Nat
  <2>1. /\ r \in StreamType /\ HoldsLock(p) /\ Len(emitted) \in Nat
        /\ e \in 1..Len(emitted)
    BY <1>1, HubFacts
  <2> QED
    BY <1>1, <2>1 DEF HoldsLock, MatchFilter, HubInv, HandlersStartEmpty, StreamType
<1>3. /\ \A q \in Publishers : /\ publishing'[q].event = publishing[q].event
                               /\ publishing'[q].left =
                                    IF q = p THEN publishing[p].left \ {s}
                                    ELSE publishing[q].left
      /\ publishing' \in [Publishers -> PublisherType]
      /\ \A t \in Streams : OnTheWay(t)' =
           IF t = s THEN OnTheWay(s) \ {e} ELSE OnTheWay(t)
      /\ e \in OnTheWay(s)
  BY <1>1, SendEndsTheWay
<1>4. stream' = [stream EXCEPT ![s] = taken] \/ stream' = [stream EXCEPT ![s] = lost]
  BY DEF Send, HubInv, HubTypeOK, StreamType
<1>5. /\ taken \in StreamType /\ lost \in StreamType
      /\ taken.at = r.at /\ taken.since = r.since /\ taken.filter = r.filter
      /\ lost.at = r.at /\ lost.since = r.since /\ lost.filter = r.filter
  <2>1. r.channel \in Seq(Nat) /\ Append(r.channel, e) \in Seq(Nat)
    BY <1>2 DEF StreamType
  <2> HIDE DEF e
  <2>2. taken \in StreamType
    BY <1>2, <2>1 DEF StreamType
  <2>3. lost \in StreamType
    <3>1. e \in Nat /\ r.dropped \in SUBSET Nat
      BY <1>2 DEF StreamType
    <3>2. r.dropped \cup {e} \in SUBSET Nat
      BY <3>1
    <3> QED
      BY <1>2, <3>2 DEF StreamType
  <2> QED
    BY <1>2, <2>2, <2>3 DEF StreamType
<1>6. r.at = "open" => /\ FaithfulTo(taken, emitted, OnTheWay(s) \ {e})
                       /\ FaithfulTo(lost, emitted, OnTheWay(s) \ {e})
  <2> SUFFICES ASSUME r.at = "open"
               PROVE  /\ FaithfulTo(taken, emitted, OnTheWay(s) \ {e})
                      /\ FaithfulTo(lost, emitted, OnTheWay(s) \ {e})
    OBVIOUS
  <2>1. e \in Wanted(r, emitted) /\ e \in Nat
    BY <1>2 DEF Wanted
  <2>2. \A n \in Wanted(r, emitted) : e \notin emitted[n].after
    BY <1>2 DEF HubInv, AfterIsOver, Wanted
  <2>3. FaithfulTo(r, emitted, OnTheWay(s))
    BY HubFacts
  <2> QED
    BY <1>2, <1>3, <2>1, <2>2, <2>3, SendKeepsFaith
<1> HIDE DEF taken, lost
<1>7. PICK t \in StreamType :
        /\ stream' = [stream EXCEPT ![s] = t]
        /\ t.at = r.at /\ t.since = r.since /\ t.filter = r.filter
        /\ r.at = "open" => FaithfulTo(t, emitted, OnTheWay(s) \ {e})
  BY <1>4, <1>5, <1>6
<1>8. \A u \in Streams : stream'[u] = IF u = s THEN t ELSE stream[u]
  BY <1>7 DEF HubInv, HubTypeOK
<1>9. HubTypeOK'
  BY <1>1, <1>3, <1>8, <1>7 DEF HubInv, HubTypeOK
<1>10. HandlersStartEmpty'
  BY <1>1, <1>2, <1>7, <1>8 DEF HubInv, HandlersStartEmpty, Subscribed
<1>11. ASSUME NEW q \in Publishers
       PROVE  HoldsLock(q)'
  <2>1. HoldsLock(q) /\ publishing[q].left \in SUBSET Streams
    BY HubFacts
  <2>2. publishing'[q].left \in SUBSET publishing[q].left
    BY <1>3
  <2>3. \A u \in publishing'[q].left :
          /\ stream'[u].at = stream[u].at /\ stream'[u].since = stream[u].since
          /\ stream'[u].filter = stream[u].filter
    BY <1>7, <1>8, <2>1, <2>2
  <2> QED
    BY <1>1, <1>3, <2>1, <2>2, <2>3 DEF HoldsLock, Subscribed, MatchFilter
<1>12. AfterIsOver'
  BY <1>1, <1>3 DEF HubInv, AfterIsOver
<1>13. ASSUME NEW u \in Streams
       PROVE  FaithfulTo(stream'[u], emitted', OnTheWay(u)')
  <2>1. CASE u = s
    <3>1. stream'[u] = t /\ OnTheWay(u)' = OnTheWay(s) \ {e}
      BY <1>3, <1>8, <2>1
    <3> QED
      BY <1>1, <1>7, <3>1 DEF FaithfulTo
  <2>2. CASE u # s
    <3>1. stream'[u] = stream[u] /\ OnTheWay(u)' = OnTheWay(u)
      BY <1>3, <1>8, <2>2
    <3> QED
      BY <1>1, <3>1, HubFacts
  <2> QED
    BY <2>1, <2>2
<1> QED
  BY <1>9, <1>10, <1>11, <1>12, <1>13, FaithfulIsPerStreamNext DEF HubInv

\* A publisher that has sent to everybody leaves nothing on its way.
LEMMA PublishEndsKeepsHub ==
  ASSUME HubInv, NEW p \in Publishers, PublishEnds(p)
  PROVE  HubInv'
<1>1. /\ emitted' = emitted /\ stream' = stream
      /\ publishing' = [publishing EXCEPT ![p] = NotPublishing]
      /\ publishing[p].left = {}
  BY DEF PublishEnds
<1>2. /\ publishing \in [Publishers -> PublisherType]
      /\ NotPublishing \in PublisherType
      /\ NotPublishing.event = 0 /\ NotPublishing.left = {}
  BY DEF HubInv, HubTypeOK, NotPublishing, PublisherType
<1>3. \A q \in Publishers :
        publishing'[q] = IF q = p THEN NotPublishing ELSE publishing[q]
  BY <1>1, <1>2
<1>4. HubTypeOK' /\ HandlersStartEmpty'
  BY <1>1, <1>2 DEF HubInv, HubTypeOK, HandlersStartEmpty, Subscribed
<1>5. ASSUME NEW q \in Publishers
      PROVE  HoldsLock(q)'
  <2>1. HoldsLock(q) /\ Len(emitted) \in Nat
    BY HubFacts
  <2>2. CASE q = p
    BY <1>1, <1>2, <1>3, <2>1, <2>2 DEF HoldsLock
  <2>3. CASE q # p
    BY <1>1, <1>2, <1>3, <2>1, <2>3 DEF HoldsLock, Subscribed, MatchFilter
  <2> QED
    BY <2>2, <2>3
<1>6. AfterIsOver'
  <2>1. \A m \in 1..Len(emitted) : 0 \notin emitted[m].after
    BY HubFacts DEF HubInv, AfterIsOver
  <2> QED
    BY <1>1, <1>2, <1>3, <2>1 DEF HubInv, AfterIsOver
<1>7. ASSUME NEW u \in Streams
      PROVE  OnTheWay(u)' = OnTheWay(u)
  <2>1. \A q \in Publishers : u \in publishing'[q].left <=> u \in publishing[q].left
    BY <1>1, <1>2, <1>3
  <2>2. \A q \in Publishers : u \in publishing[q].left =>
          publishing'[q].event = publishing[q].event
    BY <1>1, <1>3
  <2>3. OnTheWay(u)' =
          {publishing'[q].event : q \in {v \in Publishers : u \in publishing'[v].left}}
    BY DEF OnTheWay
  <2> QED
    BY <2>1, <2>2, <2>3 DEF OnTheWay
<1>8. StreamsAreFaithful'
  <2>1. \A u \in Streams : FaithfulTo(stream'[u], emitted', OnTheWay(u)')
    BY <1>1, <1>7, HubFacts
  <2> QED
    BY <2>1, FaithfulIsPerStreamNext
<1> QED
  BY <1>4, <1>5, <1>6, <1>8 DEF HubInv

LEMMA HubNextKeeps == HubInv /\ [HubNext]_hubVars => HubInv'
<1> SUFFICES ASSUME HubInv, [HubNext]_hubVars
             PROVE  HubInv'
  OBVIOUS
<1>1. emitted \in Seq(EventType) /\ Len(emitted) \in Nat
  BY DEF HubInv, HubTypeOK
<1>2. ASSUME NEW s \in Streams, Serve(s)
      PROVE  HubInv'
  <2> DEFINE c == stream[s].channel
             r == [stream[s] EXCEPT !.channel = Tail(c), !.written = Append(@, Head(c))]
  <2>1. stream[s] \in StreamType /\ FaithfulTo(stream[s], emitted, OnTheWay(s))
    BY HubFacts
  <2>2. /\ stream[s].written \in Seq(Nat) /\ c \in Seq(Nat) /\ c # <<>>
        /\ stream[s].at = "open" /\ stream[s].since <= Len(emitted)
    BY <1>2, <2>1 DEF Serve, StreamType, HubInv, HandlersStartEmpty, Subscribed
  <2>3. Tail(c) \in Seq(Nat) /\ Append(stream[s].written, Head(c)) \in Seq(Nat)
    BY <2>2, HeadTailProperties
  <2>4. r \in StreamType
    BY <2>1, <2>3 DEF StreamType
  <2>5. /\ r.at = "open" /\ r.since = stream[s].since /\ r.channel = Tail(c)
        /\ r.written = Append(stream[s].written, Head(c))
        /\ r.filter = stream[s].filter /\ r.dropped = stream[s].dropped
    BY <2>1, <2>2 DEF StreamType
  <2>6. stream' = [stream EXCEPT ![s] = r] /\ UNCHANGED <<emitted, publishing>>
    BY <1>2, <2>1 DEF Serve, HubInv, HubTypeOK, StreamType
  <2> HIDE DEF r
  <2>7. Got(r) = Got(stream[s]) /\ Wanted(r, emitted) = Wanted(stream[s], emitted)
    BY <2>2, <2>5, ServeKeepsGot DEF Got, Wanted
  <2>8. FaithfulTo(r, emitted, OnTheWay(s))
    BY <2>1, <2>2, <2>5, <2>7 DEF FaithfulTo
  <2>9. Subscribed(s)
    BY <2>2 DEF Subscribed
  <2> QED
    BY <2>2, <2>4, <2>5, <2>6, <2>8, <2>9, HandlerKeepsHub
<1>3. ASSUME NEW s \in Streams, Hangup(s)
      PROVE  HubInv'
  <2> DEFINE r == [stream[s] EXCEPT !.at = "leaving"]
  <2>1. stream[s] \in StreamType
    BY HubFacts
  <2>2. /\ r \in StreamType /\ r.at = "leaving" /\ r.filter = stream[s].filter
        /\ r.since = stream[s].since
    BY <2>1 DEF StreamType
  <2>3. stream' = [stream EXCEPT ![s] = r] /\ UNCHANGED <<emitted, publishing>>
    BY <1>3, <2>1 DEF Hangup, HubInv, HubTypeOK, StreamType
  <2>4. Subscribed(s) /\ r.since <= Len(emitted)
    BY <1>3, <2>2 DEF Hangup, Subscribed, HubInv, HandlersStartEmpty
  <2> HIDE DEF r
  <2>5. FaithfulTo(r, emitted, OnTheWay(s))
    BY <2>2 DEF FaithfulTo
  <2> QED
    BY <2>2, <2>3, <2>4, <2>5, HandlerKeepsHub
<1>4. ASSUME NEW s \in Streams, Cancel(s)
      PROVE  HubInv'
  <2> DEFINE r == [stream[s] EXCEPT !.at = "closed", !.channel = <<>>]
  <2>1. stream[s] \in StreamType
    BY HubFacts
  <2>2. r \in StreamType /\ r.at = "closed"
    BY <2>1, EmptySeq DEF StreamType
  <2>3. /\ stream' = [stream EXCEPT ![s] = r] /\ UNCHANGED <<emitted, publishing>>
        /\ Unread
    BY <1>4, <2>1 DEF Cancel, HubInv, HubTypeOK, StreamType
  <2> HIDE DEF r
  <2>4. FaithfulTo(r, emitted, OnTheWay(s))
    BY <2>2 DEF FaithfulTo
  <2> QED
    BY <2>2, <2>3, <2>4, HandlerKeepsHub
<1>5. ASSUME NEW s \in Streams, NEW f \in Workflows \cup {AllEvents}, Subscribe(s, f)
      PROVE  HubInv'
  <2> DEFINE r == [stream[s] EXCEPT !.at = "open", !.filter = f, !.since = Len(emitted)]
  <2>1. stream[s] \in StreamType /\ stream[s].at = "new" /\ Unread
    BY <1>5, HubFacts DEF Subscribe
  <2>2. /\ stream[s].channel = <<>> /\ stream[s].written = <<>>
        /\ stream[s].dropped = {}
    BY <2>1 DEF HubInv, HandlersStartEmpty
  <2>3. /\ r \in StreamType /\ r.at = "open" /\ r.since = Len(emitted)
        /\ r.channel = <<>> /\ r.written = <<>> /\ r.dropped = {}
    BY <1>1, <2>1, <2>2 DEF StreamType
  <2>4. stream' = [stream EXCEPT ![s] = r] /\ UNCHANGED <<emitted, publishing>>
    BY <1>5, <2>1 DEF Subscribe, HubInv, HubTypeOK, StreamType
  <2> HIDE DEF r
  <2>5. Got(r) = <<>>
    BY <2>3, EmptySeq, ConcatEmptySeq DEF Got
  <2>6. Wanted(r, emitted) = {}
    BY <1>1, <2>3 DEF Wanted
  <2>7. FaithfulTo(r, emitted, OnTheWay(s))
    BY <2>3, <2>5, <2>6 DEF FaithfulTo, Ordered, Entries
  <2>8. r.since <= Len(emitted)
    BY <1>1, <2>3
  <2> QED
    BY <2>1, <2>3, <2>4, <2>7, <2>8, HandlerKeepsHub
<1>6. CASE UNCHANGED hubVars
  <2>1. emitted' = emitted /\ publishing' = publishing /\ stream' = stream
    BY <1>6 DEF hubVars
  <2>2. HubTypeOK' /\ HandlersStartEmpty' /\ AfterIsOver'
    BY <2>1 DEF HubInv, HubTypeOK, HandlersStartEmpty, Subscribed, AfterIsOver
  <2>3. \A p \in Publishers : HoldsLock(p)'
    BY <2>1 DEF HubInv, HoldsLock, Subscribed, MatchFilter
  <2>4. \A s \in Streams : FaithfulTo(stream'[s], emitted', OnTheWay(s)')
    BY <2>1, HubFacts DEF OnTheWay
  <2> QED
    BY <2>2, <2>3, <2>4, FaithfulIsPerStreamNext DEF HubInv
<1> QED
  BY <1>2, <1>3, <1>4, <1>5, <1>6, PublishKeepsHub, SendKeepsHub, PublishEndsKeepsHub
     DEF HubNext

\* However many streams, events and publishers at the same time, and whatever
\* the size of a channel: an open stream has once every event of its filter
\* since it subscribed, and none before one whose publisher had returned when its
\* own began, but for those still on their way and those that its own channel had
\* no room for (memory_hub.go:31-52, where publishers share the lock).
THEOREM StreamsMissNothing == HubSpec => []StreamsAreFaithful
<1>1. HubInv => StreamsAreFaithful
  BY DEF HubInv
<1> QED
  BY <1>1, HubInitially, HubNextKeeps, PTL DEF HubSpec

-----------------------------------------------------------------------------
(* Sessions. *)

SessionOrNone == Channels \cup {NoSession}

SessionsTypeOK ==
  /\ session \in [AgentIds -> SessionOrNone]
  /\ alive \in [Channels -> {"new", "open", "closed"}]
  /\ current \in [AgentIds -> SessionOrNone]
  /\ notify \in [Notifiers -> [at : {"idle", "send", "remove"}, to : SessionOrNone]]

\* A session that is remembered, or that a notification is for, was opened.
SessionsWereOpened ==
  /\ \A a \in AgentIds : session[a] # NoSession => alive[session[a]] # "new"
  /\ \A n \in Notifiers :
       notify[n].at # "idle" => notify[n].to \in Channels /\ alive[notify[n].to] # "new"

\* What is removed is closed, before and after.
RemovedIsClosed ==
  \A n \in Notifiers : notify[n].at = "remove" => alive[notify[n].to] = "closed"

\* The registry has the last session of an agent or, if that is closed, none.
SessionIsCurrent ==
  \A a \in AgentIds :
    session[a] # current[a]
      => /\ session[a] = NoSession
         /\ current[a] \in Channels /\ alive[current[a]] = "closed"

SessionsInv ==
  SessionsTypeOK /\ SessionsWereOpened /\ RemovedIsClosed /\ SessionIsCurrent

-----------------------------------------------------------------------------

\* At the start nobody has a session (sessions.go:14-19).
LEMMA SessionsInvInit == SessionsInit => SessionsInv
BY DEF SessionsInit, SessionsInv, SessionsTypeOK, SessionOrNone, NoNotify,
       SessionsWereOpened, RemovedIsClosed, SessionIsCurrent

\* Every step of agents and notifications keeps the invariant
\* (sessions.go:21-43, notifier.go:27-40).
LEMMA SessionsInvNext == SessionsInv /\ [SessionsNext]_sessionVars => SessionsInv'
<1> SUFFICES ASSUME SessionsInv, [SessionsNext]_sessionVars PROVE SessionsInv'
  OBVIOUS
<1> USE SessionsAssumption
        DEF SessionsInv, SessionsTypeOK, SessionOrNone, NoNotify,
            SessionsWereOpened, RemovedIsClosed, SessionIsCurrent
<1>1. ASSUME NEW c \in Channels, Connect(c) PROVE SessionsInv'
  BY <1>1 DEF Connect
<1>2. ASSUME NEW c \in Channels, Disconnect(c) PROVE SessionsInv'
  BY <1>2 DEF Disconnect
<1>3. ASSUME NEW a \in AgentIds, NEW c \in Channels, CaptureSession(a, c)
      PROVE SessionsInv'
  BY <1>3 DEF CaptureSession
<1>4. ASSUME NEW n \in Notifiers, NEW a \in AgentIds, NotifyLookup(n, a)
      PROVE SessionsInv'
  BY <1>4 DEF NotifyLookup
<1>5. ASSUME NEW n \in Notifiers, NotifySend(n) PROVE SessionsInv'
  <2>1. CASE alive[notify[n].to] = "open"
    BY <1>5, <2>1 DEF NotifySend
  <2>2. CASE alive[notify[n].to] # "open"
    <3>1. notify[n].to \in Channels /\ alive[notify[n].to] = "closed"
      BY <1>5, <2>2 DEF NotifySend
    <3> QED
      BY <1>5, <2>2, <3>1 DEF NotifySend
  <2> QED
    BY <2>1, <2>2
<1>6. ASSUME NEW n \in Notifiers, NotifyRemove(n) PROVE SessionsInv'
  BY <1>6 DEF NotifyRemove
<1>7. CASE UNCHANGED sessionVars
  BY <1>7 DEF sessionVars
<1> QED
  BY <1>1, <1>2, <1>3, <1>4, <1>5, <1>6, <1>7 DEF SessionsNext

\* Cleaning up after a session that is gone never takes back a reconnection,
\* for any number of agents, sessions and notifications on their way
\* (sessions.go:35-43 deletes by session, not by agent).
THEOREM AgentsStayReachable == SessionsSpec => []ConnectedIsReachable
<1>1. SessionsInv => ConnectedIsReachable
  BY DEF SessionsInv, SessionIsCurrent, ConnectedIsReachable
<1> QED
  BY <1>1, SessionsInvInit, SessionsInvNext, PTL DEF SessionsSpec

-----------------------------------------------------------------------------
(* Processes. *)

ProcessLabels == {"new", "load", "boot", "starting", "ready", "serving",
                  "stopping", "cut", "find", "signal", "gone"}
ConfigType == [panel : BOOLEAN, version : Int]

ProcessTypeOK ==
  /\ at \in [Procs -> ProcessLabels]
  /\ settings \in [panel : BOOLEAN, version : Nat]
  /\ cfg \in [Procs -> ConfigType]
  /\ panelOn \in [Procs -> BOOLEAN]
  /\ hup \in [Procs -> BOOLEAN]
  /\ loaded \in [Procs -> ConfigType]
  /\ owed \in [Procs -> Nat]
  /\ torn \in [Procs -> BOOLEAN]

\* Nobody asks a process for a reload before it handles signals.
NotYetAsked ==
  \A p \in Procs :
    at[p] \in {"new", "cut", "find", "signal", "load", "boot", "starting"}
      => ~hup[p] /\ loaded[p] = NoConfig /\ owed[p] = 0 /\ ~torn[p]

\* What is in force is no newer than what a reload has read, but for a file that
\* was not whole, and that no newer than the file.
VersionsRise ==
  \A p \in Procs :
    /\ owed[p] <= settings.version /\ cfg[p].version <= settings.version
    /\ loaded[p] # NoConfig
         => cfg[p].version <= loaded[p].version \/ torn[p] \/ hup[p]
    /\ loaded[p].version <= settings.version
    /\ at[p] \in {"boot", "starting"} => cfg[p].version >= 0

\* Also while a reload runs.
PanelIsConfig == \A p \in Procs : Handles(p) => panelOn[p] = cfg[p].panel

ProcessInv ==
  ProcessTypeOK /\ NotYetAsked /\ VersionsRise /\ PanelIsConfig /\ ReloadIsNotLost

-----------------------------------------------------------------------------

LEMMA NoConfigType == NoConfig \in ConfigType /\ NoConfig.version = -1
BY DEF NoConfig, ConfigType

LEMMA ProcessInitially == ProcessInit => ProcessInv
<1> SUFFICES ASSUME ProcessInit
             PROVE  ProcessInv
  OBVIOUS
<1>1. settings \in [panel : BOOLEAN, version : Nat] /\ settings.version = 0
  BY DEF ProcessInit, Defaults
<1>2. \A p \in Procs : /\ at[p] = "new" /\ cfg[p] = NoConfig /\ hup[p] = FALSE
                       /\ loaded[p] = NoConfig /\ owed[p] = 0
                       /\ torn[p] = FALSE
  BY DEF ProcessInit
<1>3. ProcessTypeOK
  BY <1>1, NoConfigType DEF ProcessInit, ProcessTypeOK, ProcessLabels
<1>4. NotYetAsked /\ VersionsRise
  BY <1>1, <1>2, NoConfigType DEF NotYetAsked, VersionsRise
<1>5. PanelIsConfig /\ ReloadIsNotLost
  BY <1>2 DEF PanelIsConfig, ReloadIsNotLost, Handles
<1> QED
  BY <1>3, <1>4, <1>5 DEF ProcessInv

\* The part of the invariant about one process.
Sound(a, s, c, on, h, l, o, t) ==
  /\ a \in {"new", "cut", "find", "signal", "load", "boot", "starting"}
       => ~h /\ l = NoConfig /\ o = 0 /\ ~t
  /\ o <= s.version /\ c.version <= s.version /\ l.version <= s.version
  /\ l # NoConfig => c.version <= l.version \/ t \/ h
  /\ a \in {"boot", "starting"} => c.version >= 0
  /\ a \in {"ready", "serving", "stopping"}
       => on = c.panel /\ (h \/ l.version >= o \/ c.version >= o \/ t)

SoundNow(p) ==
  Sound(at[p], settings, cfg[p], panelOn[p], hup[p], loaded[p], owed[p], torn[p])

LEMMA SoundEach ==
  ProcessInv <=> ProcessTypeOK /\ \A p \in Procs : SoundNow(p)
BY DEF ProcessInv, NotYetAsked, VersionsRise, PanelIsConfig, ReloadIsNotLost,
       Handles, SoundNow, Sound

LEMMA SoundEachNext ==
  ProcessInv' <=> ProcessTypeOK' /\ \A p \in Procs : SoundNow(p)'
BY DEF ProcessInv, NotYetAsked, VersionsRise, PanelIsConfig, ReloadIsNotLost,
       Handles, SoundNow, Sound

LEMMA ProcessNextKeeps == ProcessInv /\ [ProcessNext]_processVars => ProcessInv'
<1> SUFFICES ASSUME ProcessInv, [ProcessNext]_processVars
             PROVE  ProcessInv'
  OBVIOUS
<1>1. /\ at \in [Procs -> ProcessLabels] /\ cfg \in [Procs -> ConfigType]
      /\ settings \in [panel : BOOLEAN, version : Nat] /\ settings \in ConfigType
      /\ settings.version \in Nat
      /\ loaded \in [Procs -> ConfigType] /\ hup \in [Procs -> BOOLEAN]
      /\ owed \in [Procs -> Nat] /\ panelOn \in [Procs -> BOOLEAN]
      /\ torn \in [Procs -> BOOLEAN]
  BY DEF ProcessInv, ProcessTypeOK, ConfigType
<1>2. ASSUME NEW q \in Procs
      PROVE  /\ SoundNow(q) /\ at[q] \in ProcessLabels /\ cfg[q] \in ConfigType
             /\ loaded[q] \in ConfigType /\ owed[q] \in Nat
             /\ cfg[q].version \in Int /\ loaded[q].version \in Int
  BY <1>1, SoundEach DEF ConfigType
<1>r. /\ ReadSettings \in ConfigType /\ ReadSettings.version \in Nat
      /\ ReadSettings.version <= settings.version
      /\ file = "whole" => ReadSettings = settings
  BY <1>1 DEF ReadSettings, Defaults, ConfigType
<1> USE NoConfigType
<1>3. ASSUME NEW p \in Procs, \/ StartServe(p) \/ Listen(p) \/ AddressInUse(p)
                              \/ StopListening(p) \/ Exit(p) \/ StartUpdate(p)
                              \/ CutSettings(p)
                              \/ Kill(p) \/ WritePidfile(p) \/ FindServer(p)
      PROVE  ProcessInv'
  <2>1. /\ \E l \in ProcessLabels : at' = [at EXCEPT ![p] = l]
        /\ UNCHANGED <<settings, cfg, panelOn, hup, loaded, owed, torn>>
    BY <1>1, <1>3 DEF StartServe, Listen, AddressInUse, StopListening, Exit,
          StartUpdate, CutSettings, Kill, WritePidfile, FindServer, Step, ProcessLabels
  <2>2. /\ at'[p] \in {"boot", "starting"} => at[p] \in {"boot", "starting"}
        /\ at'[p] \in {"ready", "serving", "stopping"}
             => at[p] \in {"ready", "serving", "stopping"}
        /\ at'[p] \in {"new", "cut", "find", "signal", "load", "boot", "starting"}
             => at[p] \in {"new", "cut", "find", "signal", "load", "boot", "starting"}
    BY <1>1, <1>3 DEF StartServe, Listen, AddressInUse, StopListening, Exit,
          StartUpdate, CutSettings, Kill, WritePidfile, FindServer, Step
  <2>3. ProcessTypeOK'
    BY <1>1, <2>1 DEF ProcessTypeOK
  <2>4. ASSUME NEW q \in Procs
        PROVE  SoundNow(q)'
    BY <1>1, <1>2, <2>1, <2>2 DEF SoundNow, Sound
  <2> QED
    BY <2>3, <2>4, SoundEachNext
<1>4. ASSUME NEW p \in Procs, LoadConfig(p)
      PROVE  ProcessInv'
  <2>1. /\ at[p] = "load" /\ at' = [at EXCEPT ![p] = "boot"]
        /\ cfg' = [cfg EXCEPT ![p] = ReadSettings]
        /\ UNCHANGED <<settings, panelOn, hup, loaded, owed, torn>>
    BY <1>4 DEF LoadConfig, Step
  <2>2. ProcessTypeOK'
    BY <1>1, <1>r, <2>1 DEF ProcessTypeOK, ProcessLabels
  <2>3. ASSUME NEW q \in Procs
        PROVE  SoundNow(q)'
    BY <1>1, <1>2, <1>r, <2>1 DEF SoundNow, Sound
  <2> QED
    BY <2>2, <2>3, SoundEachNext
<1>5. ASSUME NEW p \in Procs, Prepare(p)
      PROVE  ProcessInv'
  <2>1. /\ at[p] = "starting" /\ at' = [at EXCEPT ![p] = "ready"]
        /\ panelOn' = [panelOn EXCEPT ![p] = cfg[p].panel]
        /\ UNCHANGED <<settings, cfg, hup, loaded, owed, torn>>
    BY <1>5 DEF Prepare, Step
  <2>2. ProcessTypeOK'
    BY <1>1, <2>1 DEF ProcessTypeOK, ProcessLabels, ConfigType
  <2>3. ASSUME NEW q \in Procs
        PROVE  SoundNow(q)'
    BY <1>1, <1>2, <2>1 DEF SoundNow, Sound
  <2> QED
    BY <2>2, <2>3, SoundEachNext
<1>6. ASSUME NEW p \in Procs, TakeHup(p)
      PROVE  ProcessInv'
  <2>1. /\ at[p] \in {"ready", "serving", "stopping"} /\ at' = at
        /\ hup' = [hup EXCEPT ![p] = FALSE]
        /\ loaded' = [loaded EXCEPT ![p] = ReadSettings]
        /\ torn' = [torn EXCEPT ![p] = file # "whole"]
        /\ UNCHANGED <<settings, cfg, panelOn, owed>>
    BY <1>6 DEF TakeHup, Handles
  <2>2. ProcessTypeOK'
    BY <1>1, <1>r, <2>1 DEF ProcessTypeOK
  <2>3. ASSUME NEW q \in Procs
        PROVE  SoundNow(q)'
    BY <1>1, <1>2, <1>r, <2>1 DEF SoundNow, Sound
  <2> QED
    BY <2>2, <2>3, SoundEachNext
<1>7. ASSUME NEW p \in Procs, Reload(p)
      PROVE  ProcessInv'
  <2>1. /\ at[p] \in {"ready", "serving", "stopping"} /\ at' = at
        /\ loaded[p] # NoConfig
        /\ panelOn' = [panelOn EXCEPT ![p] =
             IF loaded[p].panel # cfg[p].panel THEN loaded[p].panel ELSE panelOn[p]]
        /\ cfg' = [cfg EXCEPT ![p] = loaded[p]]
        /\ loaded' = [loaded EXCEPT ![p] = NoConfig]
        /\ UNCHANGED <<settings, hup, owed, torn>>
    BY <1>7 DEF Reload, Handles
  <2>2. ProcessTypeOK'
    BY <1>1, <2>1 DEF ProcessTypeOK, ConfigType
  <2>3. ASSUME NEW q \in Procs
        PROVE  SoundNow(q)'
    BY <1>1, <1>2, <2>1 DEF SoundNow, Sound
  <2> QED
    BY <2>2, <2>3, SoundEachNext
<1>8. ASSUME NEW p \in Procs, WriteSettings(p)
      PROVE  ProcessInv'
  <2>1. /\ at[p] = "cut" /\ at' = [at EXCEPT ![p] = "find"]
        /\ settings' \in [panel : BOOLEAN, version : Nat]
        /\ settings'.version = settings.version + 1
        /\ UNCHANGED <<cfg, panelOn, hup, loaded, owed, torn>>
    BY <1>1, <1>8 DEF WriteSettings, Step
  <2>2. ProcessTypeOK'
    BY <1>1, <2>1 DEF ProcessTypeOK, ProcessLabels
  <2>3. ASSUME NEW q \in Procs
        PROVE  SoundNow(q)'
    BY <1>1, <1>2, <2>1 DEF SoundNow, Sound
  <2> QED
    BY <2>2, <2>3, SoundEachNext
<1>9. ASSUME NEW p \in Procs, SendSignal(p)
      PROVE  ProcessInv'
  <2> DEFINE q == target[p]
             asked == kind[p] = "install" /\ Handles(q)
  <2>1. /\ at[p] = "signal"
        /\ hup' = [hup EXCEPT ![q] = hup[q] \/ asked]
        /\ owed' = [owed EXCEPT ![q] = IF asked THEN settings.version ELSE owed[q]]
        /\ torn' = [torn EXCEPT ![q] = torn[q] /\ ~asked]
        /\ UNCHANGED <<settings, cfg, panelOn, loaded>>
    BY <1>9 DEF SendSignal
  <2>2. /\ at' \in [Procs -> ProcessLabels]
        /\ at'[p] \in {"load", "gone"}
        /\ \A r \in Procs \ {p} : \/ at'[r] = at[r]
                                  \/ at'[r] = "gone"
    BY <1>1, <1>9 DEF SendSignal, ProcessLabels
  <2>3. hup' \in [Procs -> BOOLEAN] /\ owed' \in [Procs -> Nat]
        /\ torn' \in [Procs -> BOOLEAN]
    BY <1>1, <2>1
  <2>4. ProcessTypeOK'
    BY <1>1, <2>1, <2>2, <2>3 DEF ProcessTypeOK
  <2>5. ASSUME NEW r \in Procs
        PROVE  SoundNow(r)'
    <3>1. CASE r = q /\ asked
      <4>1. at[r] \in {"ready", "serving", "stopping"} /\ r # p
        BY <2>1, <3>1 DEF Handles
      <4>2. hup'[r] = TRUE /\ owed'[r] = settings.version
        BY <1>1, <2>1, <3>1
      <4> QED
        BY <1>1, <1>2, <2>1, <2>2, <4>1, <4>2 DEF SoundNow, Sound
    <3>2. CASE ~(r = q /\ asked)
      <4>1. (hup'[r] <=> hup[r]) /\ owed'[r] = owed[r] /\ (torn'[r] <=> torn[r])
        BY <1>1, <2>1, <3>2
      <4> QED
        BY <1>1, <1>2, <2>1, <2>2, <4>1 DEF SoundNow, Sound
    <3> QED
      BY <3>1, <3>2
  <2> QED
    BY <2>4, <2>5, SoundEachNext
<1>10. CASE UNCHANGED processVars
  BY <1>1, <1>2, <1>10, SoundEachNext
     DEF processVars, ProcessInv, ProcessTypeOK, SoundNow
<1> QED
  BY <1>3, <1>4, <1>5, <1>6, <1>7, <1>8, <1>9, <1>10 DEF ProcessNext, ProcessStep

-----------------------------------------------------------------------------

\* A process that has written the pid file.
HasBooted(p) == at[p] \in {"starting", "ready", "serving", "stopping", "gone"}

\* An install that has cut the file off and comes to signal this server, if the
\* pid file keeps to name it.
WillAsk(i, p) ==
  /\ kind[i] = "install"
  /\ at[i] \in {"cut", "find"} \/ (at[i] = "signal" /\ target[i] = p)

MendTypeOK ==
  /\ file \in {"whole", "empty", "mixed"} /\ kills \in Nat
  /\ pidFile \in Procs \cup {NoProcess}
  /\ target \in [Procs -> Procs \cup {NoProcess}]

\* The pid file, and an install or an update about to signal, name a process
\* that has booted; a file cut off is being written.
NamesHaveBooted ==
  /\ pidFile # NoProcess => HasBooted(pidFile)
  /\ \A i \in Procs : at[i] = "signal" => target[i] \in Procs /\ HasBooted(target[i])
  /\ \A i \in Procs : at[i] = "cut" => kind[i] = "install"
  /\ file = "empty"
       => kills > 0 \/ \E i \in Procs : kind[i] = "install" /\ at[i] = "cut"

\* A server that read such a file is asked again.
TornIsAsked(p) ==
  Handles(p) /\ torn[p]
    => kills > 0 \/ file = "mixed" \/ pidFile # p \/ \E i \in Procs : WillAsk(i, p)

MendInv == MendTypeOK /\ NamesHaveBooted /\ \A p \in Procs : TornIsAsked(p)

LEMMA MendInitially == ProcessInit => MendInv
BY ServerProcessAssumption
   DEF ProcessInit, MendInv, MendTypeOK, NamesHaveBooted, TornIsAsked, Handles

\* The steps that leave installs, the file and its readers alone.
LEMMA MendStaysSame ==
  ASSUME ProcessInv, MendInv, NEW p \in Procs, NEW l \in ProcessLabels,
         at[p] \notin {"cut", "find", "signal"}, l \notin {"cut", "signal"},
         HasBooted(p) => l \in {"ready", "serving", "stopping", "gone"},
         l \in {"ready", "serving", "stopping"} => HasBooted(p) /\ at[p] # "gone",
         at' = [at EXCEPT ![p] = l],
         UNCHANGED <<kind, file, target, kills, torn>>,
         \/ pidFile' \in {pidFile, NoProcess}
         \/ pidFile' = p /\ l = "starting"
  PROVE  MendInv'
<1>1. at \in [Procs -> ProcessLabels] /\ MendTypeOK /\ NoProcess \notin Procs
  BY ServerProcessAssumption DEF ProcessInv, ProcessTypeOK, MendInv
<1>2. \A q \in Procs : at'[q] = IF q = p THEN l ELSE at[q]
  BY <1>1
<1>3. \A q \in Procs : HasBooted(q) => HasBooted(q)'
  BY <1>2 DEF HasBooted
<1>4. MendTypeOK'
  BY <1>1 DEF MendTypeOK
<1>5. NamesHaveBooted'
  <2>1. pidFile' # NoProcess => HasBooted(pidFile)'
    <3>1. CASE pidFile' = pidFile
      BY <1>1, <1>3, <3>1 DEF MendInv, NamesHaveBooted, MendTypeOK, HasBooted
    <3>2. CASE pidFile' = p /\ l = "starting"
      BY <1>2, <3>2 DEF HasBooted
    <3> QED
      BY <3>1, <3>2
  <2>2. ASSUME NEW i \in Procs, at'[i] = "signal"
        PROVE  target'[i] \in Procs /\ HasBooted(target[i])'
    <3>1. at[i] = "signal" /\ target'[i] = target[i]
      BY <1>2, <2>2
    <3>2. target[i] \in Procs /\ HasBooted(target[i])
      BY <3>1 DEF MendInv, NamesHaveBooted
    <3> QED
      BY <1>3, <3>1, <3>2 DEF HasBooted
  <2>3. \A i \in Procs : at[i] = "cut" <=> at'[i] = "cut"
    BY <1>2
  <2> QED
    BY <2>1, <2>2, <2>3 DEF MendInv, NamesHaveBooted, HasBooted
<1>6. ASSUME NEW q \in Procs
      PROVE  TornIsAsked(q)'
  <2> SUFFICES ASSUME Handles(q)', torn[q], ~(kills > 0), file # "mixed", pidFile' = q
               PROVE  \E i \in Procs : WillAsk(i, q)'
    BY DEF TornIsAsked
  <2>1. pidFile = q
    BY <1>1, <1>2 DEF Handles
  <2>2. Handles(q)
    <3>1. HasBooted(q) /\ at[q] # "gone"
      BY <1>2 DEF Handles, HasBooted
    <3>2. at[q] # "starting"
      BY DEF ProcessInv, NotYetAsked
    <3> QED
      BY <3>1, <3>2 DEF HasBooted, Handles
  <2>3. PICK i \in Procs : WillAsk(i, q)
    BY <2>1, <2>2 DEF MendInv, TornIsAsked
  <2>4. WillAsk(i, q)'
    BY <1>2, <2>3 DEF WillAsk
  <2> QED
    BY <2>4
<1> QED
  BY <1>4, <1>5, <1>6 DEF MendInv

\* Every step of a process keeps it.
LEMMA MendNextKeeps == ProcessInv /\ MendInv /\ [ProcessNext]_processVars => MendInv'
<1> SUFFICES ASSUME ProcessInv, MendInv, [ProcessNext]_processVars
             PROVE  MendInv'
  OBVIOUS
<1>1. /\ at \in [Procs -> ProcessLabels] /\ torn \in [Procs -> BOOLEAN]
      /\ MendTypeOK /\ NamesHaveBooted /\ NoProcess \notin Procs /\ kills \in Nat
      /\ \A q \in Procs : TornIsAsked(q)
  BY ServerProcessAssumption DEF ProcessInv, ProcessTypeOK, MendInv, MendTypeOK
<1>2. ASSUME NEW p \in Procs, UNCHANGED kind,
             \/ StartServe(p) \/ LoadConfig(p) \/ Prepare(p)
             \/ Listen(p) \/ AddressInUse(p) \/ StopListening(p) \/ StartUpdate(p)
             \/ WritePidfile(p) \/ Exit(p) \/ Reload(p)
      PROVE  MendInv'
  <2>1. /\ UNCHANGED <<kind, file, target, kills, torn>>
        /\ at[p] \notin {"cut", "find", "signal"}
    BY <1>2 DEF StartServe, LoadConfig, Prepare, Listen, AddressInUse,
          StopListening, StartUpdate, WritePidfile, Exit, Reload, Step, Handles
  <2>2. \E l \in ProcessLabels :
          /\ at' = [at EXCEPT ![p] = l] /\ l \notin {"cut", "signal"}
          /\ HasBooted(p) => l \in {"ready", "serving", "stopping", "gone"}
          /\ l \in {"ready", "serving", "stopping"} => HasBooted(p) /\ at[p] # "gone"
          /\ \/ pidFile' \in {pidFile, NoProcess}
             \/ pidFile' = p /\ l = "starting"
    <3>1. CASE Reload(p)
      <4>1. at' = [at EXCEPT ![p] = at[p]] /\ Handles(p) /\ pidFile' = pidFile
        BY <1>1, <3>1 DEF Reload
      <4>2. at[p] \in ProcessLabels
        BY <1>1
      <4> QED
        BY <4>1, <4>2 DEF Handles, HasBooted
    <3>2. CASE WritePidfile(p) \/ Exit(p)
      BY <3>2 DEF WritePidfile, Exit, Step, HasBooted, ProcessLabels
    <3>3. CASE \/ StartServe(p) \/ LoadConfig(p) \/ Prepare(p) \/ Listen(p)
               \/ AddressInUse(p) \/ StopListening(p) \/ StartUpdate(p)
      BY <3>3 DEF StartServe, LoadConfig, Prepare, Listen, AddressInUse,
            StopListening, StartUpdate, Step, HasBooted, ProcessLabels
    <3> QED
      BY <1>2, <3>1, <3>2, <3>3
  <2>3. PICK l \in ProcessLabels :
          /\ at' = [at EXCEPT ![p] = l] /\ l \notin {"cut", "signal"}
          /\ HasBooted(p) => l \in {"ready", "serving", "stopping", "gone"}
          /\ l \in {"ready", "serving", "stopping"} => HasBooted(p) /\ at[p] # "gone"
          /\ \/ pidFile' \in {pidFile, NoProcess}
             \/ pidFile' = p /\ l = "starting"
    BY <2>2
  <2> QED
    BY <2>1, <2>3, MendStaysSame
<1>3. ASSUME NEW p \in Procs, UNCHANGED kind, TakeHup(p)
      PROVE  MendInv'
  <2>1. /\ UNCHANGED <<kind, at, file, pidFile, target, kills>>
        /\ torn' = [torn EXCEPT ![p] = file # "whole"]
    BY <1>3 DEF TakeHup
  <2>2. MendTypeOK' /\ NamesHaveBooted'
    BY <1>1, <2>1 DEF MendTypeOK, NamesHaveBooted, HasBooted
  <2>3. ASSUME NEW q \in Procs
        PROVE  TornIsAsked(q)'
    <3>1. CASE q = p
      <4>1. torn'[q] => file \in {"empty", "mixed"}
        BY <1>1, <2>1, <3>1 DEF MendTypeOK
      <4> QED
        BY <1>1, <2>1, <4>1 DEF TornIsAsked, NamesHaveBooted, WillAsk
    <3>2. CASE q # p
      <4>1. torn'[q] = torn[q]
        BY <1>1, <2>1, <3>2
      <4> QED
        BY <1>1, <2>1, <4>1 DEF TornIsAsked, WillAsk, Handles
    <3> QED
      BY <3>1, <3>2
  <2> QED
    BY <2>2, <2>3 DEF MendInv
<1>4. ASSUME NEW p \in Procs, UNCHANGED kind, CutSettings(p) \/ WriteSettings(p)
      PROVE  MendInv'
  <2>1. /\ UNCHANGED <<kind, pidFile, target, kills, torn>>
        /\ at[p] \in {"new", "cut"} /\ at'[p] \in {"cut", "find"}
        /\ \A q \in Procs : q # p => at'[q] = at[q]
    BY <1>1, <1>4 DEF CutSettings, WriteSettings, Step
  <2>2. /\ file' \in {"whole", "empty", "mixed"}
        /\ file' = "empty" => at'[p] = "cut"
        /\ kind[p] = "install"
    BY <1>1, <1>4 DEF CutSettings, WriteSettings, Step, NamesHaveBooted
  <2>3. MendTypeOK'
    BY <1>1, <2>1, <2>2 DEF MendTypeOK
  <2>4. \A q \in Procs : HasBooted(q) => HasBooted(q)'
    BY <2>1 DEF HasBooted
  <2>5. NamesHaveBooted'
    <3>1. pidFile # NoProcess => HasBooted(pidFile)'
      BY <1>1, <2>1, <2>4 DEF MendTypeOK, NamesHaveBooted, HasBooted
    <3>2. ASSUME NEW i \in Procs, at'[i] = "signal"
          PROVE  target[i] \in Procs /\ HasBooted(target[i])'
      <4>1. at[i] = "signal"
        BY <2>1, <3>2
      <4>2. target[i] \in Procs /\ HasBooted(target[i])
        BY <1>1, <4>1 DEF NamesHaveBooted
      <4> QED
        BY <2>1, <2>4, <4>2 DEF HasBooted
    <3> QED
      BY <1>1, <2>1, <2>2, <3>1, <3>2 DEF NamesHaveBooted, HasBooted
  <2>6. ASSUME NEW q \in Procs
        PROVE  TornIsAsked(q)'
    <3> SUFFICES ASSUME Handles(q)', torn[q], ~(kills > 0), file' # "mixed", pidFile = q
                 PROVE  \E i \in Procs : WillAsk(i, q)'
      BY <2>1 DEF TornIsAsked
    <3>1. Handles(q) /\ q # p
      BY <2>1 DEF Handles
    <3>2. CASE CutSettings(p)
      BY <1>1, <2>1, <3>2 DEF CutSettings, Step, WillAsk
    <3>3. CASE WriteSettings(p)
      <4>1. at'[p] = "find" /\ kind[p] = "install"
        BY <1>1, <3>3 DEF WriteSettings, Step, NamesHaveBooted
      <4> QED
        BY <2>1, <4>1 DEF WillAsk
    <3> QED
      BY <1>4, <3>2, <3>3
  <2> QED
    BY <2>3, <2>5, <2>6 DEF MendInv
<1>5. ASSUME NEW p \in Procs, UNCHANGED kind, FindServer(p)
      PROVE  MendInv'
  <2> DEFINE found == pidFile # NoProcess /\ IsUp(pidFile)
  <2>1. /\ UNCHANGED <<kind, file, pidFile, kills, torn>> /\ at[p] = "find"
        /\ \A q \in Procs : q # p => at'[q] = at[q] /\ target'[q] = target[q]
        /\ found => at'[p] = "signal" /\ target'[p] = pidFile
        /\ ~found => at'[p] \in {"load", "gone"}
        /\ MendTypeOK'
    BY <1>1, <1>5 DEF FindServer, MendTypeOK
  <2>2. \A q \in Procs : HasBooted(q) => HasBooted(q)'
    BY <2>1 DEF HasBooted
  <2>3. pidFile # NoProcess => pidFile \in Procs /\ HasBooted(pidFile)
                               /\ HasBooted(pidFile)'
    <3>1. pidFile # NoProcess => pidFile \in Procs /\ HasBooted(pidFile)
      BY <1>1 DEF MendTypeOK, NamesHaveBooted
    <3> QED
      BY <2>1, <2>2, <3>1 DEF HasBooted
  <2>4. NamesHaveBooted'
    <3>1. ASSUME NEW i \in Procs, at'[i] = "signal"
          PROVE  target'[i] \in Procs /\ HasBooted(target[i])'
      <4>1. CASE i = p
        BY <2>1, <2>3, <3>1, <4>1 DEF HasBooted
      <4>2. CASE i # p
        <5>1. target[i] \in Procs /\ HasBooted(target[i]) /\ target'[i] = target[i]
          BY <1>1, <2>1, <3>1, <4>2 DEF NamesHaveBooted
        <5> QED
          BY <2>2, <5>1 DEF HasBooted
      <4> QED
        BY <4>1, <4>2
    <3> QED
      BY <1>1, <2>1, <2>3, <3>1 DEF NamesHaveBooted, HasBooted
  <2>5. ASSUME NEW q \in Procs
        PROVE  TornIsAsked(q)'
    <3> SUFFICES ASSUME Handles(q)', torn[q], ~(kills > 0), file # "mixed", pidFile = q
                 PROVE  \E i \in Procs : WillAsk(i, q)'
      BY <2>1 DEF TornIsAsked
    <3>1. Handles(q) /\ q # p
      BY <2>1 DEF Handles
    <3>2. PICK i \in Procs : WillAsk(i, q)
      BY <1>1, <3>1 DEF TornIsAsked
    <3>3. found
      BY <1>1, <3>1 DEF IsUp, Handles
    <3>4. WillAsk(i, q)'
      BY <2>1, <3>2, <3>3 DEF WillAsk
    <3> QED
      BY <3>4
  <2> QED
    BY <2>1, <2>4, <2>5 DEF MendInv
<1>6. ASSUME NEW p \in Procs, UNCHANGED kind, SendSignal(p)
      PROVE  MendInv'
  <2> DEFINE q == target[p]
             asked == kind[p] = "install" /\ Handles(q)
  <2>1. /\ UNCHANGED <<kind, file, pidFile, target, kills>> /\ at[p] = "signal"
        /\ q \in Procs /\ HasBooted(q) /\ q # p
        /\ torn' = [torn EXCEPT ![q] = torn[q] /\ ~asked]
    BY <1>1, <1>6 DEF SendSignal, NamesHaveBooted, HasBooted
  <2>2. /\ at'[p] \in {"load", "gone"}
        /\ \A r \in Procs : r \notin {p, q} => at'[r] = at[r]
        /\ at'[q] = IF at[q] = "starting" THEN "gone" ELSE at[q]
    BY <1>6, <2>1 DEF SendSignal, HasBooted, IsUp, Handles
  <2>3. MendTypeOK'
    BY <1>1, <2>1 DEF MendTypeOK
  <2>4. \A r \in Procs : HasBooted(r) => HasBooted(r)'
    BY <2>1, <2>2 DEF HasBooted
  <2>5. \A r \in Procs : r # p /\ at[r] \in {"cut", "find", "signal"} => at'[r] = at[r]
    BY <2>1, <2>2 DEF HasBooted
  <2>6. NamesHaveBooted'
    <3>1. pidFile # NoProcess => HasBooted(pidFile)'
      BY <1>1, <2>1, <2>4 DEF MendTypeOK, NamesHaveBooted, HasBooted
    <3>2. ASSUME NEW i \in Procs, at'[i] = "signal"
          PROVE  target[i] \in Procs /\ HasBooted(target[i])'
      <4>1. at[i] = "signal"
        BY <2>1, <2>2, <3>2 DEF HasBooted
      <4>2. target[i] \in Procs /\ HasBooted(target[i])
        BY <1>1, <4>1 DEF NamesHaveBooted
      <4> QED
        BY <2>1, <2>4, <4>2 DEF HasBooted
    <3>3. \A i \in Procs : at[i] = "cut" <=> at'[i] = "cut"
      BY <2>1, <2>2 DEF HasBooted
    <3> QED
      BY <1>1, <2>1, <3>1, <3>2, <3>3 DEF NamesHaveBooted, HasBooted
  <2>7. ASSUME NEW r \in Procs
        PROVE  TornIsAsked(r)'
    <3> SUFFICES ASSUME Handles(r)', torn'[r], ~(kills > 0), file # "mixed", pidFile = r
                 PROVE  \E i \in Procs : WillAsk(i, r)'
      BY <2>1 DEF TornIsAsked
    <3>1. r # p /\ Handles(r)
      BY <2>2 DEF Handles
    <3>2. torn[r] /\ ~(r = q /\ asked)
      BY <1>1, <2>1
    <3>3. PICK i \in Procs : WillAsk(i, r)
      BY <1>1, <3>1, <3>2 DEF TornIsAsked
    <3>4. i # p
      BY <2>1, <3>1, <3>2, <3>3 DEF WillAsk
    <3>5. WillAsk(i, r)'
      BY <2>1, <2>5, <3>3, <3>4 DEF WillAsk
    <3> QED
      BY <3>5
  <2> QED
    BY <2>3, <2>6, <2>7 DEF MendInv
<1>7. ASSUME NEW p \in Procs, UNCHANGED kind, Kill(p)
      PROVE  MendInv'
  <2>1. /\ UNCHANGED <<kind, file, pidFile, target, torn>>
        /\ at' = [at EXCEPT ![p] = "gone"] /\ kills' = kills + 1
    BY <1>7 DEF Kill
  <2>2. kills' \in Nat /\ kills' > 0
    BY <1>1, <2>1
  <2>3. \A r \in Procs : /\ HasBooted(r) => HasBooted(r)'
                         /\ at'[r] \in {"cut", "signal"} => at'[r] = at[r]
    BY <1>1, <2>1 DEF HasBooted
  <2>4. MendTypeOK'
    BY <1>1, <2>1, <2>2 DEF MendTypeOK
  <2>5. NamesHaveBooted'
    BY <1>1, <2>1, <2>2, <2>3 DEF NamesHaveBooted, MendTypeOK, HasBooted
  <2>6. \A r \in Procs : TornIsAsked(r)'
    BY <2>2 DEF TornIsAsked
  <2> QED
    BY <2>4, <2>5, <2>6 DEF MendInv
<1>8. CASE UNCHANGED processVars
  BY <1>8 DEF processVars, MendInv, MendTypeOK, NamesHaveBooted, HasBooted,
        TornIsAsked, WillAsk, Handles
<1> QED
  BY <1>2, <1>3, <1>4, <1>5, <1>6, <1>7, <1>8 DEF ProcessNext, ProcessStep

\* For every set of servers, installs and updates, however they overlap and
\* die: no reload that an install asked for is lost, but for those that read a
\* file another install was writing, which an install that lives asks for once
\* more; and between two reloads the panel is served as the configuration says
\* (main.go:219-249, config.go:46-48 and 87-108, install.go:67-83).
THEOREM ReloadsTakeEffect == ProcessSpec => []ReloadsAreApplied
<1>1. ProcessInv /\ MendInv => ReloadsAreApplied
  <2> SUFFICES ASSUME ProcessInv, MendInv
               PROVE  ReloadsAreApplied
    OBVIOUS
  <2>1. ReloadIsNotLost /\ PanelFollowsConfig
    BY DEF ProcessInv, PanelIsConfig, PanelFollowsConfig
  <2>2. CutOffIsMended
    BY DEF CutOffIsMended, MendInv, TornIsAsked, WillAsk
  <2> QED
    BY <2>1, <2>2 DEF ReloadsAreApplied
<1> QED
  BY <1>1, ProcessInitially, ProcessNextKeeps, MendInitially, MendNextKeeps, PTL
     DEF ProcessSpec

-----------------------------------------------------------------------------
(* Scheduler: it runs no job twice at a time and no due time passes without a run. *)

Holding(s) == scan[s].pc \in {"run", "update", "release"}

\* A scan that runs a job has a time and a job to run.
ScansAreAboutJobs ==
  \A s \in Scanners :
    /\ scan[s].pc \in {"scan", "run", "update", "release"} => scan[s].now \in Nat
    /\ Holding(s) => scan[s].job \in ScheduledJobs

SchedulerTypes == SchedulerTypeOK /\ ScansAreAboutJobs

\* RecoverMissed is over once the server serves, and the loop once Stop has
\* returned.
ScansEndInOrder ==
  /\ phase \in {"serving", "stopping", "stopped"} => scan["recover"].pc = "ended"
  /\ phase = "stopped" => scan["loop"].pc = "ended"

\* What is about to be stored is the time of a run that has ended.
StoredAfterRun ==
  \A s \in Scanners :
    scan[s].pc = "update" => <<scan[s].job, scan[s].now>> \in handled

-----------------------------------------------------------------------------

\* A next time is a time after the start of the clock
\* (scheduler.go:170-177).
LEMMA NextRunIsTime ==
  ASSUME NEW j \in ScheduledJobs, NEW from \in Nat
  PROVE  CalculateNextRun(j, from) \in Nat \ {0}
<1> DEFINE p == Period[j]
           q == from \div p
<1>1. p \in Nat /\ p >= 1
  BY SchedulerAssumption
<1>2. q \in Nat
  BY <1>1
<1>3. (q + 1) * p \in Nat /\ (q + 1) * p >= 1
  <2> HIDE DEF p, q
  <2>1. (q + 1) * p = q * p + p
    BY <1>1, <1>2
  <2>2. q * p \in Nat
    BY <1>1, <1>2
  <2> QED
    BY <1>1, <2>1, <2>2
<1> QED
  BY <1>3 DEF CalculateNextRun

\* Storing a run keeps the rows rows.
LEMMA UpdateKeepsRows ==
  ASSUME SchedulerTypeOK, NEW j \in ScheduledJobs, NEW now \in Nat
  PROVE  UpdateScheduledJob(j, now)
           \in [ScheduledJobs -> [state : JobStates, next : Times \ {0}, last : Times]]
<1>1. CalculateNextRun(j, now) \in Times \ {0} /\ now \in Times
  BY NextRunIsTime DEF Times
<1> HIDE DEF Times
<1> QED
  BY <1>1 DEF UpdateScheduledJob, SchedulerTypeOK

LEMMA SchedulerTypesInit == SchedulerInit => SchedulerTypes
BY SchedulerAssumption
DEF SchedulerInit, SchedulerTypes, SchedulerTypeOK, ScansAreAboutJobs, Holding,
    Phases, ScanLabels, JobStates, Times, NoRow, IdleScan, NoTime, Scanners

LEMMA SchedulerTypesNext ==
  SchedulerTypes /\ [SchedulerNext]_schedulerVars => SchedulerTypes'
<1> SUFFICES ASSUME SchedulerTypes, [SchedulerNext]_schedulerVars
             PROVE  SchedulerTypes'
  OBVIOUS
<1>0. SchedulerTypeOK /\ ScansAreAboutJobs
  BY DEF SchedulerTypes
<1>clock. \A n \in 0..MaxTime : n \in Nat /\ n \in Times
  BY SchedulerAssumption DEF Times
<1>none. NoTime \in Times
  BY DEF Times
<1> USE SchedulerAssumption
        DEF SchedulerTypes, SchedulerTypeOK, ScansAreAboutJobs, Holding, Phases,
            ScanLabels, JobStates
<1>1. ASSUME NEW s \in Scanners, ListDue(s) PROVE SchedulerTypes'
  BY <1>0, <1>1, <1>clock DEF ListDue, ListScheduledJobs, ScanAt
<1>2. ASSUME NEW s \in Scanners, NEW j \in ScheduledJobs, TakeJob(s, j)
      PROVE SchedulerTypes'
  <2>1. CASE j \in inflight
    BY <1>0, <1>2, <2>1, SMTT(30) DEF TakeJob, ScanAt
  <2>2. CASE j \notin inflight
    BY <1>0, <1>2, <2>2 DEF TakeJob, ScanAt
  <2> QED
    BY <2>1, <2>2
<1>3. ASSUME NEW s \in Scanners, RunJob(s) PROVE SchedulerTypes'
  BY <1>0, <1>3 DEF RunJob, ScanAt
<1>4. ASSUME NEW s \in Scanners, UpdateJobStatus(s) PROVE SchedulerTypes'
  BY <1>0, <1>4, UpdateKeepsRows, ZenonT(40) DEF UpdateJobStatus, ScanAt
<1>5. ASSUME NEW s \in Scanners, ReleaseJob(s) PROVE SchedulerTypes'
  BY <1>0, <1>5 DEF ReleaseJob, ScanAt
<1>6. ASSUME NEW s \in Scanners, EndScan(s) PROVE SchedulerTypes'
  <2>1. PICK label \in {"idle", "ended"} :
          scan' = [scan EXCEPT ![s].pc = label, ![s].now = NoTime]
    BY <1>6 DEF EndScan
  <2>2. phase' \in {"serving", phase}
    BY <1>6 DEF EndScan
  <2>3. SchedulerTypeOK'
    <3>1. scan' \in [Scanners -> [pc : ScanLabels, list : SUBSET ScheduledJobs,
                                  now : Times, job : ScheduledJobs \cup {NoJob}]]
      <4>1. label \in ScanLabels /\ s \in Scanners
        BY <2>1
      <4> HIDE DEF ScanLabels
      <4> QED
        BY <1>0, <1>none, <2>1, <4>1, ZenonT(40)
    <3> QED
      BY <1>0, <1>6, <2>2, <3>1 DEF EndScan
  <2>4. ScansAreAboutJobs'
    <3>1. ASSUME NEW t \in Scanners, t # s PROVE scan'[t] = scan[t]
      BY <1>0, <2>1, <3>1
    <3>2. scan'[s].pc \in {"idle", "ended"}
      BY <1>0, <2>1
    <3> QED
      BY <1>0, <3>1, <3>2
  <2> QED
    BY <2>3, <2>4
<1>7. CASE LoopEnds
  BY <1>0, <1>7 DEF LoopEnds, ScanAt, Scanners
<1>8. CASE Minute
  BY <1>0, <1>8 DEF Minute
<1>9. CASE BeginShutdown \/ StopReturns
  BY <1>0, <1>9 DEF BeginShutdown, StopReturns
<1>10. CASE Crash
  BY <1>0, <1>10, <1>none DEF Crash, IdleScan
<1>11. CASE Boot
  BY <1>0, <1>11, <1>none DEF Boot, IdleScan
<1>12. ASSUME NEW j \in ScheduledJobs, NEW state \in {"enabled", "disabled"},
              CreateJob(j, state) \/ ToggleJob(j, state) \/ DeleteJob(j)
       PROVE  SchedulerTypes'
  BY <1>0, <1>12 DEF CreateJob, ToggleJob, DeleteJob
<1>13. CASE UNCHANGED schedulerVars
  BY <1>0, <1>13 DEF schedulerVars
<1> QED
  BY <1>1, <1>2, <1>3, <1>4, <1>5, <1>6, <1>7, <1>8, <1>9, <1>10, <1>11, <1>12,
     <1>13
  DEF SchedulerNext, ScanStep

\* The state of the scheduler has its type in every reachable state.
THEOREM SchedulerHasTypes == SchedulerSpec => []SchedulerTypes
BY SchedulerTypesInit, SchedulerTypesNext, PTL DEF SchedulerSpec

-----------------------------------------------------------------------------

Claims == ScansEndInOrder /\ OneRunAtATime

LEMMA ClaimsInit == SchedulerInit => Claims
BY DEF SchedulerInit, Claims, ScansEndInOrder, OneRunAtATime, Holds, IdleScan,
       Scanners

\* A job is claimed before it runs and given back after: each of the two scans
\* holds the jobs it claimed and no others.
LEMMA ClaimsNext ==
  SchedulerTypes /\ Claims /\ [SchedulerNext]_schedulerVars => Claims'
<1> SUFFICES ASSUME SchedulerTypes, Claims, [SchedulerNext]_schedulerVars
             PROVE  Claims'
  OBVIOUS
<1>0. /\ scan \in [Scanners -> [pc : ScanLabels, list : SUBSET ScheduledJobs,
                                now : Times, job : ScheduledJobs \cup {NoJob}]]
      /\ inflight \subseteq ScheduledJobs /\ phase \in Phases
      /\ \A s \in Scanners : Holding(s) => scan[s].job \in ScheduledJobs
  BY DEF SchedulerTypes, SchedulerTypeOK, ScansAreAboutJobs
<1> USE DEF Claims, ScansEndInOrder, OneRunAtATime, Holds, Scanners
<1>1. ASSUME NEW s \in Scanners, ListDue(s) PROVE Claims'
  BY <1>0, <1>1 DEF ListDue, ScanAt, Up
<1>2. ASSUME NEW s \in Scanners, NEW j \in ScheduledJobs, TakeJob(s, j)
      PROVE Claims'
  <2>1. CASE j \in inflight
    BY <1>0, <1>2, <2>1 DEF TakeJob, ScanAt, Up
  <2>2. CASE j \notin inflight
    BY <1>0, <1>2, <2>2 DEF TakeJob, ScanAt, Up
  <2> QED
    BY <2>1, <2>2
<1>3. ASSUME NEW s \in Scanners, RunJob(s) PROVE Claims'
  BY <1>0, <1>3 DEF RunJob, ScanAt, Up
<1>4. ASSUME NEW s \in Scanners, UpdateJobStatus(s) PROVE Claims'
  BY <1>0, <1>4 DEF UpdateJobStatus, ScanAt, Up
<1>5. ASSUME NEW s \in Scanners, ReleaseJob(s) PROVE Claims'
  BY <1>0, <1>5 DEF ReleaseJob, ScanAt, Up, Holding
<1>6. ASSUME NEW s \in Scanners, EndScan(s) PROVE Claims'
  <2>1. CASE s = "loop"
    BY <1>0, <1>6, <2>1 DEF EndScan, ScanAt, Up
  <2>2. CASE s = "recover"
    BY <1>0, <1>6, <2>2 DEF EndScan, ScanAt, Up
  <2> QED
    BY <2>1, <2>2
<1>7. CASE LoopEnds
  BY <1>0, <1>7 DEF LoopEnds, ScanAt, Up
<1>8. CASE Minute
  BY <1>8 DEF Minute
<1>9. CASE BeginShutdown \/ StopReturns
  BY <1>0, <1>9 DEF BeginShutdown, StopReturns
<1>10. CASE Crash
  BY <1>10 DEF Crash, IdleScan
<1>11. CASE Boot
  BY <1>11 DEF Boot, IdleScan
<1>12. ASSUME NEW j \in ScheduledJobs, NEW state \in {"enabled", "disabled"},
              CreateJob(j, state) \/ ToggleJob(j, state) \/ DeleteJob(j)
       PROVE  Claims'
  BY <1>12 DEF CreateJob, ToggleJob, DeleteJob
<1>13. CASE UNCHANGED schedulerVars
  BY <1>13 DEF schedulerVars
<1> QED
  BY <1>1, <1>2, <1>3, <1>4, <1>5, <1>6, <1>7, <1>8, <1>9, <1>10, <1>11, <1>12,
     <1>13
  DEF SchedulerNext, ScanStep

\* The tick and RecoverMissed never run one job at the same time, no claim is
\* left behind and nothing runs once Stop has returned, for any set of jobs
\* (scheduler.go:152-168, 179-195).
THEOREM JobsRunOnce == SchedulerSpec => []OneRunAtATime
<1>1. Claims => OneRunAtATime
  BY DEF Claims
<1> QED
  BY <1>1, ClaimsInit, ClaimsNext, SchedulerHasTypes, PTL DEF SchedulerSpec

-----------------------------------------------------------------------------

Passed == StoredAfterRun /\ PassedMeansRan

LEMMA PassedInit == SchedulerInit => Passed
BY DEF SchedulerInit, Passed, StoredAfterRun, PassedMeansRan, IdleScan, NoRow

\* A row changes its times only when a run that has ended is stored, and the
\* history keeps that run as long as the row is about it.
LEMMA PassedNext ==
  SchedulerTypes /\ Claims /\ Passed /\ [SchedulerNext]_schedulerVars => Passed'
<1> SUFFICES ASSUME SchedulerTypes, Claims, Passed, [SchedulerNext]_schedulerVars
             PROVE  Passed'
  OBVIOUS
<1>0. /\ scan \in [Scanners -> [pc : ScanLabels, list : SUBSET ScheduledJobs,
                                now : Times, job : ScheduledJobs \cup {NoJob}]]
      /\ jobs \in [ScheduledJobs -> [state : JobStates, next : Times \ {0}, last : Times]]
      /\ \A s \in Scanners : Holding(s) => scan[s].job \in ScheduledJobs
  BY DEF SchedulerTypes, SchedulerTypeOK, ScansAreAboutJobs
<1> USE DEF Passed, StoredAfterRun, PassedMeansRan
<1>1. ASSUME NEW s \in Scanners, ListDue(s) PROVE Passed'
  BY <1>0, <1>1 DEF ListDue
<1>2. ASSUME NEW s \in Scanners, NEW j \in ScheduledJobs, TakeJob(s, j)
      PROVE Passed'
  <2>1. CASE j \in inflight
    BY <1>0, <1>2, <2>1 DEF TakeJob
  <2>2. CASE j \notin inflight
    BY <1>0, <1>2, <2>2 DEF TakeJob
  <2> QED
    BY <2>1, <2>2
<1>3. ASSUME NEW s \in Scanners, RunJob(s) PROVE Passed'
  <2>1. scan[s].job \in ScheduledJobs /\ Holds(s, scan[s].job)
    BY <1>0, <1>3 DEF RunJob, ScanAt, Holding, Holds
  <2>2. ASSUME NEW j \in ScheduledJobs, <<j, jobs[j].last>> \in handled
        PROVE  <<j, jobs[j].last>> \in handled'
    BY <1>3, <2>2 DEF RunJob
  <2>3. PassedMeansRan'
    BY <1>3, <2>2 DEF RunJob
  <2>4. ASSUME NEW t \in Scanners, scan'[t].pc = "update"
        PROVE  <<scan'[t].job, scan'[t].now>> \in handled'
    <3>1. CASE t = s
      BY <1>0, <1>3, <3>1 DEF RunJob
    <3>2. CASE t # s
      <4>1. scan'[t] = scan[t]
        BY <1>0, <1>3, <3>2 DEF RunJob
      <4>2. Holds(t, scan[t].job) /\ scan[t].job \in ScheduledJobs
        BY <1>0, <2>4, <4>1 DEF Holds, Holding
      <4>3. scan[t].job # scan[s].job
        BY <2>1, <3>2, <4>2 DEF Claims, OneRunAtATime, Scanners, Holds
      <4>4. <<scan[t].job, scan[t].now>> \in handled
        BY <2>4, <4>1
      <4> QED
        BY <1>3, <4>1, <4>3, <4>4 DEF RunJob
    <3> QED
      BY <3>1, <3>2
  <2> QED
    BY <2>3, <2>4
<1>4. ASSUME NEW s \in Scanners, UpdateJobStatus(s) PROVE Passed'
  <2> DEFINE j == scan[s].job
             now == scan[s].now
  <2>1. j \in ScheduledJobs /\ <<j, now>> \in handled /\ handled' = handled
    BY <1>0, <1>4 DEF UpdateJobStatus, ScanAt, Holding
  <2>2. \A i \in ScheduledJobs :
          \/ jobs'[i].next = jobs[i].next /\ jobs'[i].last = jobs[i].last
          \/ i = j /\ jobs'[i].last = now /\ jobs'[i].next = CalculateNextRun(i, now)
    BY <1>0, <1>4, <2>1 DEF UpdateJobStatus, UpdateScheduledJob
  <2>3. PassedMeansRan'
    <3> SUFFICES ASSUME NEW i \in ScheduledJobs, jobs'[i].next # NoTime
                 PROVE  /\ <<i, jobs'[i].last>> \in handled'
                        /\ jobs'[i].next = CalculateNextRun(i, jobs'[i].last)
      BY DEF CalculateNextRun
    <3> QED
      BY <2>1, <2>2
  <2>4. StoredAfterRun'
    BY <1>0, <1>4, <2>1 DEF UpdateJobStatus
  <2> QED
    BY <2>3, <2>4
<1>5. ASSUME NEW s \in Scanners, ReleaseJob(s) PROVE Passed'
  BY <1>0, <1>5 DEF ReleaseJob
<1>6. ASSUME NEW s \in Scanners, EndScan(s) PROVE Passed'
  <2>1. PICK label \in {"idle", "ended"} :
          scan' = [scan EXCEPT ![s].pc = label, ![s].now = NoTime]
    BY <1>6 DEF EndScan
  <2> QED
    BY <1>0, <1>6, <2>1 DEF EndScan
<1>7. CASE LoopEnds
  BY <1>0, <1>7 DEF LoopEnds, Scanners
<1>8. CASE Minute
  BY <1>8 DEF Minute
<1>9. CASE BeginShutdown \/ StopReturns
  BY <1>9 DEF BeginShutdown, StopReturns
<1>10. CASE Crash \/ Boot
  BY <1>10 DEF Crash, Boot, IdleScan
<1>11. ASSUME NEW j \in ScheduledJobs, NEW state \in {"enabled", "disabled"},
              CreateJob(j, state) \/ ToggleJob(j, state) \/ DeleteJob(j)
       PROVE  Passed'
  <2>1. \A i \in ScheduledJobs :
          jobs'[i].next = jobs[i].next /\ jobs'[i].last = jobs[i].last
    BY <1>0, <1>11 DEF CreateJob, ToggleJob, DeleteJob
  <2> QED
    BY <1>11, <2>1 DEF CreateJob, ToggleJob, DeleteJob
<1>12. CASE UNCHANGED schedulerVars
  BY <1>12 DEF schedulerVars
<1> QED
  BY <1>1, <1>2, <1>3, <1>4, <1>5, <1>6, <1>7, <1>8, <1>9, <1>10, <1>11, <1>12
  DEF SchedulerNext, ScanStep

\* The times in a row are those of a run that has ended, whatever crash,
\* shutdown, edit or stale list came between, for any set of jobs and any
\* periods (scheduler.go:110-150 stores them after the run).
THEOREM NoDueTimeIsSkipped == SchedulerSpec => []PassedMeansRan
<1>1. Passed => PassedMeansRan
  BY DEF Passed
<1>2. SchedulerSpec => []Claims
  BY ClaimsInit, ClaimsNext, SchedulerHasTypes, PTL DEF SchedulerSpec
<1> QED
  BY <1>1, <1>2, PassedInit, PassedNext, SchedulerHasTypes, PTL DEF SchedulerSpec

-----------------------------------------------------------------------------
(* Tool server: versions of a template. *)

\* The digits of a number are numbers.
LEMMA DigitsTyped ==
  ASSUME NEW n \in Nat
  PROVE  Digits(n) \in Seq(Nat)
<1> DEFINE next(g, k) == IF k < Base THEN <<k>> ELSE Append(g[k \div Base], k % Base)
<1>0. Base \in Nat /\ Base > 1
  BY VersionsAssumption
<1>1. \A k \in Nat : ~(k < Base) => k \div Base \in 0..(k - 1) /\ k % Base \in Nat
  <2> SUFFICES ASSUME NEW k \in Nat, k >= Base
               PROVE  k \div Base \in 0..(k - 1) /\ k % Base \in Nat
    BY <1>0
  <2> HIDE DEF next
  <2>1. k % Base \in Nat
    BY <1>0, Division
  <2>2. k \div Base \in 0..(k - 1)
    BY <1>0, QuotientShrinks
  <2> QED
    BY <2>1, <2>2
<1> DEFINE Made(m) == \E g : g = [k \in 0..m |-> next(g, k)]
           H == {m \in Nat : Made(m)}
<1>2. 0 \in H
  <2>1. [k \in 0..0 |-> <<0>>] = [k \in 0..0 |-> next([j \in 0..0 |-> <<0>>], k)]
    BY <1>0
  <2> QED
    BY <2>1
<1>3. ASSUME NEW m \in H
      PROVE  m + 1 \in H
  <2>1. PICK g : g = [k \in 0..m |-> next(g, k)]
    OBVIOUS
  <2> DEFINE h == [k \in 0..(m + 1) |-> next(g, k)]
  <2>2. \A k \in 0..m : h[k] = g[k]
    <3>1. \A k \in 0..m : g[k] = next(g, k)
      BY <2>1
    <3>2. \A k \in 0..m : k \in 0..(m + 1)
      OBVIOUS
    <3> HIDE DEF next
    <3> QED
      BY <3>1, <3>2
  <2>3. ASSUME NEW k \in 0..(m + 1)
        PROVE  next(g, k) = next(h, k)
    <3>1. CASE k < Base
      BY <3>1
    <3>2. CASE ~(k < Base)
      <4>1. k \div Base \in 0..m
        BY <1>1, <3>2
      <4> QED
        BY <2>2, <3>2, <4>1
    <3> QED
      BY <3>1, <3>2
  <2>4. h = [k \in 0..(m + 1) |-> next(h, k)]
    BY <2>3
  <2>5. m + 1 \in Nat
    OBVIOUS
  <2> HIDE DEF h, next
  <2> QED
    BY <2>4, <2>5
<1> HIDE DEF H
<1>4. H = Nat
  <2>1. H \in SUBSET Nat
    BY DEF H
  <2> QED
    BY <1>2, <1>3, <2>1, InductionOverNat
<1> DEFINE d == CHOOSE g : g = [k \in 0..n |-> next(g, k)]
<1>5. d = [k \in 0..n |-> next(d, k)]
  <2>1. Made(n)
    BY <1>4 DEF H
  <2> QED
    BY <2>1
<1>6. Digits(n) = d[n]
  BY DEF Digits
<1> HIDE DEF d
<1> DEFINE K == {m \in Nat : \A k \in 0..m : k \in 0..n => d[k] \in Seq(Nat)}
<1>7. 0 \in K
  BY <1>0, <1>5
<1>8. ASSUME NEW m \in K
      PROVE  m + 1 \in K
  <2> SUFFICES ASSUME m + 1 \in 0..n
               PROVE  d[m + 1] \in Seq(Nat)
    OBVIOUS
  <2>1. d[m + 1] = next(d, m + 1)
    BY <1>5
  <2>2. CASE m + 1 < Base
    BY <2>1, <2>2
  <2>3. CASE ~(m + 1 < Base)
    <3>1. (m + 1) \div Base \in 0..m /\ (m + 1) % Base \in Nat /\ (m + 1) \div Base \in 0..n
      BY <1>1, <2>3
    <3>2. d[(m + 1) \div Base] \in Seq(Nat)
      BY <3>1
    <3>3. d[m + 1] = Append(d[(m + 1) \div Base], (m + 1) % Base)
      BY <2>1, <2>3
    <3> QED
      BY <3>1, <3>2, <3>3, AppendProperties
  <2> QED
    BY <2>2, <2>3
<1> HIDE DEF K
<1>9. K = Nat
  <2>1. K \in SUBSET Nat
    BY DEF K
  <2> QED
    BY <1>7, <1>8, <2>1, InductionOverNat
<1> QED
  BY <1>6, <1>9 DEF K

\* The comparison of two version strings (libsql.go:980, ORDER BY name,
\* version) is an order.
LEMMA TextLessIsOrder ==
  /\ \A s \in Seq(Nat) : ~TextLess(s, s)
  /\ \A s, t, u \in Seq(Nat) : TextLess(s, t) /\ TextLess(t, u) => TextLess(s, u)
<1>1. ASSUME NEW s \in Seq(Nat), TextLess(s, s)
      PROVE  FALSE
  <2>1. PICK k \in 1..Len(s) : k > Len(s) \/ s[k] < s[k]
    BY <1>1 DEF TextLess
  <2>2. Len(s) \in Nat /\ s[k] \in Nat
    BY <2>1, LenProperties, ElementOfSeq
  <2> QED
    BY <2>1, <2>2
<1>2. ASSUME NEW s \in Seq(Nat), NEW t \in Seq(Nat), NEW u \in Seq(Nat),
             TextLess(s, t), TextLess(t, u)
      PROVE  TextLess(s, u)
  <2>0. Len(s) \in Nat /\ Len(t) \in Nat /\ Len(u) \in Nat
    BY LenProperties
  <2>1. PICK k \in 1..Len(t) : /\ \A i \in 1..(k - 1) : i <= Len(s) /\ s[i] = t[i]
                               /\ k > Len(s) \/ s[k] < t[k]
    BY <1>2 DEF TextLess
  <2>2. PICK m \in 1..Len(u) : /\ \A i \in 1..(m - 1) : i <= Len(t) /\ t[i] = u[i]
                               /\ m > Len(t) \/ t[m] < u[m]
    BY <1>2 DEF TextLess
  <2>3. /\ k <= Len(s) => s[k] \in Nat
        /\ t[k] \in Nat /\ u[m] \in Nat
        /\ m <= Len(t) => t[m] \in Nat
        /\ m <= Len(s) => s[m] \in Nat
    <3>1. /\ \A i \in 1..Len(s) : s[i] \in Nat
          /\ \A i \in 1..Len(t) : t[i] \in Nat
          /\ \A i \in 1..Len(u) : u[i] \in Nat
      BY ElementOfSeq
    <3> QED
      BY <2>0, <3>1
  <2>4. CASE k < m
    <3>1. k \in 1..(m - 1) /\ k \in 1..Len(u)
      BY <2>0, <2>4
    <3>2. t[k] = u[k]
      BY <2>2, <3>1
    <3>3. \A i \in 1..(k - 1) : i <= Len(s) /\ s[i] = u[i]
      <4>1. \A i \in 1..(k - 1) : i \in 1..(m - 1)
        BY <2>0, <2>4
      <4> QED
        BY <2>1, <2>2, <4>1
    <3>4. k > Len(s) \/ s[k] < u[k]
      BY <2>1, <3>2
    <3> QED
      BY <3>1, <3>3, <3>4 DEF TextLess
  <2>5. CASE k = m
    <3>1. t[m] < u[m]
      BY <2>0, <2>2, <2>5
    <3>2. m > Len(s) \/ s[m] < u[m]
      BY <2>0, <2>1, <2>3, <2>5, <3>1, SMTT(30)
    <3>3. \A i \in 1..(m - 1) : i <= Len(s) /\ s[i] = u[i]
      BY <2>1, <2>2, <2>5
    <3> QED
      BY <3>2, <3>3 DEF TextLess
  <2>6. CASE m < k
    <3>1. m \in 1..(k - 1) /\ m <= Len(s) /\ s[m] = t[m] /\ m <= Len(t)
      BY <2>0, <2>1, <2>6
    <3>2. s[m] < u[m]
      BY <2>0, <2>2, <3>1
    <3>3. \A i \in 1..(m - 1) : i <= Len(s) /\ s[i] = u[i]
      <4>1. \A i \in 1..(m - 1) : i \in 1..(k - 1)
        BY <2>0, <2>6
      <4> QED
        BY <2>1, <2>2, <4>1
    <3> QED
      BY <3>2, <3>3 DEF TextLess
  <2>7. k \in Int /\ m \in Int
    BY <2>0
  <2> QED
    BY <2>4, <2>5, <2>6, <2>7
<1> QED
  BY <1>1, <1>2

\* A version's text stands before another's.
Before == {p \in Nat \X Nat : TextLess(Digits(p[1]), Digits(p[2]))}

\* So is that of the versions, by the text of their numbers.
LEMMA BeforeIsOrder ==
  /\ \A v, w \in Nat : <<v, w>> \in Before <=> TextLess(Digits(v), Digits(w))
  /\ \A v \in Nat : <<v, v>> \notin Before
  /\ \A v, w, x \in Nat : <<v, w>> \in Before /\ <<w, x>> \in Before => <<v, x>> \in Before
<1>1. \A v, w \in Nat : <<v, w>> \in Before <=> TextLess(Digits(v), Digits(w))
  BY DEF Before
<1>2. \A v \in Nat : ~TextLess(Digits(v), Digits(v))
  BY DigitsTyped, TextLessIsOrder
<1>3. ASSUME NEW v \in Nat, NEW w \in Nat, NEW x \in Nat,
             TextLess(Digits(v), Digits(w)), TextLess(Digits(w), Digits(x))
      PROVE  TextLess(Digits(v), Digits(x))
  <2>1. Digits(v) \in Seq(Nat) /\ Digits(w) \in Seq(Nat) /\ Digits(x) \in Seq(Nat)
    BY DigitsTyped
  <2> QED
    BY <1>3, <2>1, TextLessIsOrder
<1> QED
  BY <1>1, <1>2, <1>3

\* What is stored of a template can be counted.
LEMMA VersionsAreFinite ==
  ASSUME NEW n \in Nat, NEW T \in SUBSET (1..n)
  PROVE  IsFiniteSet(T) /\ Cardinality(T) \in Nat
<1>1. 1 \in Int /\ n \in Int
  OBVIOUS
<1>2. IsFiniteSet(1..n)
  BY <1>1, FS_Interval
<1>3. IsFiniteSet(T)
  BY <1>2, FS_Subset
<1> QED
  BY <1>3, FS_CardinalityType

\* The loop that looks for the highest version (tools.go:351-365) finds it.
LEMMA LatestIsGreatest ==
  ASSUME NEW n \in Nat, NEW list \in SUBSET (1..n), list # {}
  PROVE  Latest(list) \in list /\ \A w \in list : w <= Latest(list)
<1>1. IsFiniteSet(list)
  BY VersionsAreFinite
<1>2. list \in SUBSET Int
  OBVIOUS
<1>3. \E v \in list : \A w \in list : w <= v
  BY <1>1, <1>2, GreatestInteger
<1> QED
  BY <1>3 DEF Latest

\* Above a version that the list of an earlier time held, a later list holds
\* one that is not less; a list is only empty when nothing is stored.
LEMMA ListReaches ==
  ASSUME NEW n \in Nat, n > 0, NEW f \in 0..n,
         f > 0 => f \in ListTemplates(1..f, ListLimit)
  PROVE  \E w \in ListTemplates(1..n, ListLimit) : w >= f
<1> DEFINE after(v, m) == {w \in 1..m : TextLess(Digits(v), Digits(w))}
<1>0. ListLimit \in Nat /\ ListLimit > 0
  BY VersionsAssumption
<1>1. \A m \in Nat : \A v \in 1..m :
        v \in ListTemplates(1..m, ListLimit) <=> Cardinality(after(v, m)) < ListLimit
  BY <1>0 DEF ListTemplates
<1>2. \A m \in Nat : \A v : IsFiniteSet(after(v, m)) /\ Cardinality(after(v, m)) \in Nat
  BY VersionsAreFinite
<1>3. ASSUME NEW T \in SUBSET (1..n), T # {}
      PROVE  \E x \in T : \A y \in T : ~TextLess(Digits(x), Digits(y))
  <2>0. T \in SUBSET Nat
    OBVIOUS
  <2>1. IsFiniteSet(T) /\ T \in SUBSET Nat
    BY <2>0, VersionsAreFinite
  <2>2. \A x, y \in T : <<x, y>> \in Before <=> TextLess(Digits(x), Digits(y))
    BY <2>1, BeforeIsOrder
  <2>3. /\ \A x \in T : <<x, x>> \notin Before
        /\ \A x, y, z \in T : <<x, y>> \in Before /\ <<y, z>> \in Before => <<x, z>> \in Before
    BY <2>1, BeforeIsOrder
  <2>4. PICK x \in T : \A y \in T : <<x, y>> \notin Before
    BY <1>3, <2>1, <2>3, MaximalElement
  <2> QED
    BY <2>2, <2>4
<1>4. CASE f = 0
  <2>0. 1 \in 1..n /\ 1..n \in SUBSET (1..n)
    OBVIOUS
  <2>1. PICK x \in 1..n : \A y \in 1..n : ~TextLess(Digits(x), Digits(y))
    BY <1>3, <2>0, Zenon
  <2>2. after(x, n) = {}
    BY <2>1
  <2>3. Cardinality(after(x, n)) < ListLimit
    BY <1>0, <2>2, FS_EmptySet
  <2> QED
    BY <1>1, <1>4, <2>1, <2>3
<1>5. CASE f > 0 /\ f \notin ListTemplates(1..n, ListLimit)
  <2>0. f \in 1..f /\ f \in 1..n /\ f \in Nat
    BY <1>5
  <2>1. Cardinality(after(f, f)) < ListLimit
    BY <1>1, <1>5, <2>0
  <2>2. ~(Cardinality(after(f, n)) < ListLimit)
    BY <1>1, <1>5, <2>0
  <2> DEFINE U == {w \in 1..n : w > f /\ TextLess(Digits(f), Digits(w))}
  <2>3. U # {}
    <3> SUFFICES ASSUME U = {}
                 PROVE  FALSE
      OBVIOUS
    <3>1. after(f, n) = after(f, f)
      BY <2>0
    <3> QED
      BY <2>1, <2>2, <3>1
  <2>4. PICK x \in U : \A y \in U : ~TextLess(Digits(x), Digits(y))
    BY <1>3, <2>3
  <2>5. \A y \in 1..n : TextLess(Digits(x), Digits(y)) => TextLess(Digits(f), Digits(y))
    <3> SUFFICES ASSUME NEW y \in 1..n, TextLess(Digits(x), Digits(y))
                 PROVE  TextLess(Digits(f), Digits(y))
      OBVIOUS
    <3>1. f \in Nat /\ x \in Nat /\ y \in Nat /\ TextLess(Digits(f), Digits(x))
      OBVIOUS
    <3> QED
      BY <3>1, BeforeIsOrder
  <2>6. after(x, n) \subseteq after(f, f)
    BY <2>4, <2>5
  <2>7. Cardinality(after(x, n)) < ListLimit
    <3>1. Cardinality(after(x, n)) <= Cardinality(after(f, f))
      BY <1>2, <2>0, <2>6, FS_Subset
    <3>2. Cardinality(after(x, n)) \in Nat /\ Cardinality(after(f, f)) \in Nat
      BY <1>2, <2>0
    <3> QED
      BY <1>0, <2>1, <3>1, <3>2
  <2>8. x \in ListTemplates(1..n, ListLimit) /\ x >= f
    BY <1>1, <2>7
  <2> QED
    BY <2>8
<1>6. CASE f > 0 /\ f \in ListTemplates(1..n, ListLimit)
  BY <1>6
<1> QED
  BY <1>4, <1>5, <1>6

\* Uncut says of a call's list that it holds the latest version of its floor.
Uncut(limit, floor) == limit = 0 \/ Complete(1..floor)

\* A list with no limit, and one cut after a version was defined, has a
\* version that is not less.
LEMMA LatestReaches ==
  ASSUME NEW n \in Nat, n > 0, NEW f \in 0..n, NEW limit \in {0, ListLimit}
  PROVE  /\ Latest(ListTemplates(1..n, limit)) \in 1..n
         /\ Uncut(limit, f) => Latest(ListTemplates(1..n, limit)) >= f
<1> DEFINE list == ListTemplates(1..n, limit)
<1>0. ListLimit \in Nat /\ ListLimit > 0
  BY VersionsAssumption
<1>1. list \in SUBSET (1..n)
  BY DEF ListTemplates
<1>2. list # {}
  <2>1. CASE limit = 0
    BY <2>1 DEF ListTemplates
  <2>2. CASE limit = ListLimit
    <3>1. \E w \in ListTemplates(1..n, ListLimit) : w >= 0
      BY ListReaches
    <3> QED
      BY <2>2, <3>1
  <2> QED
    BY <2>1, <2>2
<1>3. Uncut(limit, f) => \E w \in list : w >= f
  <2>1. CASE limit = 0
    <3>1. n \in list /\ n >= f
      BY <2>1 DEF ListTemplates
    <3> QED
      BY <3>1
  <2>2. CASE limit = ListLimit
    <3> SUFFICES ASSUME Complete(1..f)
                 PROVE  \E w \in ListTemplates(1..n, ListLimit) : w >= f
      BY <1>0, <2>2 DEF Uncut
    <3>1. f > 0 => f \in ListTemplates(1..f, ListLimit)
      <4> SUFFICES ASSUME f > 0
                   PROVE  f \in ListTemplates(1..f, ListLimit)
        OBVIOUS
      <4>1. 1..f # {} /\ f \in 1..f /\ f \in Nat /\ 1..f \in SUBSET (1..f)
        OBVIOUS
      <4>2. Latest(1..f) \in 1..f /\ f <= Latest(1..f)
        BY <4>1, LatestIsGreatest
      <4>3. Latest(1..f) = f
        BY <4>2
      <4> QED
        BY <4>1, <4>3 DEF Complete
    <3> QED
      BY <3>1, ListReaches
  <2> QED
    BY <2>1, <2>2
<1> HIDE DEF list
<1>4. Latest(list) \in list /\ \A w \in list : w <= Latest(list)
  BY <1>1, <1>2, LatestIsGreatest
<1>5. Latest(list) \in 1..n
  BY <1>1, <1>4
<1>6. ASSUME Uncut(limit, f)
      PROVE  Latest(list) >= f
  <2>1. PICK w \in list : w >= f
    BY <1>3, <1>6
  <2>2. w <= Latest(list) /\ w \in 1..n /\ f \in Nat
    BY <1>1, <1>4
  <2> QED
    BY <1>5, <2>1, <2>2
<1> QED
  BY <1>5, <1>6 DEF list

-----------------------------------------------------------------------------

Definitions == Callers \cup {Nobody}
ToolLabels == {"idle", "version", "store", "resolve", "create"}
Calls == [at : ToolLabels, version : Nat, floor : Nat, agent : Agents \cup {Nobody},
          limit : {0, ListLimit}, read : BOOLEAN]
Rows == [version : Nat, floor : Nat, limit : {0, ListLimit}]

ToolTypeOK ==
  /\ newest \in Nat /\ templates \in [1..newest -> Definitions]
  /\ serving \in [Callers -> Calls] /\ rows \in Seq(Rows)

\* A call against what was answered before it began, n being the newest.
CallKept(call, n) ==
  /\ call.floor <= n
  /\ call.at = "store" => call.version \in 1..(n + 1)
  /\ call.at = "store" /\ call.read /\ Uncut(call.limit, call.floor)
       => call.version > call.floor
  /\ call.at = "create" /\ Uncut(call.limit, call.floor)
       => call.version >= call.floor

RowKept(row) == Uncut(row.limit, row.floor) => row.version >= row.floor

ToolInv ==
  /\ ToolTypeOK
  /\ \A t \in ToolCalls : serving[t].limit = 0
  /\ \A s \in Callers : CallKept(serving[s], newest)
  /\ \A i \in DOMAIN rows : RowKept(rows[i])

\* More versions take nothing from what a call holds.
LEMMA CallStaysKept ==
  ASSUME NEW call \in Calls, NEW n \in Nat, NEW m \in Nat, n <= m, CallKept(call, n)
  PROVE  CallKept(call, m)
<1>1. call.floor \in Nat /\ call.version \in Nat
  BY DEF Calls
<1> QED
  BY <1>1 DEF CallKept

\* A step of one call that stores nothing keeps the invariant.
LEMMA OneCallMoves ==
  ASSUME ToolInv, NEW s \in Callers, NEW call \in Calls, CallKept(call, newest),
         s \in ToolCalls => call.limit = 0,
         serving' = [serving EXCEPT ![s] = call], UNCHANGED <<templates, newest, rows>>
  PROVE  ToolInv'
<1>1. ToolTypeOK'
  BY DEF ToolInv, ToolTypeOK
<1>2. \A t \in Callers : serving'[t] = IF t = s THEN call ELSE serving[t]
  BY DEF ToolInv, ToolTypeOK
<1>3. ToolCalls \subseteq Callers
  BY DEF Callers
<1> QED
  BY <1>1, <1>2, <1>3 DEF ToolInv

\* The elements of a list that one was added to.
LEMMA AppendedElements ==
  ASSUME NEW S, NEW s \in Seq(S), NEW e \in S
  PROVE  \A i \in DOMAIN Append(s, e) :
           Append(s, e)[i] = e \/ (i \in DOMAIN s /\ Append(s, e)[i] = s[i])
<1>1. /\ Len(s) \in Nat /\ DOMAIN s = 1..Len(s)
      /\ Append(s, e) \in Seq(S) /\ Len(Append(s, e)) = Len(s) + 1
      /\ \A i \in 1..Len(s) : Append(s, e)[i] = s[i]
      /\ Append(s, e)[Len(s) + 1] = e
  BY AppendProperties, LenProperties
<1>2. DOMAIN Append(s, e) = 1..(Len(s) + 1)
  BY <1>1, LenProperties
<1> DEFINE n == Len(s)
           t == Append(s, e)
<1> HIDE DEF n, t
<1>3. /\ n \in Nat /\ DOMAIN s = 1..n /\ DOMAIN t = 1..(n + 1)
      /\ \A i \in 1..n : t[i] = s[i]
      /\ t[n + 1] = e
  BY <1>1, <1>2 DEF n, t
<1>4. ASSUME NEW i \in DOMAIN t
      PROVE  t[i] = e \/ (i \in DOMAIN s /\ t[i] = s[i])
  <2>1. i \in 1..n \/ i = n + 1
    BY <1>3
  <2>2. CASE i \in 1..n
    <3>1. i \in DOMAIN s /\ t[i] = s[i]
      BY <1>3, <2>2
    <3> QED
      BY <3>1
  <2>3. CASE i = n + 1
    <3>1. t[i] = t[n + 1]
      BY <2>3
    <3>2. t[i] = e
      BY <1>3, <3>1
    <3> QED
      BY <3>2
  <2> QED
    BY <2>1, <2>2, <2>3
<1> QED
  BY <1>4 DEF t

\* A row that is added keeps the invariant if it names what was the latest.
LEMMA OneRowMore ==
  ASSUME ToolInv, NEW row \in Rows, RowKept(row), rows' = Append(rows, row),
         UNCHANGED <<templates, newest, serving>>
  PROVE  ToolInv'
<1>1. ToolTypeOK'
  BY AppendProperties DEF ToolInv, ToolTypeOK
<1>2. /\ rows \in Seq(Rows)
      /\ \A i \in DOMAIN rows : RowKept(rows[i])
  BY DEF ToolInv, ToolTypeOK
<1>3. \A i \in DOMAIN rows' : rows'[i] = row \/ (i \in DOMAIN rows /\ rows'[i] = rows[i])
  BY <1>2, AppendedElements
<1>4. \A i \in DOMAIN rows' : RowKept(rows'[i])
  BY <1>2, <1>3
<1> QED
  BY <1>1, <1>4 DEF ToolInv

\* Nothing is defined at first.
LEMMA ToolInitHolds == ToolInit => ToolInv
<1> SUFFICES ASSUME ToolInit
             PROVE  ToolInv
  OBVIOUS
<1>0. StoredBefore \in Nat /\ ListLimit \in Nat
  BY ToolServerAssumption, VersionsAssumption
<1>1. NoCall \in Calls /\ NoCall.limit = 0 /\ NoCall.floor = 0 /\ NoCall.at = "idle"
  BY DEF NoCall, Calls, ToolLabels
<1>2. ToolTypeOK
  BY <1>0, <1>1 DEF ToolInit, ToolTypeOK, Definitions
<1>3. \A s \in Callers : serving[s] = NoCall
  BY DEF ToolInit
<1>4. CallKept(NoCall, newest)
  BY <1>0, <1>1 DEF CallKept, ToolInit
<1>5. ToolCalls \subseteq Callers
  BY DEF Callers
<1>6. DOMAIN rows = {}
  BY DEF ToolInit
<1> QED
  BY <1>1, <1>2, <1>3, <1>4, <1>5, <1>6 DEF ToolInv

\* Each handler keeps the invariant.
LEMMA ToolStepHolds == ToolInv /\ [ToolNext]_toolVars => ToolInv'
<1> SUFFICES ASSUME ToolInv, [ToolNext]_toolVars
             PROVE  ToolInv'
  OBVIOUS
<1>0. /\ ListLimit \in Nat /\ newest \in Nat /\ templates \in [1..newest -> Definitions]
      /\ Stored = 1..newest /\ serving \in [Callers -> Calls] /\ rows \in Seq(Rows)
      /\ ToolCalls \subseteq Callers /\ PanelCall \in Callers /\ RunnerCall \in Callers
      /\ PanelCall \notin ToolCalls /\ RunnerCall \notin ToolCalls
  BY VersionsAssumption, ToolServerAssumption DEF ToolInv, ToolTypeOK, Stored, Callers
<1>1. /\ NoCall \in Calls /\ CallKept(NoCall, newest) /\ NoCall.limit = 0
  BY <1>0 DEF NoCall, Calls, ToolLabels, CallKept
<1>3. ASSUME NEW s \in Callers, DefineStart(s) \/ RunStart(s)
      PROVE  ToolInv'
  <2>1. PICK g \in Agents : Enter(s, "version", g) \/ Enter(s, "resolve", g)
    BY <1>3 DEF DefineStart, RunStart
  <2>2. PICK label \in {"version", "resolve"} : Enter(s, label, g)
    BY <2>1
  <2> DEFINE call == [NoCall EXCEPT !.at = label, !.agent = g, !.floor = newest]
  <2>3. call \in Calls /\ call.limit = 0 /\ call.floor = newest /\ call.at = label
    BY <1>0 DEF NoCall, Calls, ToolLabels
  <2>4. CallKept(call, newest)
    BY <1>0, <2>3 DEF CallKept
  <2>5. serving' = [serving EXCEPT ![s] = call] /\ UNCHANGED <<templates, newest, rows>>
    BY <2>2 DEF Enter
  <2> HIDE DEF call
  <2> QED
    BY <2>3, <2>4, <2>5, OneCallMoves
<1>4. CASE CreateTemplate
  <2> DEFINE call == [NoCall EXCEPT !.at = "version", !.floor = newest, !.limit = ListLimit]
  <2>1. call \in Calls /\ call.floor = newest /\ call.at = "version"
    BY <1>0 DEF NoCall, Calls, ToolLabels
  <2>2. CallKept(call, newest)
    BY <1>0, <2>1 DEF CallKept
  <2>3. serving' = [serving EXCEPT ![PanelCall] = call] /\ UNCHANGED <<templates, newest, rows>>
    BY <1>4 DEF CreateTemplate
  <2> HIDE DEF call
  <2> QED
    BY <1>0, <2>1, <2>2, <2>3, OneCallMoves
<1>5. ASSUME NEW g \in Agents, RunFromTemplate(g)
      PROVE  ToolInv'
  <2> DEFINE call == [NoCall EXCEPT !.at = "resolve", !.agent = g, !.floor = newest,
                                    !.limit = ListLimit]
  <2>1. call \in Calls /\ call.floor = newest /\ call.at = "resolve"
    BY <1>0 DEF NoCall, Calls, ToolLabels
  <2>2. CallKept(call, newest)
    BY <1>0, <2>1 DEF CallKept
  <2>3. serving' = [serving EXCEPT ![RunnerCall] = call] /\ UNCHANGED <<templates, newest, rows>>
    BY <1>5 DEF RunFromTemplate
  <2> HIDE DEF call
  <2> QED
    BY <1>0, <2>1, <2>2, <2>3, OneCallMoves
<1>6. ASSUME NEW s \in Callers, NEW call \in Calls, CallKept(call, newest),
             call.limit = serving[s].limit \/ call.limit = 0,
             serving' = [serving EXCEPT ![s] = call], UNCHANGED <<templates, newest, rows>>
      PROVE  ToolInv'
  <2>1. s \in ToolCalls => call.limit = 0
    BY <1>6 DEF ToolInv
  <2> QED
    BY <1>6, <2>1, OneCallMoves
<1>7. ASSUME NEW s \in Callers, DefineVersion(s)
      PROVE  ToolInv'
  <2>0. PICK read \in BOOLEAN :
          serving' = [serving EXCEPT
            ![s].at = "store", ![s].version = NextVersion(read, Stored, serving[s].limit),
            ![s].read = read]
    BY <1>7, ZenonT(20) DEF DefineVersion
  <2> DEFINE next == NextVersion(read, Stored, serving[s].limit)
             call == [serving[s] EXCEPT !.at = "store", !.version = next, !.read = read]
  <2>1. /\ serving[s] \in Calls /\ CallKept(serving[s], newest)
        /\ serving[s].limit \in {0, ListLimit} /\ serving[s].floor \in Nat
    BY <1>0 DEF ToolInv, Calls
  <2>2. serving[s].floor \in 0..newest
    BY <1>0, <2>1 DEF CallKept
  <2>3. /\ next \in 1..(newest + 1)
        /\ read /\ Uncut(serving[s].limit, serving[s].floor) => next > serving[s].floor
    <3>1. CASE newest = 0
      BY <1>0, <2>2, <3>1 DEF NextVersion
    <3>3. CASE ~read
      BY <1>0, <3>3 DEF NextVersion
    <3>2. CASE read /\ newest > 0
      <4>1. next = Latest(ListTemplates(1..newest, serving[s].limit)) + 1
        BY <1>0, <3>2 DEF NextVersion
      <4> HIDE DEF next
      <4>2. /\ Latest(ListTemplates(1..newest, serving[s].limit)) \in 1..newest
            /\ Uncut(serving[s].limit, serving[s].floor)
                 => Latest(ListTemplates(1..newest, serving[s].limit)) >= serving[s].floor
        BY <1>0, <2>1, <2>2, <3>2, LatestReaches
      <4> QED
        BY <1>0, <2>1, <4>1, <4>2
    <3> QED
      BY <1>0, <3>1, <3>2, <3>3
  <2>4. serving' = [serving EXCEPT ![s] = call] /\ UNCHANGED <<templates, newest, rows>>
    BY <1>0, <1>7, <2>0 DEF DefineVersion
  <2> HIDE DEF next
  <2>5. /\ call \in Calls /\ call.limit = serving[s].limit /\ call.floor = serving[s].floor
        /\ call.at = "store" /\ call.version = next /\ call.read = read
    <3>1. next \in Nat
      BY <1>0, <2>3
    <3> QED
      BY <2>1, <3>1 DEF Calls, ToolLabels
  <2> HIDE DEF call
  <2>6. CallKept(call, newest)
    BY <2>2, <2>3, <2>5 DEF CallKept
  <2> QED
    BY <1>6, <2>4, <2>5, <2>6
<1>8. ASSUME NEW s \in Callers, DefineStore(s)
      PROVE  ToolInv'
  <2> DEFINE v == serving[s].version
  <2>1. serving[s] \in Calls /\ CallKept(serving[s], newest) /\ serving[s].at = "store"
    BY <1>0, <1>8 DEF ToolInv, DefineStore, CallAt
  <2>2. v \in 1..(newest + 1)
    BY <2>1 DEF CallKept
  <2>3. /\ newest' = IF v > newest THEN v ELSE newest
        /\ templates' = [w \in Stored \cup {v} |-> IF w = v THEN s ELSE templates[w]]
        /\ serving' = [serving EXCEPT ![s] = NoCall] /\ rows' = rows
    BY <1>0, <1>8 DEF DefineStore, StoreTemplate
  <2>4. newest' \in Nat /\ newest <= newest' /\ Stored \cup {v} = 1..newest'
    BY <1>0, <2>2, <2>3
  <2> HIDE DEF v
  <2>7. \A t \in Callers : serving'[t] \in Calls /\ CallKept(serving'[t], newest)
    BY <1>0, <1>1, <2>3 DEF ToolInv
  <2>8. \A t \in Callers : CallKept(serving'[t], newest')
    BY <1>0, <2>4, <2>7, CallStaysKept
  <2>9. \A t \in ToolCalls : serving'[t].limit = 0
    BY <1>0, <1>1, <2>3 DEF ToolInv
  <2>10. s \in Definitions
    BY DEF Definitions
  <2>11. templates' \in [1..newest' -> Definitions]
    BY <1>0, <2>3, <2>4, <2>10
  <2>12. ToolTypeOK'
    BY <1>0, <1>1, <2>3, <2>4, <2>11 DEF ToolTypeOK
  <2> QED
    BY <2>3, <2>8, <2>9, <2>12 DEF ToolInv
<1>9. ASSUME NEW s \in Callers, serving' = [serving EXCEPT ![s] = NoCall],
             UNCHANGED <<templates, newest, rows>>
      PROVE  ToolInv'
  BY <1>1, <1>6, <1>9
<1>10. ASSUME NEW s \in Callers, DefineFails(s) \/ RunFails(s)
       PROVE  ToolInv'
  BY <1>9, <1>10 DEF DefineFails, RunFails
<1>11. ASSUME NEW s \in Callers, ResolveLatest(s)
       PROVE  ToolInv'
  <2>1. CASE newest = 0
    <3>1. Stored = {}
      BY <1>0, <2>1
    <3> QED
      BY <1>9, <1>11, <3>1 DEF ResolveLatest
  <2>2. CASE newest > 0
    <3> DEFINE v == Latest(ListTemplates(Stored, serving[s].limit))
               call == [serving[s] EXCEPT !.at = "create", !.version = v]
    <3>1. /\ serving[s] \in Calls /\ CallKept(serving[s], newest)
          /\ serving[s].limit \in {0, ListLimit} /\ serving[s].floor \in 0..newest
      BY <1>0 DEF ToolInv, Calls, CallKept
    <3>2. /\ v \in 1..newest
          /\ Uncut(serving[s].limit, serving[s].floor) => v >= serving[s].floor
      BY <1>0, <2>2, <3>1, LatestReaches
    <3>3. Stored # {}
      <4>1. 1 \in 1..newest
        BY <1>0, <2>2
      <4> QED
        BY <1>0, <4>1
    <3>4. serving' = [serving EXCEPT ![s] = call] /\ UNCHANGED <<templates, newest, rows>>
      BY <1>0, <1>11, <3>3 DEF ResolveLatest
    <3> HIDE DEF v
    <3>7. v \in Nat
      BY <1>0, <3>2
    <3>5. /\ call \in Calls /\ call.limit = serving[s].limit /\ call.floor = serving[s].floor
          /\ call.at = "create" /\ call.version = v
      BY <3>1, <3>7 DEF Calls, ToolLabels
    <3> HIDE DEF call
    <3>6. CallKept(call, newest)
      BY <3>1, <3>2, <3>5 DEF CallKept
    <3> QED
      BY <1>6, <3>4, <3>5, <3>6
  <2> QED
    BY <1>0, <2>1, <2>2
<1>12. ASSUME NEW s \in Callers, NEW v \in {1, MaxVersion}, ResolveVersion(s, v)
       PROVE  ToolInv'
  <2>1. CASE v \notin Stored
    BY <1>9, <1>12, <2>1 DEF ResolveVersion
  <2>2. CASE v \in Stored
    <3> DEFINE call == [serving[s] EXCEPT !.at = "create", !.version = v, !.floor = 0]
    <3>1. serving[s] \in Calls /\ v \in 1..newest
      BY <1>0, <2>2
    <3>2. serving' = [serving EXCEPT ![s] = call] /\ UNCHANGED <<templates, newest, rows>>
      BY <1>0, <1>12, <2>2 DEF ResolveVersion
    <3>5. v \in Nat
      BY <1>0, <3>1
    <3>3. /\ call \in Calls /\ call.limit = serving[s].limit /\ call.floor = 0
          /\ call.at = "create" /\ call.version = v
      BY <3>1, <3>5 DEF Calls, ToolLabels
    <3> HIDE DEF call
    <3>4. CallKept(call, newest)
      BY <1>0, <3>1, <3>3 DEF CallKept
    <3> QED
      BY <1>6, <3>2, <3>3, <3>4
  <2> QED
    BY <2>1, <2>2
<1>13. ASSUME NEW s \in Callers, RunCreate(s)
       PROVE  ToolInv'
  <2> DEFINE row == [version |-> serving[s].version, floor |-> serving[s].floor,
                     limit |-> serving[s].limit]
  <2>1. serving[s] \in Calls /\ CallKept(serving[s], newest) /\ serving[s].at = "create"
    BY <1>0, <1>13 DEF ToolInv, RunCreate, CallAt
  <2>2. row \in Rows /\ RowKept(row)
    BY <2>1 DEF Calls, Rows, RowKept, CallKept
  <2>3. /\ rows' = Append(rows, row) \/ rows' = rows
        /\ serving' = [serving EXCEPT ![s] = NoCall] /\ UNCHANGED <<templates, newest>>
    BY <1>13 DEF RunCreate, CreateWorkflow
  <2> HIDE DEF row
  <2>4. rows' \in Seq(Rows) /\ \A i \in DOMAIN rows' : RowKept(rows'[i])
    <3>1. CASE rows' = rows
      BY <1>0, <3>1 DEF ToolInv
    <3>2. CASE rows' = Append(rows, row)
      <4>1. \A i \in DOMAIN rows' : rows'[i] = row \/ (i \in DOMAIN rows /\ rows'[i] = rows[i])
        BY <1>0, <2>2, <3>2, AppendedElements
      <4>2. rows' \in Seq(Rows)
        BY <1>0, <2>2, <3>2, AppendProperties
      <4> QED
        BY <2>2, <4>1, <4>2 DEF ToolInv
    <3> QED
      BY <2>3, <3>1, <3>2
  <2>5. \A t \in Callers : serving'[t] = IF t = s THEN NoCall ELSE serving[t]
    BY <1>0, <2>3
  <2>6. serving' \in [Callers -> Calls]
    BY <1>0, <1>1, <2>3
  <2> QED
    BY <1>0, <1>1, <2>3, <2>4, <2>5, <2>6 DEF ToolInv, ToolTypeOK
<1>14. ASSUME NEW i \in 1..(2 * MaxRuns), Rerun(i)
       PROVE  ToolInv'
  <2>1. i \in DOMAIN rows /\ rows[i] \in Rows /\ RowKept(rows[i])
    BY <1>0, <1>14, ElementOfSeq DEF Rerun, ToolInv
  <2> QED
    BY <1>14, <2>1, OneRowMore DEF Rerun
<1>15. CASE UNCHANGED toolVars
  BY <1>15 DEF toolVars, ToolInv, ToolTypeOK
<1> QED
  BY <1>3, <1>4, <1>5, <1>7, <1>8, <1>10, <1>11, <1>12, <1>13, <1>14, <1>15 DEF ToolNext

\* The inductive invariant of the tool server.
LEMMA ToolInvHolds == ToolSpec => []ToolInv
<1>1. ToolInit => ToolInv
  BY ToolInitHolds
<1>2. ToolInv /\ [ToolNext]_toolVars => ToolInv'
  BY ToolStepHolds
<1> QED
  BY <1>1, <1>2, PTL DEF ToolSpec

\* A define that begins when another has been answered gets a later version
\* (tools.go:147-219) unless its list could not be read or is cut, for any
\* number of calls, of versions and any base of their digits.
THEOREM LaterDefineIsLater == ToolSpec => []LaterDefineLaterVersion
<1>1. ToolInv => LaterDefineLaterVersion
  <2> SUFFICES ASSUME ToolInv, NEW s \in Callers, CallAt(s, "store"),
                      serving[s].read, s \in ToolCalls \/ Complete(1..serving[s].floor)
               PROVE  serving[s].version > serving[s].floor
    BY DEF LaterDefineLaterVersion
  <2>1. Uncut(serving[s].limit, serving[s].floor)
    BY DEF ToolInv, Uncut
  <2> QED
    BY <2>1 DEF ToolInv, CallKept, CallAt
<1> QED
  BY <1>1, ToolInvHolds, PTL

\* A run that names no version takes one at least as late as any that was
\* answered before it began (tools.go:328-349, main.go:417-434), for any
\* number of calls and versions.
THEOREM RunsAreOfTheLatest == ToolSpec => []RunsTakeTheLatest
<1>1. ToolInv => RunsTakeTheLatest
  BY DEF ToolInv, RowKept, Uncut, RunsTakeTheLatest
<1> QED
  BY <1>1, ToolInvHolds, PTL

-----------------------------------------------------------------------------
(* File actions. *)

Unknown == CHOOSE r \in Asked : TRUE
Blocks == Files \cup FileSteps \cup {Hole}
FileLabels == Ops \cup {"idle", "failed", "done", "open", "blocks", "remove", "put"}

StepRecords ==
  [at : FileLabels, req : Asked \cup {Unknown}, try : Nat, todo : SUBSET Names,
   cur : 0..NumFiles, src : Files \cup {None}, dst : Files \cup {None}, pos : Nat]

\* Where a step is says what was asked of it and which files it has open.
StepFits(x, s) ==
  /\ x.at = "idle" <=> x.try = 0
  /\ x.try <= MaxTries[s]
  /\ x.at # "idle" => x.req \in Requests[s]
  /\ x.at \in Ops => x.at = x.req.op
  /\ x.at \in {"open", "blocks"} => x.req.op \in {"copy", "move"}
  /\ x.at = "blocks" => x.src \in Files /\ x.dst \in Files /\ x.cur \in Names
  /\ x.at = "remove" => x.req.op \in {"move", "delete"}
  /\ x.at = "put" => x.req.op \in {"write", "append"}
  /\ x.at = "put" \/ (x.at = "done" /\ x.req.op = "append") => x.dst \in Files

FileTypeOK ==
  /\ dirs \in SUBSET Dirs
  /\ names \in [Dirs -> [Names -> Files \cup {None}]]
  /\ content \in [Files -> Seq(Blocks)]
  /\ step \in [FileSteps -> StepRecords]
  /\ \A s \in FileSteps : StepFits(step[s], s)

\* What a step may be asked to do (fs.go:749-765, fs.go:861-903).
LEMMA RequestFacts ==
  ASSUME NEW s \in FileSteps, NEW r \in Requests[s]
  PROVE  /\ r \in Asked /\ r.op \in Ops /\ r.from \in Dirs /\ r.to \in Dirs
         /\ r.file \in 0..NumFiles /\ (r.file # NoFile => r.file \in Names)
         /\ r.op \in {"copy", "move"} \/ r.from = r.to
         /\ r.op \in {"write", "append"} => r.file \in Names
         /\ MaxTries[s] \in Nat /\ MaxTries[s] > 0
<1>1. r \in Asked
  BY DEF Asked
<1>2. Requests[s] \in SUBSET [op : Ops, from : Dirs, to : Dirs, file : 0..NumFiles]
  BY FileActionsAssumption
<1>3. r \in [op : Ops, from : Dirs, to : Dirs, file : 0..NumFiles]
  BY <1>2
<1>4. NumFiles \in Nat /\ MaxTries[s] \in Nat \ {0}
  BY FileActionsAssumption
<1>5. r.file # NoFile => r.file \in Names
  BY <1>3, <1>4 DEF NoFile, Names
<1>6. /\ r.op \in {"copy", "move"} \/ r.from = r.to
      /\ r.op \in {"write", "append"} => r.file # NoFile
  BY FileActionsAssumption
<1> QED
  BY <1>1, <1>3, <1>4, <1>5, <1>6

\* A file that was there and one that a step makes are files.
LEMMA FileNames ==
  /\ \A d \in Dirs, n \in Names : Original(d, n) \in Files
  /\ \A s \in FileSteps, k \in Tries, d \in Dirs, n \in Names : <<s, k, d, n>> \in Files
  /\ None \notin Files
<1>1. /\ \A d \in Dirs, n \in Names : Original(d, n) \in Files
      /\ \A s \in FileSteps, k \in Tries, d \in Dirs, n \in Names : <<s, k, d, n>> \in Files
  BY DEF Files
<1>2. \A d, n : Original(d, n) # None
  BY DEF Original, None
<1>3. \A f \in FileSteps \X Tries \X Dirs \X Names : f # None
  BY DEF None
<1>4. None \notin Files
  BY <1>2, <1>3 DEF Files
<1> QED
  BY <1>1, <1>4

\* A write leaves a list of blocks.
LEMMA WrittenIsSeq ==
  ASSUME NEW c \in Seq(Blocks), NEW pos \in Nat, NEW b \in Blocks
  PROVE  WriteAt(c, pos, b) \in Seq(Blocks)
<1> DEFINE n == IF Len(c) > pos THEN Len(c) ELSE pos + 1
<1>1. Len(c) \in Nat /\ n \in Nat /\ \A i \in 1..Len(c) : c[i] \in Blocks
  BY LenProperties, ElementOfSeq
<1>2. Hole \in Blocks
  BY DEF Blocks
<1> HIDE DEF n
<1>3. \A i \in 1..n : (IF i = pos + 1 THEN b ELSE IF i <= Len(c) THEN c[i] ELSE Hole) \in Blocks
  BY <1>1, <1>2
<1>4. [i \in 1..n |-> IF i = pos + 1 THEN b ELSE IF i <= Len(c) THEN c[i] ELSE Hole]
        \in [1..n -> Blocks]
  BY <1>3
<1>5. \A f \in [1..n -> Blocks] : f \in Seq(Blocks)
  BY <1>1, IsASeq
<1> QED
  BY <1>4, <1>5 DEF WriteAt, n

\* What O_CREATE opens is a file, the one that is named or a new one.
LEMMA OpenedIsFile ==
  ASSUME FileTypeOK, NEW s \in FileSteps, step[s].at # "idle",
         NEW d \in Dirs, NEW n \in Names
  PROVE  Opened(s, d, n) \in Files
<1>1. step[s] \in StepRecords /\ StepFits(step[s], s) /\ MaxTries[s] \in Nat
  BY FileActionsAssumption DEF FileTypeOK
<1>2. step[s].try \in 1..MaxTries[s]
  BY <1>1 DEF StepRecords, StepFits
<1>3. step[s].try \in Tries
  BY <1>2 DEF Tries
<1>4. names[d][n] \in Files \cup {None}
  BY DEF FileTypeOK
<1> QED
  BY <1>3, <1>4, FileNames DEF Opened

\* A step that was not asked anything.
LEMMA IdleIsTyped == IdleFileStep \in StepRecords
BY FileActionsAssumption DEF IdleFileStep, StepRecords, FileLabels, Unknown, NoFile

\* The types hold at first.
LEMMA FileInitTyped == FileInit => FileTypeOK
<1> SUFFICES ASSUME FileInit
             PROVE  FileTypeOK
  OBVIOUS
<1>1. dirs \in SUBSET Dirs
  BY DEF FileInit
<1>2. names \in [Dirs -> [Names -> Files \cup {None}]]
  BY FileNames DEF FileInit
<1>3. content \in [Files -> Seq(Blocks)]
  <2>1. ASSUME NEW f \in Files
        PROVE  (IF f[1] = "init" THEN <<f, f>> ELSE <<>>) \in Seq(Blocks)
    <3>1. f \in Blocks
      BY DEF Blocks
    <3> QED
      BY <3>1
  <2> QED
    BY <2>1 DEF FileInit
<1>4. IdleFileStep \in StepRecords
  BY IdleIsTyped
<1>5. \A s \in FileSteps : StepFits(IdleFileStep, s)
  BY FileActionsAssumption DEF IdleFileStep, StepFits, Ops
<1> QED
  BY <1>1, <1>2, <1>3, <1>4, <1>5 DEF FileInit, FileTypeOK

\* A step of one action that fits its place keeps the types.
LEMMA OneStepMoves ==
  ASSUME FileTypeOK, NEW s \in FileSteps, NEW x \in StepRecords, StepFits(x, s),
         step' = [step EXCEPT ![s] = x], dirs' \in SUBSET Dirs,
         names' \in [Dirs -> [Names -> Files \cup {None}]],
         content' \in [Files -> Seq(Blocks)]
  PROVE  FileTypeOK'
<1>1. \A t \in FileSteps : step'[t] = IF t = s THEN x ELSE step[t]
  BY DEF FileTypeOK
<1>2. step' \in [FileSteps -> StepRecords]
  BY DEF FileTypeOK
<1>3. \A t \in FileSteps : StepFits(step'[t], t)
  BY <1>1 DEF FileTypeOK
<1> QED
  BY <1>2, <1>3 DEF FileTypeOK

\* Each operation keeps the types.
LEMMA FileStepTyped == FileTypeOK /\ [FileNext]_fileVars => FileTypeOK'
<1> SUFFICES ASSUME FileTypeOK, [FileNext]_fileVars
             PROVE  FileTypeOK'
  OBVIOUS
<1>0. /\ dirs \in SUBSET Dirs
      /\ names \in [Dirs -> [Names -> Files \cup {None}]]
      /\ content \in [Files -> Seq(Blocks)]
      /\ NumFiles \in Nat /\ {} \in SUBSET Names
  BY FileActionsAssumption DEF FileTypeOK
<1> DEFINE Typed(d, m, c) ==
      /\ d \in SUBSET Dirs
      /\ m \in [Dirs -> [Names -> Files \cup {None}]]
      /\ c \in [Files -> Seq(Blocks)]
<1>1. ASSUME NEW s \in FileSteps, NEW x \in StepRecords, StepFits(x, s),
             step' = [step EXCEPT ![s] = x], Typed(dirs', names', content')
      PROVE  FileTypeOK'
  BY <1>1, OneStepMoves
<1>2. ASSUME NEW s \in FileSteps
      PROVE  /\ step[s] \in StepRecords /\ StepFits(step[s], s) /\ step[s].try \in Nat
             /\ MaxTries[s] \in Nat /\ MaxTries[s] > 0
  BY FileActionsAssumption DEF FileTypeOK, StepRecords
<1>3. UNCHANGED <<dirs, names, content>> => Typed(dirs', names', content')
  BY <1>0
<1>4. ASSUME NEW s \in FileSteps, Begin(s)
      PROVE  FileTypeOK'
  <2>1. PICK r \in Requests[s] :
          step' = [step EXCEPT ![s] = [IdleFileStep EXCEPT
                     !.at = r.op, !.req = r, !.try = step[s].try + 1]]
    BY <1>4 DEF Begin
  <2> DEFINE x == [IdleFileStep EXCEPT !.at = r.op, !.req = r, !.try = step[s].try + 1]
  <2>2. step[s].try + 1 \in Nat /\ step[s].try + 1 <= MaxTries[s] /\ step[s].try + 1 # 0
    BY <1>2, <1>4 DEF Begin, StepFits, At
  <2>3. x \in StepRecords
    <3>1. r \in Asked /\ r.op \in FileLabels
      BY RequestFacts DEF FileLabels
    <3> QED
      BY <2>2, <3>1, IdleIsTyped DEF StepRecords
  <2>4. x.at = r.op /\ x.req = r /\ x.try = step[s].try + 1
    BY IdleIsTyped DEF StepRecords
  <2> HIDE DEF x
  <2>5. StepFits(x, s)
    BY <2>2, <2>4, RequestFacts DEF StepFits, Ops
  <2>6. Typed(dirs', names', content')
    BY <1>3, <1>4 DEF Begin
  <2> QED
    BY <1>1, <2>1, <2>3, <2>5, <2>6 DEF x
<1>5. ASSUME NEW s \in FileSteps, step[s].at # "idle",
             NEW to \in {"failed", "done"}, Ending(s, to),
             to = "done" /\ step[s].req.op = "append" => step[s].dst \in Files,
             Typed(dirs', names', content')
      PROVE  FileTypeOK'
  <2> DEFINE x == [step[s] EXCEPT !.at = to, !.todo = {}]
  <2>1. x \in StepRecords /\ x.at = to /\ x.req = step[s].req /\ x.try = step[s].try
        /\ x.dst = step[s].dst
    BY <1>0, <1>2 DEF StepRecords, FileLabels
  <2>2. step' = [step EXCEPT ![s] = x]
    BY <1>5 DEF Ending
  <2> HIDE DEF x
  <2>3. StepFits(x, s)
    BY <1>2, <1>5, <2>1 DEF StepFits, Ops
  <2> QED
    BY <1>1, <1>5, <2>1, <2>2, <2>3
<1>6. ASSUME NEW s \in FileSteps, Fails(s) \/ NotThere(s) \/ OpenFails(s)
      PROVE  FileTypeOK'
  <2>1. UNCHANGED <<dirs, names, content>> /\ step[s].at # "idle"
    BY <1>6 DEF Fails, NotThere, OpenFails, At
  <2>2. CASE Fails(s) \/ OpenFails(s)
    BY <1>3, <1>5, <2>1, <2>2 DEF Fails, OpenFails
  <2>3. CASE NotThere(s)
    <3>1. PICK end \in {"failed", "done"} :
            (end = "done" => At(s, "delete")) /\ Ending(s, end)
      BY <2>3 DEF NotThere
    <3>2. At(s, "delete") => step[s].req.op # "append"
      BY <1>2 DEF StepFits, Ops, At
    <3> QED
      BY <1>3, <1>5, <2>1, <3>1, <3>2
  <2> QED
    BY <1>6, <2>2, <2>3
<1>7. ASSUME NEW s \in FileSteps, Rename(s)
      PROVE  FileTypeOK'
  <2> DEFINE r == step[s].req
  <2>1. step[s].at = "move" /\ r \in Requests[s] /\ r.op = "move"
    BY <1>2, <1>7 DEF Rename, At, StepFits, Ops
  <2>2. r.from \in Dirs /\ r.to \in Dirs /\ (r.file # NoFile => r.file \in Names)
    BY <2>1, RequestFacts
  <2>3. names[r.from] \in [Names -> Files \cup {None}] /\ [n \in Names |-> None] \in [Names -> Files \cup {None}]
    BY <1>0, <2>2
  <2>4. dirs' \in SUBSET Dirs
    BY <1>0, <1>7, <2>2 DEF Rename
  <2>5. names' \in [Dirs -> [Names -> Files \cup {None}]]
    <3>1. CASE r.from = r.to
      BY <1>0, <1>7, <3>1 DEF Rename
    <3>2. CASE r.from # r.to /\ r.file # NoFile
      <4>1. names' = [names EXCEPT ![r.to][r.file] = names[r.from][r.file],
                                   ![r.from][r.file] = None]
        BY <1>7, <3>2 DEF Rename
      <4>2. names[r.from][r.file] \in Files \cup {None} /\ r.file \in Names
        BY <2>2, <2>3, <3>2
      <4> HIDE DEF r
      <4> QED
        BY <1>0, <2>2, <4>1, <4>2
    <3>3. CASE r.from # r.to /\ r.file = NoFile
      <4>1. names' = [names EXCEPT ![r.to] = names[r.from], ![r.from] = [n \in Names |-> None]]
        BY <1>7, <3>3 DEF Rename
      <4> HIDE DEF r
      <4> QED
        BY <1>0, <2>2, <2>3, <4>1
    <3> QED
      BY <3>1, <3>2, <3>3
  <2>6. Ending(s, "done") /\ content' = content
    BY <1>7 DEF Rename
  <2> QED
    BY <1>0, <1>5, <2>1, <2>4, <2>5, <2>6
<1>8. ASSUME NEW s \in FileSteps, StartCopy(s)
      PROVE  FileTypeOK'
  <2> DEFINE r == step[s].req
             todo == IF r.file # NoFile THEN {r.file} ELSE Present(r.from)
             x == [step[s] EXCEPT !.at = "open", !.todo = todo]
  <2>1. step[s].at \in {"copy", "move"} /\ r \in Requests[s] /\ r.op \in {"copy", "move"}
    BY <1>2, <1>8 DEF StartCopy, At, StepFits, Ops
  <2>2. r.to \in Dirs /\ (r.file # NoFile => r.file \in Names)
    BY <2>1, RequestFacts
  <2>3. todo \in SUBSET Names
    BY <2>2 DEF Present
  <2>4. step' = [step EXCEPT ![s] = x] /\ dirs' = dirs \cup {r.to} /\ UNCHANGED <<names, content>>
    BY <1>8 DEF StartCopy
  <2> HIDE DEF todo
  <2>5. x \in StepRecords /\ x.at = "open" /\ x.req = step[s].req /\ x.try = step[s].try
    BY <1>2, <2>3 DEF StepRecords, FileLabels
  <2> HIDE DEF x
  <2>6. StepFits(x, s)
    BY <1>2, <2>1, <2>5 DEF StepFits, Ops
  <2> QED
    BY <1>0, <1>1, <2>2, <2>4, <2>5, <2>6
<1>9. ASSUME NEW s \in FileSteps, OpenCopy(s)
      PROVE  FileTypeOK'
  <2> DEFINE r == step[s].req
  <2>1. step[s].at = "open" /\ r \in Requests[s] /\ r.op \in {"copy", "move"}
    BY <1>2, <1>9 DEF OpenCopy, At, StepFits, Ops
  <2>2. r.from \in Dirs /\ r.to \in Dirs
    BY <2>1, RequestFacts
  <2>3. PICK n \in step[s].todo :
          /\ names[r.from][n] # None
          /\ names' = [names EXCEPT ![r.to][n] = Opened(s, r.to, n)]
          /\ content' = [content EXCEPT ![Opened(s, r.to, n)] = <<>>]
          /\ step' = [step EXCEPT ![s] = [@ EXCEPT !.at = "blocks", !.cur = n,
                         !.src = names[r.from][n], !.dst = Opened(s, r.to, n), !.pos = 0]]
          /\ dirs' = dirs
    BY <1>9 DEF OpenCopy
  <2>4. n \in Names
    BY <1>2 DEF StepRecords
  <2> DEFINE f == Opened(s, r.to, n)
             x == [step[s] EXCEPT !.at = "blocks", !.cur = n, !.src = names[r.from][n],
                                  !.dst = f, !.pos = 0]
  <2>5. f \in Files /\ names[r.from][n] \in Files
    BY <1>0, <2>1, <2>2, <2>3, <2>4, OpenedIsFile
  <2>6. /\ names' = [names EXCEPT ![r.to][n] = f] /\ content' = [content EXCEPT ![f] = <<>>]
        /\ step' = [step EXCEPT ![s] = x] /\ dirs' = dirs
    BY <2>3
  <2>7. n \in 0..NumFiles
    BY <1>0, <2>4 DEF Names
  <2> HIDE DEF f
  <2>8. /\ x \in StepRecords /\ x.at = "blocks" /\ x.req = step[s].req /\ x.try = step[s].try
        /\ x.cur = n /\ x.src \in Files /\ x.dst = f
    BY <1>2, <2>5, <2>7 DEF StepRecords, FileLabels
  <2> HIDE DEF x
  <2>9. StepFits(x, s)
    BY <1>2, <2>1, <2>4, <2>5, <2>8 DEF StepFits, Ops
  <2>10. names' \in [Dirs -> [Names -> Files \cup {None}]]
    BY <1>0, <2>2, <2>4, <2>5, <2>6
  <2>11. content' \in [Files -> Seq(Blocks)]
    <3>1. <<>> \in Seq(Blocks)
      OBVIOUS
    <3> QED
      BY <1>0, <2>5, <2>6, <3>1
  <2> QED
    BY <1>0, <1>1, <2>6, <2>8, <2>9, <2>10, <2>11
<1>10. ASSUME NEW s \in FileSteps, CopyBlock(s)
       PROVE  FileTypeOK'
  <2> DEFINE src == step[s].src
             dst == step[s].dst
             pos == step[s].pos
             x == [step[s] EXCEPT !.pos = step[s].pos + 1]
  <2>1. /\ step[s].at = "blocks" /\ src \in Files /\ dst \in Files /\ pos \in Nat
    BY <1>2, <1>10 DEF CopyBlock, At, StepFits, StepRecords
  <2>2. /\ content' = [content EXCEPT ![dst] = WriteAt(content[dst], pos, content[src][pos + 1])]
        /\ pos < Len(content[src]) /\ step' = [step EXCEPT ![s] = x] /\ UNCHANGED <<dirs, names>>
    BY <1>0, <1>10, <2>1 DEF CopyBlock
  <2>3. x \in StepRecords /\ x.at = "blocks" /\ x.req = step[s].req /\ x.try = step[s].try
        /\ x.cur = step[s].cur /\ x.src = src /\ x.dst = dst
    BY <1>2, <2>1 DEF StepRecords
  <2>4. content[src] \in Seq(Blocks) /\ content[dst] \in Seq(Blocks) /\ Len(content[src]) \in Nat
    BY <1>0, <2>1, LenProperties
  <2> HIDE DEF x, src, dst, pos
  <2>5. content[src][pos + 1] \in Blocks
    <3>1. pos + 1 \in 1..Len(content[src])
      BY <2>1, <2>2, <2>4
    <3> QED
      BY <2>4, <3>1, ElementOfSeq
  <2>6. WriteAt(content[dst], pos, content[src][pos + 1]) \in Seq(Blocks)
    BY <2>1, <2>4, <2>5, WrittenIsSeq
  <2>7. content' \in [Files -> Seq(Blocks)]
    BY <1>0, <2>1, <2>2, <2>6
  <2>8. StepFits(x, s)
    BY <1>2, <2>1, <2>3 DEF StepFits, Ops
  <2> QED
    BY <1>0, <1>1, <2>2, <2>3, <2>7, <2>8
<1>11. ASSUME NEW s \in FileSteps, CopiedFile(s)
       PROVE  FileTypeOK'
  <2> DEFINE x == [step[s] EXCEPT !.at = "open", !.todo = step[s].todo \ {step[s].cur}]
  <2>1. step[s].at = "blocks" /\ step[s].todo \in SUBSET Names
    BY <1>2, <1>11 DEF CopiedFile, At, StepRecords
  <2>2. step' = [step EXCEPT ![s] = x] /\ UNCHANGED <<dirs, names, content>>
    BY <1>2, <1>11 DEF CopiedFile, StepRecords, FileTypeOK
  <2>3. x \in StepRecords /\ x.at = "open" /\ x.req = step[s].req /\ x.try = step[s].try
    BY <1>2, <2>1 DEF StepRecords, FileLabels
  <2> HIDE DEF x
  <2>4. StepFits(x, s)
    BY <1>2, <2>1, <2>3 DEF StepFits, Ops
  <2> QED
    BY <1>1, <1>3, <2>2, <2>3, <2>4
<1>12. ASSUME NEW s \in FileSteps, Copied(s)
       PROVE  FileTypeOK'
  <2> DEFINE to == IF step[s].req.op = "copy" THEN "done" ELSE "remove"
             x == [step[s] EXCEPT !.at = to]
  <2>1. step[s].at = "open" /\ step[s].req.op \in {"copy", "move"}
    BY <1>2, <1>12 DEF Copied, At, StepFits
  <2>2. step' = [step EXCEPT ![s] = x] /\ UNCHANGED <<dirs, names, content>>
    BY <1>12 DEF Copied
  <2>3. x \in StepRecords /\ x.at = to /\ x.req = step[s].req /\ x.try = step[s].try
    BY <1>2, <2>1 DEF StepRecords, FileLabels
  <2> HIDE DEF x
  <2>4. StepFits(x, s)
    BY <1>2, <2>1, <2>3 DEF StepFits, Ops
  <2> QED
    BY <1>1, <1>3, <2>2, <2>3, <2>4
<1>13. ASSUME NEW s \in FileSteps, StartDelete(s)
       PROVE  FileTypeOK'
  <2> DEFINE x == [step[s] EXCEPT !.at = "remove"]
  <2>1. step[s].at = "delete" /\ step[s].req.op = "delete"
    BY <1>2, <1>13 DEF StartDelete, At, StepFits, Ops
  <2>2. step' = [step EXCEPT ![s] = x] /\ UNCHANGED <<dirs, names, content>>
    BY <1>13 DEF StartDelete
  <2>3. x \in StepRecords /\ x.at = "remove" /\ x.req = step[s].req /\ x.try = step[s].try
    BY <1>2 DEF StepRecords, FileLabels
  <2> HIDE DEF x
  <2>4. StepFits(x, s)
    BY <1>2, <2>1, <2>3 DEF StepFits, Ops
  <2> QED
    BY <1>1, <1>3, <2>2, <2>3, <2>4
<1>14. ASSUME NEW s \in FileSteps, RemoveName(s)
       PROVE  FileTypeOK'
  <2> DEFINE r == step[s].req
  <2>1. step[s].at = "remove" /\ r \in Requests[s]
    BY <1>2, <1>14 DEF RemoveName, At, StepFits
  <2>2. r.from \in Dirs /\ (r.file # NoFile => r.file \in Names)
    BY <2>1, RequestFacts
  <2>3. PICK n \in Removable(s) : names' = [names EXCEPT ![r.from][n] = None]
    BY <1>14 DEF RemoveName
  <2>4. n \in Names
    BY <2>2 DEF Removable, Present
  <2> HIDE DEF r
  <2>5. names' \in [Dirs -> [Names -> Files \cup {None}]]
    BY <1>0, <2>2, <2>3, <2>4
  <2> QED
    BY <1>0, <1>14, <2>5 DEF RemoveName, FileTypeOK
<1>15. ASSUME NEW s \in FileSteps, Removed(s)
       PROVE  FileTypeOK'
  <2>1. step[s].at = "remove" /\ step[s].req.op \in {"move", "delete"}
    BY <1>2, <1>15 DEF Removed, At, StepFits
  <2>2. Ending(s, "done") /\ UNCHANGED <<names, content>> /\ dirs' \in SUBSET Dirs
    BY <1>0, <1>15 DEF Removed
  <2> QED
    BY <1>0, <1>5, <2>1, <2>2
<1>16. ASSUME NEW s \in FileSteps, OpenWrite(s)
       PROVE  FileTypeOK'
  <2> DEFINE r == step[s].req
             f == Opened(s, r.to, r.file)
             pos == IF r.op = "write" THEN 0 ELSE Len(content[f])
             x == [step[s] EXCEPT !.at = "put", !.dst = f, !.pos = pos]
  <2>1. step[s].at \in {"write", "append"} /\ r \in Requests[s] /\ r.op \in {"write", "append"}
    BY <1>2, <1>16 DEF OpenWrite, StepFits, Ops
  <2>2. r.to \in Dirs /\ r.file \in Names
    BY <2>1, RequestFacts
  <2>3. f \in Files
    BY <2>1, <2>2, OpenedIsFile
  <2>4. /\ names' = [names EXCEPT ![r.to][r.file] = f] /\ step' = [step EXCEPT ![s] = x]
        /\ content' = (IF r.op = "write" THEN [content EXCEPT ![f] = <<>>] ELSE content)
        /\ dirs' = dirs
    BY <1>16 DEF OpenWrite
  <2> HIDE DEF f
  <2>5. pos \in Nat
    BY <1>0, <2>3, LenProperties
  <2> HIDE DEF pos
  <2>6. x \in StepRecords /\ x.at = "put" /\ x.req = step[s].req /\ x.try = step[s].try /\ x.dst = f
    BY <1>2, <2>3, <2>5 DEF StepRecords, FileLabels
  <2> HIDE DEF x
  <2>7. StepFits(x, s)
    BY <1>2, <2>1, <2>3, <2>6 DEF StepFits, Ops
  <2>8. names' \in [Dirs -> [Names -> Files \cup {None}]]
    BY <1>0, <2>2, <2>3, <2>4
  <2>9. content' \in [Files -> Seq(Blocks)]
    <3>1. <<>> \in Seq(Blocks)
      OBVIOUS
    <3> QED
      BY <1>0, <2>3, <2>4, <3>1
  <2> QED
    BY <1>0, <1>1, <2>4, <2>6, <2>7, <2>8, <2>9
<1>17. ASSUME NEW s \in FileSteps, PutBlock(s)
       PROVE  FileTypeOK'
  <2> DEFINE f == step[s].dst
  <2>1. step[s].at = "put" /\ f \in Files /\ step[s].pos \in Nat
    BY <1>2, <1>17 DEF PutBlock, At, StepFits, StepRecords
  <2>2. content[f] \in Seq(Blocks) /\ s \in Blocks
    BY <1>0, <2>1 DEF Blocks
  <2>3. Append(content[f], s) \in Seq(Blocks) /\ WriteAt(content[f], step[s].pos, s) \in Seq(Blocks)
    BY <2>1, <2>2, AppendProperties, WrittenIsSeq
  <2>4. content' = [content EXCEPT ![f] = IF step[s].req.op = "append"
                      THEN Append(content[f], s) ELSE WriteAt(content[f], step[s].pos, s)]
    BY <1>0, <1>17, <2>1 DEF PutBlock
  <2>5. content' \in [Files -> Seq(Blocks)]
    BY <1>0, <2>1, <2>3, <2>4
  <2>6. Ending(s, "done") /\ UNCHANGED <<dirs, names>>
    BY <1>17 DEF PutBlock
  <2> QED
    BY <1>0, <1>5, <2>1, <2>5, <2>6
<1>18. CASE UNCHANGED fileVars
  BY <1>18 DEF fileVars, FileTypeOK
<1> QED
  BY <1>4, <1>6, <1>7, <1>8, <1>9, <1>10, <1>11, <1>12, <1>13, <1>14, <1>15, <1>16, <1>17, <1>18
     DEF FileNext

-----------------------------------------------------------------------------

\* A step that goes on with what it was asked.
GoesOn(s) ==
  \/ Fails(s) \/ NotThere(s) \/ Rename(s) \/ StartCopy(s) \/ OpenCopy(s)
  \/ OpenFails(s) \/ CopyBlock(s) \/ CopiedFile(s) \/ Copied(s)
  \/ StartDelete(s) \/ RemoveName(s) \/ Removed(s) \/ OpenWrite(s) \/ PutBlock(s)

\* An action moves its own step.
LEMMA OthersStay ==
  ASSUME FileTypeOK, NEW s \in FileSteps, Begin(s) \/ GoesOn(s)
  PROVE  \A t \in FileSteps : t # s => step'[t] = step[t]
<1>1. step \in [FileSteps -> StepRecords]
  BY DEF FileTypeOK
<1>2. CASE Begin(s)
  BY <1>1, <1>2 DEF Begin
<1>3. CASE Fails(s) \/ NotThere(s) \/ Rename(s) \/ OpenFails(s) \/ Removed(s) \/ PutBlock(s)
  <2>1. Ending(s, "done") \/ Ending(s, "failed")
    BY <1>3 DEF Fails, NotThere, Rename, OpenFails, Removed, PutBlock
  <2> QED
    BY <1>1, <2>1 DEF Ending
<1>4. CASE StartCopy(s)
  BY <1>1, <1>4 DEF StartCopy
<1>5. CASE OpenCopy(s)
  BY <1>1, <1>5 DEF OpenCopy
<1>6. CASE CopyBlock(s) \/ CopiedFile(s) \/ Copied(s)
  BY <1>1, <1>6 DEF CopyBlock, CopiedFile, Copied
<1>7. CASE StartDelete(s) \/ RemoveName(s)
  BY <1>1, <1>7 DEF StartDelete, RemoveName
<1>8. CASE OpenWrite(s)
  BY <1>1, <1>8 DEF OpenWrite
<1> QED
  BY <1>2, <1>3, <1>4, <1>5, <1>6, <1>7, <1>8 DEF GoesOn

\* A step that goes on does what it was asked.
LEMMA RequestStays ==
  ASSUME FileTypeOK, NEW s \in FileSteps, GoesOn(s)
  PROVE  /\ step[s].at \notin {"idle"} /\ step[s].try # 0
         /\ step'[s].req = step[s].req /\ step'[s].try = step[s].try
<1>1. step \in [FileSteps -> StepRecords] /\ step[s] \in StepRecords /\ StepFits(step[s], s)
  BY DEF FileTypeOK
<1>2. step[s].at # "idle" => step[s].try # 0
  BY <1>1 DEF StepFits
<1>3. CASE Fails(s) \/ NotThere(s) \/ Rename(s) \/ OpenFails(s) \/ Removed(s) \/ PutBlock(s)
  <2>1. (Ending(s, "done") \/ Ending(s, "failed")) /\ step[s].at # "idle"
    BY <1>3 DEF Fails, NotThere, Rename, OpenFails, Removed, PutBlock, At
  <2> QED
    BY <1>1, <1>2, <2>1 DEF Ending, StepRecords
<1>4. CASE StartCopy(s)
  BY <1>1, <1>2, <1>4 DEF StartCopy, StepRecords, At
<1>5. CASE OpenCopy(s)
  BY <1>1, <1>2, <1>5 DEF OpenCopy, StepRecords, At
<1>6. CASE CopyBlock(s) \/ CopiedFile(s) \/ Copied(s)
  <2>1. CASE CopyBlock(s)
    BY <1>1, <1>2, <2>1 DEF CopyBlock, StepRecords, At
  <2>2. CASE CopiedFile(s)
    BY <1>1, <1>2, <2>2 DEF CopiedFile, StepRecords, At
  <2>3. CASE Copied(s)
    BY <1>1, <1>2, <2>3 DEF Copied, StepRecords, At
  <2> QED
    BY <1>6, <2>1, <2>2, <2>3
<1>7. CASE StartDelete(s) \/ RemoveName(s)
  BY <1>1, <1>2, <1>7 DEF StartDelete, RemoveName, StepRecords, At
<1>8. CASE OpenWrite(s)
  <2>1. step[s].at # "idle"
    BY <1>8 DEF OpenWrite
  <2> QED
    BY <1>1, <1>2, <1>8, <2>1 DEF OpenWrite, StepRecords
<1> QED
  BY <1>3, <1>4, <1>5, <1>6, <1>7, <1>8 DEF GoesOn

\* A step begins with a request of its own, the same one at each retry.
LEMMA BeginTakes ==
  ASSUME FileTypeOK, NEW s \in FileSteps, Begin(s)
  PROVE  \E r \in Requests[s] :
           /\ step'[s].at = r.op /\ step'[s].req = r /\ step'[s].try = step[s].try + 1
           /\ step'[s].todo = {} /\ step'[s].try \in Nat \ {0}
           /\ UNCHANGED <<dirs, names, content>>
           /\ \/ step[s].try = 0
              \/ step[s].at = "failed" /\ r = step[s].req /\ step[s].try # 0
<1>1. step \in [FileSteps -> StepRecords] /\ step[s] \in StepRecords /\ StepFits(step[s], s)
  BY DEF FileTypeOK
<1>2. PICK r \in Requests[s] :
        /\ step[s].at = "failed" => r = step[s].req
        /\ step' = [step EXCEPT ![s] = [IdleFileStep EXCEPT
                     !.at = r.op, !.req = r, !.try = step[s].try + 1]]
  BY DEF Begin, At
<1>3. /\ step'[s].at = r.op /\ step'[s].req = r /\ step'[s].try = step[s].try + 1
      /\ step'[s].todo = {}
  BY <1>1, <1>2, IdleIsTyped DEF StepRecords, IdleFileStep
<1>4. UNCHANGED <<dirs, names, content>> /\ step[s].at \in {"idle", "failed"}
  BY DEF Begin, At
<1>5. \/ step[s].try = 0
      \/ step[s].at = "failed" /\ r = step[s].req /\ step[s].try # 0
  BY <1>1, <1>2, <1>4 DEF StepFits
<1>6. step[s].try \in Nat
  BY <1>1 DEF StepRecords
<1> QED
  BY <1>3, <1>4, <1>5, <1>6

\* What a step was first asked it is asked again: a change stays in the books.
LEMMA ChangesStay ==
  ASSUME FileTypeOK, NEW s \in FileSteps, Begin(s) \/ GoesOn(s), NEW op, Changes(op)
  PROVE  Changes(op)'
<1>1. PICK t \in FileSteps : step[t].try > 0 /\ step[t].req.op = op
  BY DEF Changes
<1>2. step'[t].try > 0 /\ step'[t].req.op = op
  <2>1. CASE t # s
    BY <1>1, <2>1, OthersStay
  <2>2. CASE t = s /\ GoesOn(s)
    BY <1>1, <2>2, RequestStays
  <2>3. CASE t = s /\ Begin(s)
    <3>1. PICK r \in Requests[s] :
            /\ step'[s].req = r /\ step'[s].try \in Nat \ {0}
            /\ \/ step[s].try = 0
               \/ step[s].at = "failed" /\ r = step[s].req /\ step[s].try # 0
      BY <2>3, BeginTakes
    <3>2. step[s].try # 0
      BY <1>1, <2>3
    <3> QED
      BY <1>1, <2>3, <3>1, <3>2
  <2> QED
    BY <2>1, <2>2, <2>3
<1> QED
  BY <1>2 DEF Changes

\* Blocks that were appended stay where they are.
LEMMA AppendsStepHolds ==
  ASSUME FileTypeOK, AppendsSurvive, [FileNext]_fileVars
  PROVE  AppendsSurvive'
<1>0. FileTypeOK'
  BY FileStepTyped
<1> DEFINE others == {"write", "delete", "copy", "move"}
<1>1. CASE UNCHANGED fileVars
  BY <1>1 DEF fileVars, AppendsSurvive, Changes, At
<1>2. ASSUME NEW s \in FileSteps, Begin(s) \/ GoesOn(s)
      PROVE  AppendsSurvive'
  <2> SUFFICES ASSUME \A op \in others : ~Changes(op)', NEW t \in FileSteps, step'[t].at = "done"
               PROVE  \E i \in 1..Len(content'[step'[t].dst]) : content'[step'[t].dst][i] = t
    BY DEF AppendsSurvive, At
  <2>1. \A op \in others : ~Changes(op)
    BY <1>2, ChangesStay
  <2>2. \A u \in FileSteps : step[u].try > 0 => step[u].req.op \notin others
    BY <2>1 DEF Changes
  <2>3. /\ step[s] \in StepRecords /\ StepFits(step[s], s) /\ step[s].try \in Nat
        /\ step[t] \in StepRecords /\ StepFits(step[t], t) /\ step[t].try \in Nat
    BY DEF FileTypeOK, StepRecords
  <2>4. /\ step[s].try # 0 => step[s].req.op = "append"
        /\ step[t].try # 0 => step[t].req.op = "append"
    <3>1. ASSUME NEW u \in FileSteps, step[u].try # 0
          PROVE  step[u].req.op = "append"
      <4>1. step[u] \in StepRecords /\ StepFits(step[u], u) /\ step[u].try > 0
        BY <3>1 DEF FileTypeOK, StepRecords
      <4>2. step[u].req \in Requests[u]
        BY <3>1, <4>1 DEF StepFits
      <4>3. step[u].req.op \in Ops
        BY <4>2, RequestFacts
      <4> QED
        BY <2>2, <4>1, <4>3 DEF Ops
    <3> QED
      BY <3>1
  \* A content only grows at its end.
  <2> DEFINE f == step[s].dst
  <2>5. /\ content \in [Files -> Seq(Blocks)]
        /\ content' = content \/ (/\ PutBlock(s) /\ f \in Files
                                  /\ content' = [content EXCEPT ![f] = Append(content[f], s)])
    <3>1. content \in [Files -> Seq(Blocks)]
      BY DEF FileTypeOK
    <3>2. CASE Begin(s)
      BY <3>1, <3>2 DEF Begin
    <3>3. CASE Fails(s) \/ NotThere(s) \/ Rename(s) \/ StartCopy(s) \/ OpenFails(s)
               \/ CopiedFile(s) \/ Copied(s) \/ StartDelete(s) \/ RemoveName(s) \/ Removed(s)
      BY <3>1, <3>3 DEF Fails, NotThere, Rename, StartCopy, OpenFails, CopiedFile, Copied,
                        StartDelete, RemoveName, Removed
    <3>4. CASE OpenCopy(s) \/ CopyBlock(s)
      <4>1. step[s].at \in {"open", "blocks"}
        BY <3>4 DEF OpenCopy, CopyBlock, At
      <4> QED
        BY <2>3, <2>4, <4>1 DEF StepFits
    <3>5. CASE OpenWrite(s)
      <4>1. step[s].at \in {"write", "append"}
        BY <3>5 DEF OpenWrite
      <4>2. step[s].req.op = "append"
        BY <2>3, <2>4, <4>1 DEF StepFits
      <4> QED
        BY <3>1, <3>5, <4>2 DEF OpenWrite
    <3>6. CASE PutBlock(s)
      <4>1. step[s].at = "put"
        BY <3>6 DEF PutBlock, At
      <4>2. step[s].req.op = "append" /\ f \in Files
        BY <2>3, <2>4, <4>1 DEF StepFits
      <4> QED
        BY <3>1, <3>6, <4>2 DEF PutBlock
    <3> QED
      BY <1>2, <3>1, <3>2, <3>3, <3>4, <3>5, <3>6 DEF GoesOn
  <2> HIDE DEF f
  <2>6. ASSUME NEW g \in Files, NEW i \in 1..Len(content[g])
        PROVE  i \in 1..Len(content'[g]) /\ content'[g][i] = content[g][i]
    <3>1. CASE content' = content \/ g # f
      BY <2>5, <2>6, <3>1
    <3>2. CASE content' # content /\ g = f
      <4>1. content[f] \in Seq(Blocks) /\ s \in Blocks /\ content'[f] = Append(content[f], s)
        BY <2>5, <2>6, <3>2 DEF Blocks
      <4>2. /\ Len(content'[f]) = Len(content[f]) + 1 /\ Len(content[f]) \in Nat
            /\ \A k \in 1..Len(content[f]) : content'[f][k] = content[f][k]
        BY <4>1, AppendProperties, LenProperties
      <4> QED
        BY <2>6, <3>2, <4>2
    <3> QED
      BY <3>1, <3>2
  <2>7. CASE step[t].at = "done" /\ step'[t] = step[t]
    <3>1. step[t].dst \in Files
      BY <2>3, <2>4, <2>7 DEF StepFits
    <3>2. PICK i \in 1..Len(content[step[t].dst]) : content[step[t].dst][i] = t
      BY <2>1, <2>7 DEF AppendsSurvive, At
    <3> QED
      BY <2>6, <2>7, <3>1, <3>2
  <2>8. CASE t = s /\ PutBlock(s)
    <3>1. step[s].at = "put"
      BY <2>8 DEF PutBlock, At
    <3>2. step[s].req.op = "append" /\ f \in Files
      BY <2>3, <2>4, <3>1 DEF StepFits, f
    <3>3. content' = [content EXCEPT ![f] = Append(content[f], s)] /\ step'[s].dst = f
      <4>1. step \in [FileSteps -> StepRecords]
        BY DEF FileTypeOK
      <4> QED
        BY <2>3, <2>5, <2>8, <3>2, <4>1 DEF PutBlock, Ending, f, StepRecords
    <3>4. content[f] \in Seq(Blocks) /\ s \in Blocks
      BY <2>5, <3>2 DEF Blocks
    <3>5. /\ Len(content[f]) + 1 \in 1..Len(content'[f])
          /\ content'[f][Len(content[f]) + 1] = s
      <4>1. content'[f] = Append(content[f], s) /\ Len(content[f]) \in Nat
        BY <2>5, <3>2, <3>3, <3>4, LenProperties
      <4>2. Len(content'[f]) = Len(content[f]) + 1 /\ content'[f][Len(content[f]) + 1] = s
        BY <3>4, <4>1, AppendProperties
      <4> QED
        BY <4>1, <4>2
    <3> QED
      BY <2>8, <3>3, <3>5
  <2>9. CASE t = s /\ ~PutBlock(s)
    <3>1. CASE Begin(s)
      <4>1. PICK r \in Requests[s] : step'[s].at = r.op
        BY <3>1, BeginTakes
      <4>2. r.op \in Ops
        BY <4>1, RequestFacts
      <4> QED
        BY <2>9, <4>1, <4>2 DEF Ops
    <3>2. CASE Fails(s) \/ OpenFails(s)
      <4>1. Ending(s, "failed")
        BY <3>2 DEF Fails, OpenFails
      <4>2. step'[s].at = "failed"
        BY <4>1 DEF Ending, FileTypeOK, StepRecords
      <4> QED
        BY <2>9, <4>2
    <3>3. CASE \/ NotThere(s) \/ Rename(s) \/ StartCopy(s) \/ OpenCopy(s) \/ CopyBlock(s)
               \/ CopiedFile(s) \/ Copied(s) \/ StartDelete(s) \/ RemoveName(s) \/ Removed(s)
      <4>1. step[s].at \in {"move", "copy", "open", "blocks", "delete", "remove"}
        BY <3>3 DEF NotThere, Rename, StartCopy, OpenCopy, CopyBlock, CopiedFile, Copied, StartDelete,
                    RemoveName, Removed, At
      <4>2. step[s].req.op # "append" /\ step[s].try # 0
        BY <2>3, <4>1 DEF StepFits, Ops
      <4> QED
        BY <2>4, <4>2
    <3>4. CASE OpenWrite(s)
      <4>1. step'[s].at = "put"
        BY <3>4 DEF OpenWrite, FileTypeOK, StepRecords
      <4> QED
        BY <2>9, <4>1
    <3> QED
      BY <1>2, <2>9, <3>1, <3>2, <3>3, <3>4 DEF GoesOn
  <2>10. CASE t # s
    <3>1. step'[t] = step[t]
      BY <1>2, <2>10, OthersStay
    <3> QED
      BY <2>7, <3>1
  <2> QED
    BY <2>8, <2>9, <2>10
<1> QED
  BY <1>1, <1>2 DEF FileNext, GoesOn

-----------------------------------------------------------------------------

\* The files a copy or a move is to bring over.
Affected(r) == IF r.file = NoFile THEN Names ELSE {r.file}

\* What a directory holds under a name before a rename: the file it came with,
\* or one that a copy made there.
NamedFor(f, d, n) ==
  \/ f = None \/ f = Original(d, n)
  \/ f \in FileSteps \X Tries \X {d} \X {n}

Kept(r) ==
  \A n \in Names :
    content[Original(r.from, n)] = <<Original(r.from, n), Original(r.from, n)>>
InSource(r, n) == names[r.from][n] = Original(r.from, n)
Landed(r, n) == HasMoved(r.to, n, r)

\* A name leaves the source when its file has landed.
SourceSafe(r) ==
  \A n \in Names :
    \/ InSource(r, n)
    \/ r.op = "move" /\ n \in Affected(r) /\ names[r.from][n] = None /\ Landed(r, n)

\* The file that is being copied, up to a position.
HalfCopied(s, r) ==
  /\ step[s].cur \in step[s].todo /\ InSource(r, step[s].cur)
  /\ step[s].src = Original(r.from, step[s].cur)
  /\ step[s].dst # None /\ step[s].dst = names[r.to][step[s].cur]
  /\ step[s].pos \in 0..2
  /\ content[step[s].dst] = [i \in 1..step[s].pos |-> step[s].src]

\* A copy or a move between two places.
OnPath(s, r) ==
  /\ Kept(r) /\ SourceSafe(r)
  /\ step[s].at \in {"copy", "move", "open", "blocks", "remove", "failed", "done"}
  /\ step[s].todo \subseteq Affected(r)
  /\ step[s].at # "done" => \A n \in Names : NamedFor(names[r.to][n], r.to, n)
  /\ step[s].at \in {"open", "blocks", "remove", "done"} =>
       \A n \in Affected(r) \ step[s].todo : Landed(r, n)
  /\ step[s].at \in {"remove", "done"} => step[s].todo = {}
  /\ step[s].at = "blocks" => HalfCopied(s, r)

\* A move to the same place.
InPlace(s, r) ==
  /\ Kept(r) /\ \A n \in Names : InSource(r, n)
  /\ step[s].at \in {"move", "failed", "done"}

\* Nothing was asked yet.
Untouched ==
  /\ \A r \in Asked : r.from \in dirs
  /\ \A d \in Dirs, n \in Names : names[d][n] = IF d \in dirs THEN Original(d, n) ELSE None
  /\ \A d \in Dirs, n \in Names : content[Original(d, n)] = <<Original(d, n), Original(d, n)>>

AloneInv ==
  /\ (\A s \in FileSteps : step[s].try = 0) => Untouched
  /\ \A s \in FileSteps : \A r \in Requests[s] :
       Alone(s) /\ step[s].req = r =>
         /\ r.op \in {"copy", "move"} /\ r.from # r.to => OnPath(s, r)
         /\ r.op = "move" /\ r.from = r.to => InPlace(s, r)

\* A name stands for a file of its own.
LEMMA NamedApart ==
  ASSUME NEW f, NEW d, NEW n, f # None, NamedFor(f, d, n)
  PROVE  /\ \A e, m : NamedFor(f, e, m) => e = d /\ m = n
         /\ \A e, m : f = Original(e, m) => e = d
<1>1. \A e, m : f = Original(e, m) => e = d /\ m = n
  <2>1. ASSUME NEW e, NEW m, f = Original(e, m)
        PROVE  e = d /\ m = n
    <3>1. f \notin FileSteps \X Tries \X {d} \X {n}
      BY <2>1 DEF Original
    <3>2. f = Original(d, n)
      BY <3>1 DEF NamedFor
    <3> QED
      BY <2>1, <3>2 DEF Original
  <2> QED
    BY <2>1
<1>2. ASSUME NEW e, NEW m, f \in FileSteps \X Tries \X {e} \X {m}
      PROVE  e = d /\ m = n
  <2>1. f # Original(d, n)
    BY <1>2 DEF Original
  <2>2. f \in FileSteps \X Tries \X {d} \X {n}
    BY <2>1 DEF NamedFor
  <2>3. f[3] = e /\ f[4] = m /\ f[3] = d /\ f[4] = n
    BY <1>2, <2>2
  <2> QED
    BY <2>3
<1> QED
  BY <1>1, <1>2 DEF NamedFor

\* A file opened under a name is one for that name.
LEMMA OpenedIsNamed ==
  ASSUME FileTypeOK, NEW s \in FileSteps, step[s].at # "idle", NEW d \in Dirs, NEW n \in Names,
         NamedFor(names[d][n], d, n)
  PROVE  NamedFor(Opened(s, d, n), d, n) /\ Opened(s, d, n) # None /\ Opened(s, d, n) \in Files
<1>1. Opened(s, d, n) \in Files /\ Opened(s, d, n) # None
  BY OpenedIsFile, FileNames
<1>2. CASE names[d][n] # None
  BY <1>1, <1>2 DEF Opened
<1>3. CASE names[d][n] = None
  <2>1. step[s] \in StepRecords /\ StepFits(step[s], s) /\ MaxTries[s] \in Nat
    BY FileActionsAssumption DEF FileTypeOK
  <2>2. step[s].try \in 1..MaxTries[s]
    BY <2>1 DEF StepRecords, StepFits
  <2>3. step[s].try \in Tries
    BY <2>2 DEF Tries
  <2>4. Opened(s, d, n) = <<s, step[s].try, d, n>>
    BY <1>3 DEF Opened
  <2> QED
    BY <1>1, <2>3, <2>4 DEF NamedFor
<1> QED
  BY <1>2, <1>3

\* To write to the target under one name leaves the source and what landed
\* under the other names.
LEMMA TargetIsWritten ==
  ASSUME FileTypeOK, NEW r, r.from \in Dirs, r.to \in Dirs, r.from # r.to,
         NEW n \in Names, NEW f \in Files, f # None, NamedFor(f, r.to, n), NEW c,
         \A m \in Names : NamedFor(names[r.to][m], r.to, m),
         content' = [content EXCEPT ![f] = c],
         \A m \in Names : names'[r.to][m] = IF m = n THEN f ELSE names[r.to][m],
         \A m \in Names : names'[r.from][m] = names[r.from][m],
         Kept(r)
  PROVE  /\ Kept(r)'
         /\ \A m \in Names : m # n /\ Landed(r, m) => Landed(r, m)'
         /\ \A m \in Names : NamedFor(names'[r.to][m], r.to, m)
<1>1. content \in [Files -> Seq(Blocks)]
  BY DEF FileTypeOK
<1>2. Kept(r)'
  <2>1. \A m \in Names : Original(r.from, m) # f /\ Original(r.from, m) \in Files
    BY NamedApart, FileNames
  <2> QED
    BY <1>1, <2>1 DEF Kept
<1>3. ASSUME NEW m \in Names, m # n, Landed(r, m)
      PROVE  Landed(r, m)'
  <2>1. names'[r.to][m] = names[r.to][m] /\ names[r.to][m] # None
    BY <1>3 DEF Landed, HasMoved, Whole
  <2>2. names[r.to][m] \in Files
    BY <2>1 DEF FileTypeOK
  <2>3. names[r.to][m] # f
    <3> SUFFICES ASSUME names[r.to][m] = f
                 PROVE  FALSE
      OBVIOUS
    <3>1. NamedFor(f, r.to, m)
      OBVIOUS
    <3> QED
      BY <1>3, <3>1, NamedApart
  <2>4. content'[names[r.to][m]] = content[names[r.to][m]]
    BY <1>1, <2>2, <2>3
  <2> QED
    BY <1>3, <2>1, <2>4 DEF Landed, HasMoved, Whole
<1>4. \A m \in Names : NamedFor(names'[r.to][m], r.to, m)
  OBVIOUS
<1> QED
  BY <1>2, <1>3, <1>4

PathRequest(s, r) ==
  /\ s \in FileSteps /\ r \in Requests[s] /\ step[s].req = r
  /\ r.op \in {"copy", "move"} /\ r.from # r.to
  /\ FileTypeOK /\ OnPath(s, r)

\* The types of what a copy or a move touches.
LEMMA PathFacts ==
  ASSUME NEW s, NEW r, PathRequest(s, r)
  PROVE  /\ r.from \in Dirs /\ r.to \in Dirs /\ (r.file # NoFile => r.file \in Names)
         /\ Affected(r) \in SUBSET Names /\ step[s] \in StepRecords /\ StepFits(step[s], s)
         /\ step \in [FileSteps -> StepRecords] /\ content \in [Files -> Seq(Blocks)]
         /\ names \in [Dirs -> [Names -> Files \cup {None}]]
         /\ names[r.to] \in [Names -> Files \cup {None}]
         /\ names[r.from] \in [Names -> Files \cup {None}]
         /\ \A n \in Names : Original(r.from, n) \in Files /\ Original(r.from, n) # None
<1>1. /\ r.from \in Dirs /\ r.to \in Dirs /\ (r.file # NoFile => r.file \in Names)
  BY RequestFacts DEF PathRequest
<1>2. Affected(r) \in SUBSET Names
  BY <1>1 DEF Affected
<1>3. \A n \in Names : Original(r.from, n) \in Files /\ Original(r.from, n) # None
  BY <1>1, FileNames
<1> QED
  BY <1>1, <1>2, <1>3 DEF PathRequest, FileTypeOK

\* A step that leaves the files alone and stops, or goes on with what it has.
LEMMA PathRests ==
  ASSUME NEW s, NEW r, PathRequest(s, r), UNCHANGED <<names, content>>,
         step'[s].todo = {}, step'[s].at \in {"copy", "move", "failed"}, step[s].at # "done"
  PROVE  OnPath(s, r)'
<1>1. OnPath(s, r)
  BY DEF PathRequest
<1>2. Kept(r)' /\ SourceSafe(r)'
  BY <1>1 DEF OnPath, Kept, SourceSafe, InSource, Landed, HasMoved, Whole
<1>3. \A n \in Names : NamedFor(names[r.to][n], r.to, n)'
  BY <1>1 DEF OnPath, NamedFor
<1> QED
  BY <1>1, <1>2, <1>3 DEF OnPath

\* A rename brings the file over, or fails over what is there
\* (fs.go:905-937).
LEMMA PathRenames ==
  ASSUME NEW s, NEW r, PathRequest(s, r), Rename(s)
  PROVE  OnPath(s, r)'
<1>0. OnPath(s, r) /\ s \in FileSteps /\ step[s].req = r /\ r.from # r.to
  BY DEF PathRequest
<1>1. step[s].at = "move" /\ r.op = "move"
  BY <1>0, PathFacts DEF Rename, At, StepFits, Ops
<1>2. step'[s].at = "done" /\ step'[s].todo = {} /\ content' = content
  BY <1>0, PathFacts DEF Rename, Ending, StepRecords
<1>3. Kept(r)'
  BY <1>0, <1>2 DEF OnPath, Kept
<1>4. CASE r.file # NoFile
  <2>1. names' = [names EXCEPT ![r.to][r.file] = names[r.from][r.file],
                               ![r.from][r.file] = None]
    BY <1>0, <1>4 DEF Rename
  <2>2. r.file \in Names /\ Affected(r) = {r.file}
    BY <1>4, PathFacts DEF Affected
  <2>3. names[r.from][r.file] # None
    BY <1>0, <1>4 DEF Rename, Missing
  <2>4. InSource(r, r.file)
    BY <1>0, <2>2, <2>3 DEF OnPath, SourceSafe
  <2>5. /\ names'[r.to][r.file] = Original(r.from, r.file)
        /\ names'[r.from][r.file] = None
        /\ \A n \in Names : n # r.file => names'[r.from][n] = names[r.from][n]
    BY <1>0, <2>1, <2>2, <2>4, PathFacts DEF InSource
  <2>6. Landed(r, r.file)'
    BY <1>3, <2>2, <2>5, PathFacts DEF Landed, HasMoved, Whole, Kept
  <2>7. SourceSafe(r)'
    <3>1. ASSUME NEW n \in Names
          PROVE  InSource(r, n)' \/ (r.op = "move" /\ n \in Affected(r)
                                      /\ names'[r.from][n] = None /\ Landed(r, n)')
      <4>1. CASE n = r.file
        BY <1>1, <2>2, <2>5, <2>6, <4>1
      <4>2. CASE n # r.file
        <5>1. InSource(r, n)
          BY <1>0, <2>2, <4>2 DEF OnPath, SourceSafe
        <5> QED
          BY <2>5, <4>2, <5>1 DEF InSource
      <4> QED
        BY <4>1, <4>2
    <3> QED
      BY <3>1 DEF SourceSafe
  <2> QED
    BY <1>2, <1>3, <2>2, <2>6, <2>7 DEF OnPath
<1>5. CASE r.file = NoFile
  <2>1. names' = [names EXCEPT ![r.to] = names[r.from], ![r.from] = [n \in Names |-> None]]
    BY <1>0, <1>5 DEF Rename
  <2>2. Present(r.to) = {} /\ Affected(r) = Names
    BY <1>0, <1>5 DEF Rename, Renames, Affected
  <2>3. \A n \in Names : names[r.to][n] = None
    BY <2>2 DEF Present
  <2>4. \A n \in Names : InSource(r, n)
    BY <1>0, <2>3 DEF OnPath, SourceSafe, Landed, HasMoved, Whole
  <2>5. \A n \in Names : names'[r.to][n] = Original(r.from, n) /\ names'[r.from][n] = None
    BY <1>0, <2>1, <2>4, PathFacts DEF InSource
  <2>6. \A n \in Names : Landed(r, n)'
    BY <1>3, <2>5, PathFacts DEF Landed, HasMoved, Whole, Kept
  <2>7. SourceSafe(r)'
    BY <1>1, <2>2, <2>5, <2>6 DEF SourceSafe
  <2> QED
    BY <1>2, <1>3, <2>2, <2>6, <2>7 DEF OnPath
<1> QED
  BY <1>4, <1>5

\* A copy begins with all that is there (fs.go:804-824).
LEMMA PathStartsCopy ==
  ASSUME NEW s, NEW r, PathRequest(s, r), StartCopy(s)
  PROVE  OnPath(s, r)'
<1>0. OnPath(s, r) /\ s \in FileSteps /\ step[s].req = r /\ r.from # r.to
  BY DEF PathRequest
<1> DEFINE todo == IF r.file # NoFile THEN {r.file} ELSE Present(r.from)
<1>1. step'[s].at = "open" /\ step'[s].todo = todo /\ UNCHANGED <<names, content>>
      /\ step[s].at # "done"
  BY <1>0, PathFacts DEF StartCopy, StepRecords, At
<1>2. Kept(r)' /\ SourceSafe(r)'
  BY <1>0, <1>1 DEF OnPath, Kept, SourceSafe, InSource, Landed, HasMoved, Whole
<1>3. \A n \in Names : NamedFor(names[r.to][n], r.to, n)'
  BY <1>0, <1>1 DEF OnPath, NamedFor
<1>4. todo \subseteq Affected(r)
  BY DEF Affected, Present
<1>5. \A n \in Affected(r) \ todo : Landed(r, n)'
  <2>1. \A n \in Affected(r) \ todo : n \in Names /\ names[r.from][n] = None
    BY PathFacts DEF Affected, Present
  <2>2. \A n \in Affected(r) \ todo : Landed(r, n)
    BY <1>0, <2>1, PathFacts DEF OnPath, SourceSafe, InSource
  <2> QED
    BY <1>1, <2>2 DEF Landed, HasMoved, Whole
<1> HIDE DEF todo
<1> QED
  BY <1>1, <1>2, <1>3, <1>4, <1>5 DEF OnPath

\* O_TRUNC empties the copy and not the source (fs.go:790).
LEMMA PathOpensCopy ==
  ASSUME NEW s, NEW r, PathRequest(s, r), OpenCopy(s)
  PROVE  OnPath(s, r)'
<1>0. OnPath(s, r) /\ s \in FileSteps /\ step[s].req = r /\ r.from # r.to /\ FileTypeOK
  BY DEF PathRequest
<1>1. PICK n \in step[s].todo :
        /\ step[s].at = "open" /\ names[r.from][n] # None
        /\ names' = [names EXCEPT ![r.to][n] = Opened(s, r.to, n)]
        /\ content' = [content EXCEPT ![Opened(s, r.to, n)] = <<>>]
        /\ step' = [step EXCEPT ![s] = [@ EXCEPT !.at = "blocks", !.cur = n,
                       !.src = names[r.from][n], !.dst = Opened(s, r.to, n), !.pos = 0]]
  BY <1>0 DEF OpenCopy, At
<1>2. n \in Names /\ n \in Affected(r)
  BY <1>0, <1>1, PathFacts DEF OnPath
<1>3. \A m \in Names : NamedFor(names[r.to][m], r.to, m)
  BY <1>0, <1>1 DEF OnPath
<1>4. InSource(r, n)
  BY <1>0, <1>1, <1>2 DEF OnPath, SourceSafe
<1> DEFINE f == Opened(s, r.to, n)
<1>5. NamedFor(f, r.to, n) /\ f # None /\ f \in Files
  BY <1>0, <1>1, <1>2, <1>3, PathFacts, OpenedIsNamed
<1> HIDE DEF f
<1>6. content' = [content EXCEPT ![f] = <<>>] /\ names' = [names EXCEPT ![r.to][n] = f]
  BY <1>1 DEF f
<1>7. /\ \A m \in Names : names'[r.to][m] = IF m = n THEN f ELSE names[r.to][m]
      /\ \A m \in Names : names'[r.from][m] = names[r.from][m]
  BY <1>0, <1>2, <1>6, PathFacts
<1>8. /\ step'[s].at = "blocks" /\ step'[s].cur = n /\ step'[s].src = Original(r.from, n)
      /\ step'[s].dst = f /\ step'[s].pos = 0 /\ step'[s].todo = step[s].todo
  BY <1>0, <1>1, <1>4, PathFacts DEF StepRecords, f, InSource
<1>9. r.from \in Dirs /\ r.to \in Dirs /\ Kept(r)
  BY <1>0, PathFacts DEF OnPath
<1>10. /\ Kept(r)'
       /\ \A m \in Names : m # n /\ Landed(r, m) => Landed(r, m)'
       /\ \A m \in Names : NamedFor(names'[r.to][m], r.to, m)
  <2> DEFINE c == <<>>
  <2>1. content' = [content EXCEPT ![f] = c]
    BY <1>6
  <2> HIDE DEF c
  <2> QED
    BY <1>0, <1>2, <1>3, <1>5, <2>1, <1>7, <1>9, TargetIsWritten
<1>11. SourceSafe(r)'
  <2>1. ASSUME NEW m \in Names
        PROVE  InSource(r, m)' \/ (r.op = "move" /\ m \in Affected(r)
                                    /\ names'[r.from][m] = None /\ Landed(r, m)')
    <3>1. CASE InSource(r, m)
      BY <1>7, <3>1 DEF InSource
    <3>2. CASE ~InSource(r, m)
      <4>1. m # n
        BY <1>4, <3>2
      <4>2. r.op = "move" /\ m \in Affected(r) /\ names[r.from][m] = None /\ Landed(r, m)
        BY <1>0, <3>2 DEF OnPath, SourceSafe
      <4> QED
        BY <1>7, <1>10, <4>1, <4>2
    <3> QED
      BY <3>1, <3>2
  <2> QED
    BY <2>1 DEF SourceSafe
<1>12. \A m \in Affected(r) \ step[s].todo : Landed(r, m)'
  <2>1. \A m \in Affected(r) \ step[s].todo : Landed(r, m) /\ m # n /\ m \in Names
    BY <1>0, <1>1, PathFacts DEF OnPath
  <2> QED
    BY <1>10, <2>1
<1>13. HalfCopied(s, r)'
  <2>1. content'[f] = <<>> /\ <<>> = [i \in 1..0 |-> Original(r.from, n)]
    BY <1>5, <1>6, PathFacts
  <2>2. InSource(r, n)' /\ names'[r.to][n] = f
    BY <1>2, <1>4, <1>7 DEF InSource
  <2>3. content'[step'[s].dst] = [i \in 1..step'[s].pos |-> step'[s].src]
    BY <1>8, <2>1
  <2>4. step'[s].pos \in 0..2
    BY <1>8
  <2> QED
    BY <1>1, <1>5, <1>8, <2>2, <2>3, <2>4 DEF HalfCopied
<1>14. step[s].todo \subseteq Affected(r)
  BY <1>0 DEF OnPath
<1> QED
  BY <1>8, <1>10, <1>11, <1>12, <1>13, <1>14 DEF OnPath

\* A block that io.Copy writes is one of the source (fs.go:796-802).
LEMMA PathCopiesBlock ==
  ASSUME NEW s, NEW r, PathRequest(s, r), CopyBlock(s)
  PROVE  OnPath(s, r)'
<1>0. OnPath(s, r) /\ s \in FileSteps /\ step[s].req = r /\ r.from # r.to /\ FileTypeOK
  BY DEF PathRequest
<1>a. PICK n, f, g, k : /\ n = step[s].cur /\ f = step[s].dst
                        /\ g = step[s].src /\ k = step[s].pos
  OBVIOUS
<1>1. /\ step[s].at = "blocks" /\ HalfCopied(s, r)
  BY <1>0 DEF CopyBlock, At, OnPath
<1>2. /\ n \in step[s].todo /\ InSource(r, n) /\ g = Original(r.from, n) /\ f # None
      /\ f = names[r.to][n] /\ k \in 0..2 /\ content[f] = [i \in 1..k |-> g]
      /\ f \in Files /\ g \in Files
  BY <1>1, <1>a, PathFacts DEF HalfCopied, StepFits
<1>3. n \in Names /\ n \in Affected(r) /\ Kept(r)
  BY <1>0, <1>2, PathFacts DEF OnPath
<1>4. \A m \in Names : NamedFor(names[r.to][m], r.to, m)
  BY <1>0, <1>1 DEF OnPath
<1>5. content[g] = <<g, g>> /\ k < Len(content[g])
  BY <1>2, <1>3, <1>a DEF Kept, CopyBlock
<1>6. k \in 0..1 /\ content[g][k + 1] = g
  BY <1>2, <1>5
<1>7. content' = [content EXCEPT ![f] = WriteAt(content[f], k, g)] /\ names' = names
  BY <1>2, <1>6, <1>a, PathFacts DEF CopyBlock
<1>8. WriteAt(content[f], k, g) = [i \in 1..(k + 1) |-> g]
  <2>1. Len([i \in 1..k |-> g]) = k
    BY <1>6
  <2>2. \A i \in 1..(k + 1) : i # k + 1 => i <= k /\ i \in 1..k
    BY <1>6
  <2>3. WriteAt([i \in 1..k |-> g], k, g)
         = [i \in 1..(k + 1) |-> IF i = k + 1 THEN g
                                  ELSE IF i <= k THEN [j \in 1..k |-> g][i] ELSE Hole]
    BY <1>6, <2>1 DEF WriteAt
  <2>4. \A i \in 1..(k + 1) : (IF i = k + 1 THEN g
                               ELSE IF i <= k THEN [j \in 1..k |-> g][i] ELSE Hole) = g
    BY <1>6, <2>2
  <2> QED
    BY <1>2, <2>3, <2>4
<1>9. /\ step'[s].at = "blocks" /\ step'[s].cur = n /\ step'[s].src = g
      /\ step'[s].dst = f /\ step'[s].pos = k + 1 /\ step'[s].todo = step[s].todo
  BY <1>0, <1>1, <1>a, PathFacts DEF CopyBlock, StepRecords
<1>10. r.from \in Dirs /\ r.to \in Dirs /\ NamedFor(f, r.to, n)
  BY <1>2, <1>3, <1>4, PathFacts
<1>11. /\ \A m \in Names : names'[r.to][m] = IF m = n THEN f ELSE names[r.to][m]
       /\ \A m \in Names : names'[r.from][m] = names[r.from][m]
  BY <1>2, <1>7
<1>12. /\ Kept(r)'
       /\ \A m \in Names : m # n /\ Landed(r, m) => Landed(r, m)'
       /\ \A m \in Names : NamedFor(names'[r.to][m], r.to, m)
  BY <1>0, <1>2, <1>3, <1>4, <1>7, <1>10, <1>11, TargetIsWritten
<1>13. SourceSafe(r)'
  <2>1. ASSUME NEW m \in Names
        PROVE  InSource(r, m)' \/ (r.op = "move" /\ m \in Affected(r)
                                    /\ names'[r.from][m] = None /\ Landed(r, m)')
    <3>1. CASE InSource(r, m)
      BY <1>7, <3>1 DEF InSource
    <3>2. CASE ~InSource(r, m)
      <4>1. m # n
        BY <1>2, <3>2
      <4>2. r.op = "move" /\ m \in Affected(r) /\ names[r.from][m] = None /\ Landed(r, m)
        BY <1>0, <3>2 DEF OnPath, SourceSafe
      <4> QED
        BY <1>7, <1>12, <4>1, <4>2
    <3> QED
      BY <3>1, <3>2
  <2> QED
    BY <2>1 DEF SourceSafe
<1>14. \A m \in Affected(r) \ step[s].todo : Landed(r, m)'
  <2>1. \A m \in Affected(r) \ step[s].todo : Landed(r, m) /\ m # n /\ m \in Names
    BY <1>0, <1>1, <1>2, PathFacts DEF OnPath
  <2> QED
    BY <1>12, <2>1
<1>15. HalfCopied(s, r)'
  <2>1. content'[f] = [i \in 1..(k + 1) |-> g] /\ k + 1 \in 0..2
    BY <1>2, <1>6, <1>7, <1>8, PathFacts
  <2>2. InSource(r, n)' /\ names'[r.to][n] = f
    BY <1>2, <1>7 DEF InSource
  <2>3. content'[step'[s].dst] = [i \in 1..step'[s].pos |-> step'[s].src]
    BY <1>9, <2>1
  <2> QED
    BY <1>2, <1>9, <2>1, <2>2, <2>3 DEF HalfCopied
<1>16. step[s].todo \subseteq Affected(r)
  BY <1>0 DEF OnPath
<1> QED
  BY <1>9, <1>12, <1>13, <1>14, <1>15, <1>16 DEF OnPath

\* A file is left when all its blocks are written.
LEMMA PathEndsFile ==
  ASSUME NEW s, NEW r, PathRequest(s, r), CopiedFile(s)
  PROVE  OnPath(s, r)'
<1>0. OnPath(s, r) /\ s \in FileSteps /\ step[s].req = r
  BY DEF PathRequest
<1> DEFINE n == step[s].cur
           f == step[s].dst
           g == step[s].src
           k == step[s].pos
<1>1. step[s].at = "blocks" /\ HalfCopied(s, r)
  BY <1>0 DEF CopiedFile, At, OnPath
<1>2. /\ n \in step[s].todo /\ g = Original(r.from, n) /\ f # None
      /\ f = names[r.to][n] /\ k \in 0..2 /\ content[f] = [i \in 1..k |-> g]
  BY <1>1 DEF HalfCopied
<1>3. n \in Names /\ Kept(r)
  BY <1>0, <1>2, PathFacts DEF OnPath
<1>4. content[g] = <<g, g>> /\ k >= Len(content[g])
  BY <1>2, <1>3 DEF Kept, CopiedFile
<1>5. k = 2
  BY <1>2, <1>4
<1>6. [i \in 1..2 |-> g] = <<g, g>>
  OBVIOUS
<1>7. Landed(r, n)
  BY <1>2, <1>5, <1>6 DEF Landed, HasMoved, Whole
<1>8. step'[s].at = "open" /\ step'[s].todo = step[s].todo \ {n} /\ UNCHANGED <<names, content>>
  BY <1>0, PathFacts DEF CopiedFile, StepRecords
<1> HIDE DEF n
<1>9. Kept(r)' /\ SourceSafe(r)'
  BY <1>0, <1>8 DEF OnPath, Kept, SourceSafe, InSource, Landed, HasMoved, Whole
<1>10. \A m \in Names : NamedFor(names[r.to][m], r.to, m)'
  BY <1>0, <1>1, <1>8 DEF OnPath, NamedFor
<1>11. \A m \in Affected(r) \ step'[s].todo : Landed(r, m)
  BY <1>0, <1>1, <1>7, <1>8 DEF OnPath
<1>12. \A m \in Affected(r) \ step'[s].todo : Landed(r, m)'
  BY <1>8, <1>11 DEF Landed, HasMoved, Whole
<1>13. step'[s].todo \subseteq Affected(r)
  BY <1>0, <1>8 DEF OnPath
<1> QED
  BY <1>8, <1>9, <1>10, <1>12, <1>13 DEF OnPath

\* A copy is over when every file is.
LEMMA PathIsCopied ==
  ASSUME NEW s, NEW r, PathRequest(s, r), Copied(s)
  PROVE  OnPath(s, r)'
<1>0. OnPath(s, r) /\ s \in FileSteps /\ step[s].req = r
  BY DEF PathRequest
<1>1. /\ step[s].at = "open" /\ step[s].todo = {} /\ step'[s].todo = {}
      /\ step'[s].at \in {"done", "remove"} /\ UNCHANGED <<names, content>>
  BY <1>0, PathFacts DEF Copied, StepRecords, At
<1>2. Kept(r)' /\ SourceSafe(r)'
  BY <1>0, <1>1 DEF OnPath, Kept, SourceSafe, InSource, Landed, HasMoved, Whole
<1>3. \A n \in Names : NamedFor(names[r.to][n], r.to, n)'
  BY <1>0, <1>1 DEF OnPath, NamedFor
<1>4. \A n \in Affected(r) : Landed(r, n)'
  BY <1>0, <1>1 DEF OnPath, Landed, HasMoved, Whole
<1> QED
  BY <1>1, <1>2, <1>3, <1>4 DEF OnPath

\* A move removes the source after the copy (fs.go:905-928).
LEMMA PathRemoves ==
  ASSUME NEW s, NEW r, PathRequest(s, r), RemoveName(s) \/ Removed(s)
  PROVE  OnPath(s, r)'
<1>0. OnPath(s, r) /\ s \in FileSteps /\ step[s].req = r /\ r.from # r.to /\ FileTypeOK
      /\ r.op \in {"copy", "move"}
  BY DEF PathRequest
<1>1. step[s].at = "remove" /\ step[s].todo = {} /\ content' = content
  BY <1>0 DEF RemoveName, Removed, At, OnPath
<1>2. r.op = "move"
  BY <1>0, <1>1, PathFacts DEF StepFits
<1>3. \A n \in Affected(r) : Landed(r, n)
  BY <1>0, <1>1 DEF OnPath
<1>4. CASE Removed(s)
  <2>1. step'[s].at = "done" /\ step'[s].todo = {} /\ names' = names
    BY <1>0, <1>4, PathFacts DEF Removed, Ending, StepRecords
  <2>2. Kept(r)' /\ SourceSafe(r)' /\ \A n \in Affected(r) : Landed(r, n)'
    BY <1>0, <1>1, <1>3, <2>1 DEF OnPath, Kept, SourceSafe, InSource, Landed, HasMoved, Whole
  <2> QED
    BY <2>1, <2>2 DEF OnPath
<1>5. CASE RemoveName(s)
  <2>1. PICK n \in Removable(s) : names' = [names EXCEPT ![r.from][n] = None]
    BY <1>0, <1>5 DEF RemoveName
  <2>2. n \in Affected(r) /\ n \in Names
    BY <1>0, PathFacts DEF Removable, Present, Affected
  <2>3. /\ \A m \in Names : names'[r.to][m] = names[r.to][m]
        /\ \A m \in Names : names'[r.from][m] = IF m = n THEN None ELSE names[r.from][m]
    BY <1>0, <2>1, <2>2, PathFacts
  <2>4. step' = step
    BY <1>5 DEF RemoveName
  <2>5. \A m \in Names : Landed(r, m) => Landed(r, m)'
    BY <1>1, <2>3 DEF Landed, HasMoved, Whole
  <2>6. \A m \in Affected(r) : Landed(r, m)' /\ m \in Names
    BY <1>3, <2>5, PathFacts
  <2>7. SourceSafe(r)'
    <3>1. ASSUME NEW m \in Names
          PROVE  InSource(r, m)' \/ (r.op = "move" /\ m \in Affected(r)
                                      /\ names'[r.from][m] = None /\ Landed(r, m)')
      <4>1. CASE m = n
        BY <1>2, <2>2, <2>3, <2>6, <4>1
      <4>2. CASE m # n /\ InSource(r, m)
        BY <2>3, <4>2 DEF InSource
      <4>3. CASE m # n /\ ~InSource(r, m)
        <5>1. m \in Affected(r) /\ names[r.from][m] = None
          BY <1>0, <4>3 DEF OnPath, SourceSafe
        <5> QED
          BY <1>2, <2>3, <2>6, <4>3, <5>1
      <4> QED
        BY <4>1, <4>2, <4>3
    <3> QED
      BY <3>1 DEF SourceSafe
  <2>8. Kept(r)'
    BY <1>0, <1>1 DEF OnPath, Kept
  <2>9. \A m \in Names : NamedFor(names[r.to][m], r.to, m)'
    BY <1>0, <1>1, <2>3 DEF OnPath, NamedFor
  <2> QED
    BY <1>1, <2>4, <2>6, <2>7, <2>8, <2>9 DEF OnPath
<1> QED
  BY <1>4, <1>5

\* So a copy or a move between two directories never loses a file, whichever
\* operation is next.
LEMMA PathGoesOn ==
  ASSUME NEW s, NEW r, PathRequest(s, r), GoesOn(s)
  PROVE  OnPath(s, r)'
<1>0. OnPath(s, r) /\ s \in FileSteps /\ step[s].req = r /\ r.op \in {"copy", "move"}
  BY DEF PathRequest
<1>1. ASSUME Ending(s, "failed"), step[s].at # "done", UNCHANGED <<names, content>>
      PROVE  OnPath(s, r)'
  <2>1. step'[s].at = "failed" /\ step'[s].todo = {}
    BY <1>0, <1>1, PathFacts DEF Ending, StepRecords
  <2> QED
    BY <1>1, <2>1, PathRests
<1>2. CASE Fails(s) \/ NotThere(s) \/ OpenFails(s)
  <2>1. UNCHANGED <<names, content>> /\ step[s].at # "done" /\ step[s].at # "delete"
    BY <1>0, <1>2 DEF Fails, NotThere, OpenFails, At, OnPath
  <2>2. Ending(s, "failed")
    BY <1>2, <2>1 DEF Fails, NotThere, OpenFails, At
  <2> QED
    BY <1>1, <2>1, <2>2
<1>3. CASE StartDelete(s) \/ OpenWrite(s) \/ PutBlock(s)
  <2>1. step[s].at \in {"delete", "write", "append", "put"}
    BY <1>3 DEF StartDelete, OpenWrite, PutBlock, At
  <2> QED
    BY <1>0, <2>1 DEF OnPath
<1> QED
  BY <1>2, <1>3, PathRenames, PathStartsCopy, PathOpensCopy, PathCopiesBlock, PathEndsFile,
     PathIsCopied, PathRemoves DEF GoesOn

\* A move onto itself leaves the files.
LEMMA PlaceGoesOn ==
  ASSUME FileTypeOK, NEW s \in FileSteps, NEW r \in Requests[s], step[s].req = r,
         r.op = "move", r.from = r.to, InPlace(s, r), GoesOn(s)
  PROVE  InPlace(s, r)'
<1>0. step \in [FileSteps -> StepRecords] /\ step[s] \in StepRecords
  BY DEF FileTypeOK
<1>1. ASSUME NEW to \in {"failed", "done"}, Ending(s, to), UNCHANGED <<names, content>>
      PROVE  InPlace(s, r)'
  <2>1. step'[s].at = to
    BY <1>0, <1>1 DEF Ending, StepRecords
  <2> QED
    BY <1>1, <2>1 DEF InPlace, Kept, InSource
<1>2. CASE Fails(s) \/ NotThere(s) \/ OpenFails(s)
  BY <1>1, <1>2 DEF Fails, NotThere, OpenFails
<1>3. CASE Rename(s)
  BY <1>1, <1>3 DEF Rename
<1>4. CASE StartCopy(s)
  BY <1>4 DEF StartCopy, InPlace, At, Renames
<1>5. CASE \/ OpenCopy(s) \/ CopyBlock(s) \/ CopiedFile(s) \/ Copied(s) \/ StartDelete(s)
           \/ RemoveName(s) \/ Removed(s) \/ OpenWrite(s) \/ PutBlock(s)
  <2>1. step[s].at \in {"open", "blocks", "delete", "remove", "write", "append", "put"}
    BY <1>5 DEF OpenCopy, CopyBlock, CopiedFile, Copied, StartDelete, RemoveName, Removed,
                OpenWrite, PutBlock, At
  <2> QED
    BY <2>1 DEF InPlace
<1> QED
  BY <1>2, <1>3, <1>4, <1>5 DEF GoesOn

\* A step that is alone has no other that began.
LEMMA AloneMeans ==
  ASSUME NEW s \in FileSteps, NEW t \in FileSteps, t # s, Alone(s),
         step[t].try \in Nat, step[s].try \in Nat
  PROVE  step[t].try = 0 /\ step[s].try # 0
BY DEF Alone

\* Each operation keeps the invariant of a step that is alone.
LEMMA AloneStepHolds ==
  ASSUME FileTypeOK, AloneInv, [FileNext]_fileVars
  PROVE  AloneInv'
<1>0. FileTypeOK' /\ \A t \in FileSteps : step[t].try \in Nat /\ step'[t].try \in Nat
  <2>1. FileTypeOK'
    BY FileStepTyped
  <2> QED
    BY <2>1 DEF FileTypeOK, StepRecords
<1>1. CASE UNCHANGED fileVars
  <2>1. dirs' = dirs /\ names' = names /\ content' = content /\ step' = step
    BY <1>1 DEF fileVars
  <2>2. Untouched => Untouched'
    BY <2>1 DEF Untouched
  <2>3. ASSUME NEW r
        PROVE  (Kept(r) => Kept(r)') /\ (SourceSafe(r) => SourceSafe(r)')
    BY <2>1 DEF Kept, SourceSafe, InSource, Landed, HasMoved, Whole
  <2>4. ASSUME NEW s, NEW r
        PROVE  /\ OnPath(s, r) => OnPath(s, r)'
               /\ InPlace(s, r) => InPlace(s, r)'
               /\ Alone(s)' => Alone(s)
    <3>1. HalfCopied(s, r) => HalfCopied(s, r)'
      BY <2>1 DEF HalfCopied, InSource
    <3>2. \A n : Landed(r, n) => Landed(r, n)'
      BY <2>1 DEF Landed, HasMoved, Whole
    <3>3. \A n : NamedFor(names[r.to][n], r.to, n) => NamedFor(names[r.to][n], r.to, n)'
      BY <2>1 DEF NamedFor
    <3>4. OnPath(s, r) => OnPath(s, r)'
      BY <2>1, <2>3, <3>1, <3>2, <3>3 DEF OnPath
    <3> QED
      BY <2>1, <2>3, <3>4 DEF InPlace, InSource, Alone
  <2> QED
    BY <2>1, <2>2, <2>4 DEF AloneInv
<1>2. ASSUME NEW u \in FileSteps, Begin(u) \/ GoesOn(u)
      PROVE  AloneInv'
  <2>1. step'[u].try # 0
    <3>1. CASE Begin(u)
      BY <3>1, BeginTakes
    <3>2. CASE GoesOn(u)
      BY <3>2, RequestStays
    <3> QED
      BY <1>2, <3>1, <3>2
  <2>2. ~(\A t \in FileSteps : step'[t].try = 0)
    BY <2>1
  <2>3. ASSUME NEW s \in FileSteps, NEW r \in Requests[s], Alone(s)', step'[s].req = r
        PROVE  /\ r.op \in {"copy", "move"} /\ r.from # r.to => OnPath(s, r)'
               /\ r.op = "move" /\ r.from = r.to => InPlace(s, r)'
    <3>1. s = u
      BY <1>0, <2>1, <2>3 DEF Alone
    <3>2. \A t \in FileSteps : t # s => step[t].try = 0
      <4>1. \A t \in FileSteps : t # s => step'[t].try = 0
        BY <1>0, <2>3 DEF Alone
      <4> QED
        BY <1>2, <3>1, <4>1, OthersStay
    <3>3. step[s].try # 0 => Alone(s)
      <4> SUFFICES ASSUME step[s].try # 0
                   PROVE  \A t \in FileSteps : step[t].try > 0 <=> t = s
        BY DEF Alone
      <4>1. step[s].try > 0
        BY <1>0
      <4> QED
        BY <3>2, <4>1
    <3>4. CASE GoesOn(s)
      <4>1. step[s].try # 0 /\ step[s].req = r
        BY <2>3, <3>4, RequestStays
      <4>2. /\ r.op \in {"copy", "move"} /\ r.from # r.to => OnPath(s, r)
            /\ r.op = "move" /\ r.from = r.to => InPlace(s, r)
        BY <3>3, <4>1 DEF AloneInv
      <4>3. r.op \in {"copy", "move"} /\ r.from # r.to => PathRequest(s, r)
        BY <4>1, <4>2 DEF PathRequest
      <4> QED
        BY <3>4, <4>1, <4>2, <4>3, PathGoesOn, PlaceGoesOn
    <3>5. CASE Begin(s)
      <4>1. /\ step'[s].at = r.op /\ step'[s].todo = {} /\ UNCHANGED <<dirs, names, content>>
            /\ \/ step[s].try = 0
               \/ step[s].at = "failed" /\ r = step[s].req /\ step[s].try # 0
        BY <2>3, <3>5, BeginTakes
      <4>2. r \in Asked /\ r.from \in Dirs /\ r.to \in Dirs
        BY RequestFacts
      <4>3. CASE step[s].try = 0
        <5>1. Untouched
          <6>1. \A t \in FileSteps : step[t].try = 0
            BY <3>2, <4>3
          <6> QED
            BY <6>1 DEF AloneInv
        <5>2. \A n \in Names : names[r.from][n] = Original(r.from, n)
          BY <4>2, <5>1 DEF Untouched
        <5>3. \A n \in Names : names[r.to][n] \in {Original(r.to, n), None}
          BY <4>2, <5>1 DEF Untouched
        <5>4. \A n \in Names :
                content[Original(r.from, n)] = <<Original(r.from, n), Original(r.from, n)>>
          BY <4>2, <5>1 DEF Untouched
        <5>5. Kept(r)' /\ SourceSafe(r)' /\ \A n \in Names : InSource(r, n)'
          BY <4>1, <5>2, <5>4 DEF Kept, SourceSafe, InSource
        <5>6. \A n \in Names : NamedFor(names[r.to][n], r.to, n)'
          BY <4>1, <5>3 DEF NamedFor
        <5> QED
          BY <4>1, <5>5, <5>6 DEF OnPath, InPlace
      <4>4. CASE step[s].at = "failed" /\ r = step[s].req /\ step[s].try # 0
        <5>1. /\ r.op \in {"copy", "move"} /\ r.from # r.to => OnPath(s, r)
              /\ r.op = "move" /\ r.from = r.to => InPlace(s, r)
          BY <3>3, <4>4 DEF AloneInv
        <5>2. ASSUME r.op \in {"copy", "move"}, r.from # r.to
              PROVE  OnPath(s, r)'
          <6>1. PathRequest(s, r)
            BY <4>4, <5>1, <5>2 DEF PathRequest
          <6> QED
            BY <4>1, <4>4, <5>2, <6>1, PathRests
        <5>3. ASSUME r.op = "move", r.from = r.to
              PROVE  InPlace(s, r)'
          BY <4>1, <5>1, <5>3 DEF InPlace, Kept, InSource
        <5> QED
          BY <5>2, <5>3
      <4> QED
        BY <4>1, <4>3, <4>4
    <3> QED
      BY <1>2, <3>1, <3>4, <3>5
  <2> QED
    BY <2>2, <2>3 DEF AloneInv
<1> QED
  BY <1>1, <1>2 DEF FileNext, GoesOn

\* No step has begun at first.
LEMMA AloneInitHolds == FileInit => AloneInv
<1> SUFFICES ASSUME FileInit
             PROVE  AloneInv
  OBVIOUS
<1>1. \A s \in FileSteps : step[s].try = 0
  BY IdleIsTyped DEF FileInit, IdleFileStep, StepRecords
<1>2. \A s \in FileSteps : ~Alone(s)
  BY <1>1 DEF Alone
<1>3. Untouched
  <2>1. \A r \in Asked : r.from \in dirs
    BY DEF FileInit
  <2>2. \A d \in Dirs, n \in Names : names[d][n] = IF d \in dirs THEN Original(d, n) ELSE None
    BY DEF FileInit
  <2>3. ASSUME NEW d \in Dirs, NEW n \in Names
        PROVE  content[Original(d, n)] = <<Original(d, n), Original(d, n)>>
    <3>1. Original(d, n) \in Files /\ Original(d, n)[1] = "init"
      BY FileNames DEF Original
    <3> QED
      BY <3>1 DEF FileInit
  <2> QED
    BY <2>1, <2>2, <2>3 DEF Untouched
<1> QED
  BY <1>2, <1>3 DEF AloneInv

FileInv == FileTypeOK /\ AppendsSurvive /\ AloneInv

\* (fs.go:440-451, fs.go:754-835, fs.go:905-937)
THEOREM FilesAreKept == FileSpec => []NothingIsLost
<1>1. FileInit => FileInv
  <2> SUFFICES ASSUME FileInit
               PROVE  FileInv
    OBVIOUS
  <2>1. \A s \in FileSteps : step[s].at = "idle"
    BY IdleIsTyped DEF FileInit, IdleFileStep, StepRecords
  <2>2. AppendsSurvive
    BY <2>1 DEF AppendsSurvive, At
  <2> QED
    BY <2>2, FileInitTyped, AloneInitHolds DEF FileInv
<1>2. FileInv /\ [FileNext]_fileVars => FileInv'
  BY FileStepTyped, AppendsStepHolds, AloneStepHolds DEF FileInv
<1>3. FileInv => NothingIsLost
  <2> SUFFICES ASSUME FileInv
               PROVE  NothingIsLost
    OBVIOUS
  <2>1. ASSUME NEW s \in FileSteps, Alone(s)
        PROVE  /\ step[s].req \in Requests[s]
               /\ step[s].req.op \in {"copy", "move"} /\ step[s].req.from # step[s].req.to
                    => OnPath(s, step[s].req)
               /\ step[s].req.op = "move" /\ step[s].req.from = step[s].req.to
                    => InPlace(s, step[s].req)
    <3>1. step[s] \in StepRecords /\ StepFits(step[s], s) /\ step[s].try > 0
      BY <2>1 DEF FileInv, FileTypeOK, Alone
    <3>2. step[s].req \in Requests[s]
      BY <3>1 DEF StepFits
    <3> QED
      BY <2>1, <3>2 DEF FileInv, AloneInv
  <2>2. MoveLosesNothing
    <3> SUFFICES ASSUME NEW s \in FileSteps, Alone(s), step[s].req.op = "move", NEW n \in Names
                 PROVE  \E d \in {step[s].req.from, step[s].req.to} : HasMoved(d, n, step[s].req)
      BY DEF MoveLosesNothing
    <3> DEFINE r == step[s].req
    <3>1. Kept(r) /\ (InSource(r, n) \/ Landed(r, n))
      <4>1. CASE r.from = r.to
        BY <2>1, <4>1 DEF InPlace
      <4>2. CASE r.from # r.to
        BY <2>1, <4>2 DEF OnPath, SourceSafe
      <4> QED
        BY <4>1, <4>2
    <3>2. r.from \in Dirs
      BY <2>1, RequestFacts
    <3>3. Original(r.from, n) # None
      BY <3>2, FileNames
    <3> HIDE DEF r
    <3>4. InSource(r, n) => HasMoved(r.from, n, r)
      BY <3>1, <3>3 DEF InSource, HasMoved, Whole, Kept
    <3> QED
      BY <3>1, <3>4 DEF Landed, r
  <2>3. DoneIsWhole
    <3> SUFFICES ASSUME NEW s \in FileSteps, Alone(s), step[s].at = "done",
                        step[s].req.op = "move" \/ (step[s].req.op = "copy"
                                                     /\ step[s].req.from # step[s].req.to),
                        NEW n \in IF step[s].req.file = NoFile THEN Names ELSE {step[s].req.file}
                 PROVE  HasMoved(step[s].req.to, n, step[s].req)
      BY DEF DoneIsWhole, At
    <3> DEFINE r == step[s].req
    <3>1. n \in Affected(r) /\ r.from \in Dirs /\ n \in Names
      BY <2>1, RequestFacts DEF Affected
    <3>2. CASE r.from # r.to
      BY <2>1, <3>1, <3>2 DEF OnPath, Landed
    <3>3. CASE r.from = r.to
      <4>1. Kept(r) /\ InSource(r, n)
        BY <2>1, <3>1, <3>3 DEF InPlace
      <4>2. Original(r.from, n) # None
        BY <3>1, FileNames
      <4> QED
        BY <3>1, <3>3, <4>1, <4>2 DEF InSource, HasMoved, Whole, Kept
    <3> QED
      BY <3>2, <3>3
  <2> QED
    BY <2>2, <2>3 DEF NothingIsLost, FileInv
<1> QED
  BY <1>1, <1>2, <1>3, PTL DEF FileSpec

=============================================================================
