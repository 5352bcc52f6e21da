------------------------------- MODULE EventHub -------------------------------
(***************************************************************************)
(* The in-memory hub of internal/streaming and the two streams of the      *)
(* panel that read from it.  A publisher holds the hub's lock as a reader, *)
(* so several send at the same time, each to one subscriber after the      *)
(* other; a subscription is made and cancelled under the lock of a writer. *)
(* A send never waits: what does not fit in the buffer of a subscriber is  *)
(* dropped for it.  The events are numbered as their publishers get the    *)
(* lock.                                                                   *)
(***************************************************************************)
EXTENDS Integers, Sequences

CONSTANTS Streams,   \* handlers of the panel's event streams, each used once
          Publishers,\* workflow.emit steps that run at the same time
          Workflows,
          AllEvents, \* the filter of the global stream
          Buffer,    \* capacity of a subscriber's channel (64)
          MaxEmits   \* bound: events

ASSUME EventHubAssumption ==
  /\ AllEvents \notin Workflows /\ Buffer \in Nat \ {0} /\ MaxEmits \in Nat

VARIABLES
  emitted,    \* the events: their workflow, and (history) those published before
  publishing, \* a publisher's event, and the streams it has yet to send it to
  stream      \* the handlers: filter, channel, and what was written out

hubVars == <<emitted, publishing, stream>>

NoStream == [at |-> "new", filter |-> AllEvents, since |-> 0, channel |-> <<>>,
             written |-> <<>>, dropped |-> {}]
NotPublishing == [event |-> 0, left |-> {}]

HubInit ==
  /\ emitted = <<>>
  /\ publishing = [p \in Publishers |-> NotPublishing]
  /\ stream = [s \in Streams |-> NoStream]

\* matchFilter; the panel filters by workflow only.
MatchFilter(s, w) == stream[s].filter \in {AllEvents, w}

\* The subscriptions in the hub's table.  A handler whose client has gone is
\* there until it gets the lock.
Subscribed(s) == stream[s].at \in {"open", "leaving"}

\* The lock of a writer, held by nobody in between.
Unread == \A p \in Publishers : publishing[p].event = 0

\* serveSSE subscribes.
Subscribe(s, filter) ==
  /\ stream[s].at = "new" /\ Unread
  /\ stream' = [stream EXCEPT ![s].at = "open", ![s].filter = filter,
                              ![s].since = Len(emitted)]
  /\ UNCHANGED <<emitted, publishing>>

\* workflow.emit publishes: RLock, and a loop over the subscribers in the order
\* of a map, of which those that do not match are passed over.
Publish(p, w) ==
  /\ publishing[p].event = 0 /\ Len(emitted) < MaxEmits
  /\ emitted' = Append(emitted,
       [workflow |-> w,
        after |-> (1..Len(emitted)) \ {publishing[q].event : q \in Publishers}])
  /\ publishing' = [publishing EXCEPT ![p] =
       [event |-> Len(emitted) + 1,
        left |-> {s \in Streams : Subscribed(s) /\ MatchFilter(s, w)}]]
  /\ UNCHANGED stream

\* Faulty: one full channel ends the loop over the subscribers.
SendUntilFull(p, s) ==
  /\ s \in publishing[p].left
  /\ LET full == Len(stream[s].channel) >= Buffer IN
     /\ stream' = IF full THEN [stream EXCEPT ![s].dropped = @ \cup {publishing[p].event}]
                  ELSE [stream EXCEPT ![s].channel = Append(@, publishing[p].event)]
     /\ publishing' = [publishing EXCEPT ![p].left = IF full THEN {} ELSE @ \ {s}]
  /\ UNCHANGED emitted

\* The event goes into the channel of one more subscriber, unless it is full.
Send(p, s) ==
  /\ s \in publishing[p].left
  /\ stream' = IF Len(stream[s].channel) >= Buffer
               THEN [stream EXCEPT ![s].dropped = @ \cup {publishing[p].event}]
               ELSE [stream EXCEPT ![s].channel = Append(@, publishing[p].event)]
  /\ publishing' = [publishing EXCEPT ![p].left = @ \ {s}]
  /\ UNCHANGED emitted

\* RUnlock.
PublishEnds(p) ==
  /\ publishing[p].event # 0 /\ publishing[p].left = {}
  /\ publishing' = [publishing EXCEPT ![p] = NotPublishing]
  /\ UNCHANGED <<emitted, stream>>

\* The handler writes an event out.
Serve(s) ==
  /\ stream[s].at = "open" /\ stream[s].channel # <<>>
  /\ stream' = [stream EXCEPT ![s].channel = Tail(@),
                  ![s].written = Append(@, Head(stream[s].channel))]
  /\ UNCHANGED <<emitted, publishing>>

\* The client is gone: the handler may still write what it can take, leaves its
\* loop ...
Hangup(s) ==
  /\ stream[s].at = "open"
  /\ stream' = [stream EXCEPT ![s].at = "leaving"]
  /\ UNCHANGED <<emitted, publishing>>

\* ... and cancels its subscription.
Cancel(s) ==
  /\ stream[s].at = "leaving" /\ Unread
  /\ stream' = [stream EXCEPT ![s].at = "closed", ![s].channel = <<>>]
  /\ UNCHANGED <<emitted, publishing>>

HubNext ==
  \/ \E s \in Streams :
       \/ Serve(s) \/ Hangup(s) \/ Cancel(s)
       \/ \E filter \in Workflows \cup {AllEvents} : Subscribe(s, filter)
       \/ \E p \in Publishers : Send(p, s)
  \/ \E p \in Publishers : PublishEnds(p) \/ \E w \in Workflows : Publish(p, w)

HubSpec == HubInit /\ [][HubNext]_hubVars

-----------------------------------------------------------------------------

\* The events some publisher has yet to send to a stream.
OnTheWay(s) == {publishing[p].event : p \in {q \in Publishers : s \in publishing[q].left}}

\* Each event once, and none before one whose publisher had returned when its
\* own began.
OnceInOrder(got) ==
  \A i, j \in DOMAIN got :
    i < j => got[i] # got[j] /\ got[j] \notin emitted[got[i]].after

\* An open stream has, written or waiting, each of the events of its filter
\* since it subscribed exactly once and in the order of publishers that follow
\* each other, but for those still on their way to it and those its own full
\* channel could not take: a slow stream costs no other stream an event, and no
\* publisher another's (memory_hub.go:31-52).  Publishers that overlap may reach
\* two streams in opposite orders.
StreamsAreFaithful ==
  \A s \in Streams :
    stream[s].at = "open" =>
      LET got == stream[s].written \o stream[s].channel
          has == {got[i] : i \in DOMAIN got}
      IN  /\ OnceInOrder(got)
          /\ has \cap stream[s].dropped = {}
          /\ has \cup stream[s].dropped =
               {n \in (stream[s].since + 1)..Len(emitted) :
                  MatchFilter(s, emitted[n].workflow)} \ OnTheWay(s)
=============================================================================
