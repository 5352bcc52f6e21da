------------------------------- MODULE EventLog -------------------------------
(***************************************************************************)
(* AppendEvent of internal/store/eventlog.go: the transaction that gives   *)
(* an event of a workflow the next sequence number.  A process has one     *)
(* connection to the database (SetMaxOpenConns(1)); several processes may  *)
(* share the file.  Status, replay and the panel read the whole log.       *)
(* SQLite is external: one write lock, a transaction that becomes a writer *)
(* on an old snapshot is refused, and what was not committed is gone.      *)
(***************************************************************************)
EXTENDS Integers, Sequences, FiniteSets

CONSTANTS Appenders, \* concurrent calls of AppendEvent, of one workflow
          Processes,
          ProcessOf, \* [Appenders -> Processes]
          MaxEvents  \* bound

Unheld == "unheld"

ASSUME EventLogAssumption ==
  /\ ProcessOf \in [Appenders -> Processes]
  /\ Unheld \notin Appenders /\ MaxEvents \in Nat

VARIABLES
  events,     \* committed sequence numbers, in the order of the commits
  connection, \* [Processes -> the call that has it]
  writeLock,  \* the call whose transaction writes
  append,     \* the calls
  seen        \* what the last reader was given

eventLogVars == <<events, connection, writeLock, append, seen>>

NoAppend == [at |-> "idle", seq |-> 0, snapshot |-> -1]

EventLogInit ==
  /\ events = <<>>
  /\ connection = [p \in Processes |-> Unheld]
  /\ writeLock = Unheld
  /\ append = [a \in Appenders |-> NoAppend]
  /\ seen = <<>>

AppendAt(a, label) == append[a].at = label

Numbers == {events[i] : i \in DOMAIN events}

\* ORDER BY sequence: each number after the smaller ones.
GetEvents ==
  [i \in DOMAIN events |->
     CHOOSE n \in Numbers : Cardinality({m \in Numbers : m < n}) = i - 1]

\* COALESCE(MAX(sequence), 0).
LastSequence ==
  IF events = <<>> THEN 0 ELSE CHOOSE n \in Numbers : \A m \in Numbers : m <= n

\* BeginTx takes the connection; the transaction is deferred.
BeginAppend(a) ==
  /\ AppendAt(a, "idle") /\ Len(events) < MaxEvents
  /\ connection[ProcessOf[a]] = Unheld
  /\ connection' = [connection EXCEPT ![ProcessOf[a]] = a]
  /\ append' = [append EXCEPT ![a] = [NoAppend EXCEPT !.at = "lock"]]
  /\ UNCHANGED <<events, writeLock, seen>>

\* Faulty: the sequence number is read before anything is written.
LockNothing(a) ==
  /\ AppendAt(a, "lock")
  /\ append' = [append EXCEPT ![a].at = "read"]
  /\ UNCHANGED <<events, connection, writeLock, seen>>

\* The row that is inserted and deleted at once makes a writer of the
\* transaction before it has a snapshot; it waits for another writer.
TakeWriteLock(a) ==
  /\ AppendAt(a, "lock") /\ writeLock = Unheld
  /\ writeLock' = a
  /\ append' = [append EXCEPT ![a].at = "read"]
  /\ UNCHANGED <<events, connection, seen>>

\* MAX(sequence) + 1 of the workflow.
ReadSequence(a) ==
  /\ AppendAt(a, "read")
  /\ append' = [append EXCEPT ![a] =
       [at |-> "insert", seq |-> LastSequence + 1, snapshot |-> Len(events)]]
  /\ UNCHANGED <<events, connection, writeLock, seen>>

\* The insert is refused if the transaction is not the writer and cannot
\* become it.
Insert(a) ==
  /\ AppendAt(a, "insert")
  /\ IF \/ writeLock = a
        \/ writeLock = Unheld /\ append[a].snapshot = Len(events)
     THEN /\ writeLock' = a
          /\ append' = [append EXCEPT ![a].at = "commit"]
     ELSE /\ append' = [append EXCEPT ![a].at = "refused"]
          /\ UNCHANGED writeLock
  /\ UNCHANGED <<events, connection, seen>>

Release(a) ==
  /\ connection' = [connection EXCEPT ![ProcessOf[a]] = Unheld]
  /\ writeLock' = IF writeLock = a THEN Unheld ELSE writeLock

Commit(a) ==
  /\ AppendAt(a, "commit")
  /\ events' = Append(events, append[a].seq)
  /\ Release(a)
  /\ append' = [append EXCEPT ![a] = NoAppend]
  /\ UNCHANGED seen

\* The deferred Rollback: after an error, or when the context has ended.
Rollback(a) ==
  /\ append[a].at # "idle"
  /\ Release(a)
  /\ append' = [append EXCEPT ![a] = NoAppend]
  /\ UNCHANGED <<events, seen>>

\* The process is gone, and with it what it had not committed.
Die(p) ==
  LET calls == {a \in Appenders : ProcessOf[a] = p}
  IN  /\ \E a \in calls : ~AppendAt(a, "idle")
      /\ append' = [a \in Appenders |-> IF a \in calls THEN NoAppend ELSE append[a]]
      /\ connection' = [connection EXCEPT ![p] = Unheld]
      /\ writeLock' = IF writeLock \in calls THEN Unheld ELSE writeLock
      /\ UNCHANGED <<events, seen>>

\* Someone reads the log.
Poll ==
  /\ Len(events) > Len(seen)
  /\ seen' = GetEvents
  /\ UNCHANGED <<events, connection, writeLock, append>>

EventLogNext ==
  \/ \E a \in Appenders :
       \/ BeginAppend(a) \/ TakeWriteLock(a) \/ ReadSequence(a) \/ Insert(a)
       \/ Commit(a) \/ Rollback(a)
  \/ \E p \in Processes : Die(p)
  \/ Poll

EventLogSpec == EventLogInit /\ [][EventLogNext]_eventLogVars

-----------------------------------------------------------------------------

\* The sequence numbers of a workflow are 1, 2, ... in the order of the
\* commits, whoever else appends, dies or is refused: replay finds no gap, and
\* what a reader was given stays the beginning of the log (eventlog.go:24-76,
\* 101-107).
SequencesAreDense ==
  /\ \A i \in DOMAIN events : events[i] = i
  /\ \A i \in DOMAIN seen : seen[i] = i

\* No append is refused because another wrote in between: what the write lock
\* at its head is for (eventlog.go:35-45).
NoAppendIsRefused == \A a \in Appenders : ~AppendAt(a, "refused")

\* Appends of all processes are one after the other: each takes the next
\* number, and none is given up for another's sake.
AppendsAreSerial == SequencesAreDense /\ NoAppendIsRefused
=============================================================================
