----------------------- MODULE ExternalMessageBuffer -----------------------
(***************************************************************************)
(* The external-message store under all its concurrent clients:            *)
(*   - ExternalMessageSource.ingest and stop, serialised by the source's   *)
(*     lifecycle lock, which ingest keeps until its signal is published    *)
(*     (input_events/external_message/source.py);                          *)
(*   - the owner (StateManager), which makes one call at a time and whose  *)
(*     flush_to_wake publishes its signals after releasing the buffer lock;*)
(*   - the Read worker's consume_for_read, which waits on the Condition    *)
(*     and can time out or be cancelled at any await.                      *)
(***************************************************************************)
EXTENDS ExternalMessageOps

VARIABLES buf,         \* _items, _order and _read_windows
          reader,      \* the call of consume_for_read, if there is one
          source,      \* ExternalMessageSource: new, started, stopped
          ingest,      \* the message stored but not yet signalled, or 0
          flushing,    \* the signals flush_to_wake has still to publish
          signalled,   \* history: signalled since it was last queued
          fate         \* history: what became of each message

vars == <<buf, reader, source, ingest, flushing, signalled, fate>>

\* "checking" holds or is about to get the lock, "waiting" sleeps in wait(),
\* "expired" was timed out or cancelled and has still to restore its messages.
ReaderPhases == {"idle", "checking", "waiting", "expired"}
NoReader == [phase |-> "idle", session |-> NoSession, turn |-> 0]
Fates == {"none", "held", "delivered", "evicted", "discarded"}

Accepted == {m \in Messages : fate[m] # "none"}
OwnerFree == flushing = {}

Init ==
    /\ buf = EmptyBuffer
    /\ reader = NoReader
    /\ source = "new"
    /\ ingest = 0
    /\ flushing = {}
    /\ signalled = {}
    /\ fate = [m \in Messages |-> "none"]

\* Condition.notify_all: the reader, if it waits, will look again.
NotifyNobody == reader' = reader
NotifyAll == reader' = IF reader.phase = "waiting"
                       THEN [reader EXCEPT !.phase = "checking"] ELSE reader

-----------------------------------------------------------------------------
\* The source.
StartSource ==
    /\ source = "new" /\ ingest = 0
    /\ source' = "started"
    /\ UNCHANGED <<buf, reader, ingest, flushing, signalled, fate>>

\* stop() takes the lifecycle lock, so it waits for an ingest to be signalled.
StopUnlocked ==                                 \* mutant: without the lock
    /\ source # "stopped"
    /\ source' = "stopped"
    /\ buf' = EmptyBuffer
    /\ fate' = [m \in Messages |-> IF fate[m] = "held" THEN "discarded" ELSE fate[m]]
    /\ NotifyAll
    /\ UNCHANGED <<ingest, flushing, signalled>>
StopSource == ingest = 0 /\ StopUnlocked

\* ingest: store the message ...
IngestStore(m) ==
    /\ source = "started" /\ ingest = 0
    /\ m \notin Accepted /\ \A n \in Messages : n < m => n \in Accepted
    /\ CanStore(buf)
    /\ buf' = Store(buf, m)
    /\ fate' = [n \in Messages |-> IF n = m THEN "held"
                                   ELSE IF n \in Evicted(buf) THEN "evicted" ELSE fate[n]]
    /\ ingest' = m
    /\ NotifyAll
    /\ UNCHANGED <<source, flushing, signalled>>

\* ... and, once the buffer lock is free again, publish its signal.
IngestPublish ==
    /\ ingest # 0
    /\ signalled' = signalled \cup {ingest}
    /\ ingest' = 0
    /\ UNCHANGED <<buf, reader, source, flushing, fate>>

-----------------------------------------------------------------------------
\* The owner's calls.  A call that raises leaves everything as it was.
Assign(m, s) ==
    /\ OwnerFree /\ CanAssignToSession(buf, m, s)
    /\ buf' = AssignToSession(buf, m, s)
    /\ IF buf' = buf THEN NotifyNobody ELSE NotifyAll
    /\ UNCHANGED <<source, ingest, flushing, signalled, fate>>

Pend(m, s) ==
    /\ OwnerFree /\ CanMarkPending(buf, m, s)
    /\ buf' = MarkPending(buf, m, s)
    /\ IF buf' = buf THEN NotifyNobody ELSE NotifyAll
    /\ UNCHANGED <<source, ingest, flushing, signalled, fate>>

GiveSilently(m, s, t) ==                        \* mutant: no notify_all
    /\ OwnerFree /\ CanAssignToTurn(buf, m, s, t)
    /\ buf' = AssignToTurn(buf, m, s, t)
    /\ NotifyNobody
    /\ UNCHANGED <<source, ingest, flushing, signalled, fate>>
Give(m, s, t) ==
    /\ OwnerFree /\ CanAssignToTurn(buf, m, s, t)
    /\ buf' = AssignToTurn(buf, m, s, t)
    /\ IF m \in Matching(buf, s, t) THEN NotifyNobody ELSE NotifyAll
    /\ UNCHANGED <<source, ingest, flushing, signalled, fate>>

Begin(s, t) ==
    /\ OwnerFree /\ CanBeginRead(buf, s, t)
    /\ buf' = BeginRead(buf, s, t)
    /\ NotifyAll
    /\ UNCHANGED <<source, ingest, flushing, signalled, fate>>

Close(s, t) ==
    /\ OwnerFree /\ CanCloseRead(buf, s, t)
    /\ buf' = CloseRead(buf, s, t)
    /\ NotifyAll
    /\ UNCHANGED <<source, ingest, flushing, signalled, fate>>

Discard ==
    /\ OwnerFree
    /\ buf' = EmptyBuffer
    /\ fate' = [m \in Messages |-> IF fate[m] = "held" THEN "discarded" ELSE fate[m]]
    /\ NotifyAll
    /\ UNCHANGED <<source, ingest, flushing, signalled>>

FlushToWake ==
    /\ OwnerFree
    /\ buf' = Flush(buf)
    /\ flushing' = Present(buf)
    /\ signalled' = signalled \ Present(buf)
    /\ NotifyAll
    /\ UNCHANGED <<source, ingest, fate>>

\* The snapshot is published in order; each publish may suspend.
FlushPublish ==
    /\ flushing # {}
    /\ signalled' = signalled \cup {Oldest(flushing)}
    /\ flushing' = flushing \ {Oldest(flushing)}
    /\ UNCHANGED <<buf, reader, source, ingest, fate>>

-----------------------------------------------------------------------------
\* consume_for_read.
ReadStart(s, t) ==
    /\ reader.phase = "idle"
    /\ HasWindow(buf, s, t)
    /\ reader' = [phase |-> "checking", session |-> s, turn |-> t]
    /\ UNCHANGED <<buf, source, ingest, flushing, signalled, fate>>

\* The reader holds the lock: the window may be gone, the message may be there.
ReadTake ==
    /\ reader.phase = "checking"
    /\ HasWindow(buf, reader.session, reader.turn)
    /\ Matching(buf, reader.session, reader.turn) # {}
    /\ buf' = Consume(buf, reader.session, reader.turn)
    /\ fate' = [m \in Messages |-> IF m \in Matching(buf, reader.session, reader.turn)
                                   THEN "delivered" ELSE fate[m]]
    /\ reader' = NoReader
    /\ UNCHANGED <<source, ingest, flushing, signalled>>

ReadEmpty ==
    /\ reader.phase = "checking"
    /\ \/ ~HasWindow(buf, reader.session, reader.turn)
       \/ /\ ~WindowActive(buf, reader.session, reader.turn)
          /\ Matching(buf, reader.session, reader.turn) = {}
    /\ reader' = NoReader
    /\ UNCHANGED <<buf, source, ingest, flushing, signalled, fate>>

ReadWait ==
    /\ reader.phase = "checking"
    /\ WindowActive(buf, reader.session, reader.turn)
    /\ Matching(buf, reader.session, reader.turn) = {}
    /\ reader' = [reader EXCEPT !.phase = "waiting"]
    /\ UNCHANGED <<buf, source, ingest, flushing, signalled, fate>>

\* asyncio.timeout or the convergence cancels the call at an await, even when
\* its wakeup is already scheduled.
ReadExpire ==
    /\ reader.phase \in {"checking", "waiting"}
    /\ reader' = [reader EXCEPT !.phase = "expired"]
    /\ UNCHANGED <<buf, source, ingest, flushing, signalled, fate>>

ReadForget ==                                   \* mutant: no restore
    /\ reader.phase = "expired"
    /\ buf' = [buf EXCEPT !.window[reader.session].state = "closed"]
    /\ reader' = NoReader
    /\ UNCHANGED <<source, ingest, flushing, signalled, fate>>
ReadRestore ==
    /\ reader.phase = "expired"
    /\ buf' = RestoreAfterRead(buf, reader.session, reader.turn)
    /\ reader' = NoReader
    /\ UNCHANGED <<source, ingest, flushing, signalled, fate>>

-----------------------------------------------------------------------------
SourceNext == \/ StartSource \/ StopSource \/ IngestPublish
              \/ \E m \in Messages : IngestStore(m)
OwnerNext == \/ Discard \/ FlushToWake \/ FlushPublish
             \/ \E m \in Messages, s \in Sessions : Assign(m, s) \/ Pend(m, s)
             \/ \E m \in Messages, s \in Sessions, t \in Turns : Give(m, s, t)
             \/ \E s \in Sessions, t \in Turns : Begin(s, t) \/ Close(s, t)
ReadStep == ReadTake \/ ReadEmpty \/ ReadWait \/ ReadRestore
ReaderNext == \/ ReadStep \/ ReadExpire
              \/ \E s \in Sessions, t \in Turns : ReadStart(s, t)

Next == SourceNext \/ OwnerNext \/ ReaderNext

\* The event loop runs what is ready: a reader that can take the lock does, and
\* a publish that was begun ends.  Nothing obliges clients to call, nor a
\* timeout to fire.
Fairness == WF_vars(ReadStep) /\ WF_vars(IngestPublish) /\ WF_vars(FlushPublish)

Spec == Init /\ [][Next]_vars
FairSpec == Spec /\ Fairness

-----------------------------------------------------------------------------
\* Types of the state, and the histories agree with it: a message is held
\* exactly while it is in _items.
TypeOK ==
    /\ buf \in Buffer
    /\ reader \in [phase : ReaderPhases, session : Sessions \cup {NoSession},
                   turn : Turns \cup {0}]
    /\ source \in {"new", "started", "stopped"}
    /\ ingest \in Messages \cup {0}
    /\ flushing \subseteq Messages
    /\ signalled \subseteq Messages
    /\ fate \in [Messages -> Fates]
    /\ reader.phase # "idle" => reader.session \in Sessions /\ reader.turn \in Turns
    /\ \A m \in Messages : fate[m] = "held" <=> m \in Present(buf)

\* A message owned by a turn has an open window of that very turn, so a read can
\* still take it or give it back: no third state strands it (close_read,
\* consume_for_read and the two cancellation paths agree).
TurnHasActiveWindow ==
    \A m \in Messages :
        buf.item[m].state = "turn" =>
            /\ buf.item[m].session \in Sessions
            /\ WindowActive(buf, buf.item[m].session, buf.item[m].turn)

\* No lost wakeup: a reader asleep in Condition.wait has nothing to take and
\* its window is still open (every method that changes either calls notify_all).
NoLostWakeup ==
    reader.phase = "waiting" =>
        /\ WindowActive(buf, reader.session, reader.turn)
        /\ Matching(buf, reader.session, reader.turn) = {}

\* A queued message has been signalled since it was queued, or its signal is
\* still to come from ingest or from flush_to_wake: no message waits for ever
\* because its announcement was overtaken.
QueuedIsSignalled ==
    \A m \in Messages :
        buf.item[m].state = "queued" => m \in signalled \cup flushing \cup {ingest}

\* No message is forgotten: not in the hands of a turn, not beside a reader that
\* sleeps, not in the queue without its signal.
NothingStranded == TypeOK /\ TurnHasActiveWindow /\ NoLostWakeup /\ QueuedIsSignalled

\* Once stop() has returned no ingest is half done and nothing is kept.
StoppedIsQuiet == source = "stopped" => ingest = 0 /\ Present(buf) = {}

\* _items never exceeds max_items.
WithinCapacity == Cardinality(Present(buf)) <= MaxItems

\* A read that ends by timeout or cancellation leaves no message in the hands
\* of its turn, whatever happened between the cancellation and the restore.
ExpiredReadReleases ==
    [][reader.phase = "expired" /\ reader'.phase = "idle" =>
           Matching(buf', reader.session, reader.turn) = {}]_vars

\* A read that could take a message does so without waiting for its timeout,
\* unless its owner takes the message back first.
ReadCouldTake == /\ reader.phase \in {"checking", "waiting"}
                 /\ Matching(buf, reader.session, reader.turn) # {}
ReadIsServed == ReadCouldTake ~> ~ReadCouldTake

\* The buffer implements the mailbox of MessageMailbox: at-most-once delivery,
\* reserved messages are never evicted, eviction is oldest first and only when
\* the buffer is full.
MailboxStatus(m) ==
    IF fate[m] = "none" THEN "new"
    ELSE IF fate[m] = "delivered" THEN "delivered"
    ELSE IF fate[m] \in {"evicted", "discarded"} THEN "dropped"
    ELSE IF buf.item[m].state = "turn" THEN "reserved" ELSE "waiting"

Mailbox == INSTANCE MessageMailbox WITH
               Count <- MaxMessages, Capacity <- MaxItems,
               status <- [m \in Messages |-> MailboxStatus(m)]
ImplementsMailbox == Mailbox!MailboxSpec

=============================================================================
