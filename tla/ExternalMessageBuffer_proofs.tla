------------------- MODULE ExternalMessageBuffer_proofs -------------------
(***************************************************************************)
(* Proofs about ExternalMessageBuffer for every number of messages,        *)
(* sessions and turns, every capacity and every overflow policy: no        *)
(* message is stranded, the capacity holds, a read releases what it does   *)
(* not take, and the buffer implements the mailbox.                        *)
(***************************************************************************)
EXTENDS ExternalMessageBuffer, FiniteSetTheorems, WellFoundedInduction, TLAPS

\* The buffer on its own: its type, and no turn owns a message without the
\* open window of that turn.
Sound(b) ==
    /\ b \in Buffer
    /\ \A m \in Messages :
           b.item[m].state = "turn" =>
               /\ b.item[m].session \in Sessions
               /\ WindowActive(b, b.item[m].session, b.item[m].turn)

USE DEF MessageStates, WindowStates

-----------------------------------------------------------------------------
\* Every nonempty set of messages has an oldest one.
LEMMA OldestIsLeast ==
    ASSUME NEW S \in SUBSET Messages, S # {}
    PROVE  Oldest(S) \in S /\ \A n \in S : Oldest(S) <= n
  <1>1. S \subseteq Nat
    BY OpsAssumption DEF Messages
  <1>2. PICK m \in S : \A n \in S : <<n, m>> \notin OpToRel(<, Nat)
    BY <1>1, NatLessThanWellFounded, WFMin
  <1>3. ASSUME NEW n \in S PROVE m <= n
    <2>1. <<n, m>> \in Nat \X Nat /\ <<n, m>>[1] = n /\ <<n, m>>[2] = m
      BY <1>1
    <2>2. ~(n < m)
      BY <1>2, <2>1, Zenon DEF OpToRel
    <2>3. QED
      BY <1>1, <2>2
  <1>4. QED
    BY <1>3 DEF Oldest

-----------------------------------------------------------------------------
\* What each locked section does to a sound buffer.

\* The empty buffer is sound and holds nothing.
LEMMA EmptySound == Sound(EmptyBuffer) /\ Present(EmptyBuffer) = {}
  BY OpsAssumption DEF Sound, EmptyBuffer, Buffer, Item, Window, Absent, NoWindow, Present

\* store: the new message joins the present ones, the evicted ones leave.
LEMMA StoreSound ==
    ASSUME NEW b \in Buffer, Sound(b), NEW m \in Messages
    PROVE  /\ Sound(Store(b, m))
           /\ Present(Store(b, m)) = (Present(b) \ Evicted(b)) \cup {m}
  <1>1. Store(b, m) \in Buffer
    BY DEF Store, Buffer, Item, Window, Absent, Queued
  <1>2. Store(b, m).window = b.window
    BY DEF Store
  <1>3. ASSUME NEW n \in Messages
        PROVE  Store(b, m).item[n] =
                 IF n = m THEN Queued ELSE IF n \in Evicted(b) THEN Absent ELSE b.item[n]
    BY DEF Store
  <1>4. QED
    BY <1>1, <1>2, <1>3 DEF Sound, Queued, Absent, Present, WindowActive

\* One item changes hands: the shape shared by the three assignments.
LEMMA WithItemSound ==
    ASSUME NEW b \in Buffer, Sound(b), NEW m \in Messages, NEW s \in Sessions,
           NEW t \in Turns \cup {0},
           NEW st \in {"session", "pending", "turn"},
           st = "turn" => WindowActive(b, s, t),
           m \in Present(b)
    PROVE  /\ Sound(WithItem(b, m, st, s, t))
           /\ Present(WithItem(b, m, st, s, t)) = Present(b)
  <1>1. WithItem(b, m, st, s, t) \in Buffer
    BY DEF WithItem, Buffer, Item, Window
  <1>2. WithItem(b, m, st, s, t).window = b.window
    BY DEF WithItem
  <1>3. ASSUME NEW n \in Messages
        PROVE  WithItem(b, m, st, s, t).item[n] =
                 IF n = m THEN [state |-> st, session |-> s, turn |-> t] ELSE b.item[n]
    BY DEF WithItem, Buffer
  <1>4. QED
    BY <1>1, <1>2, <1>3 DEF Sound, Present, WindowActive

\* begin_read: the session's messages go to the turn whose window it opens.
LEMMA BeginSound ==
    ASSUME NEW b \in Buffer, Sound(b), NEW s \in Sessions, NEW t \in Turns,
           CanBeginRead(b, s, t)
    PROVE  /\ Sound(BeginRead(b, s, t))
           /\ Present(BeginRead(b, s, t)) = Present(b)
  <1>1. BeginRead(b, s, t) \in Buffer
    BY DEF BeginRead, Buffer, Item, Window
  <1>2. ASSUME NEW r \in Sessions
        PROVE  BeginRead(b, s, t).window[r] =
                 IF r = s THEN [state |-> "active", turn |-> t] ELSE b.window[r]
    BY DEF BeginRead, Buffer
  <1>3. ASSUME NEW n \in Messages
        PROVE  BeginRead(b, s, t).item[n] =
                 IF b.item[n].session = s /\ b.item[n].state \in {"session", "pending"}
                 THEN [state |-> "turn", session |-> s, turn |-> t] ELSE b.item[n]
    BY DEF BeginRead
  <1>4. QED
    BY SMTT(60), <1>1, <1>2, <1>3 DEF Sound, Present, WindowActive, CanBeginRead

\* close_read: the window is closed and its turn owns nothing any more.
LEMMA CloseSound ==
    ASSUME NEW b \in Buffer, Sound(b), NEW s \in Sessions, NEW t \in Turns,
           HasWindow(b, s, t)
    PROVE  /\ Sound(CloseRead(b, s, t))
           /\ Present(CloseRead(b, s, t)) = Present(b)
  <1>1. CloseRead(b, s, t) \in Buffer
    BY DEF CloseRead, Buffer, Item, Window
  <1>2. ASSUME NEW r \in Sessions
        PROVE  CloseRead(b, s, t).window[r] =
                 IF r = s THEN [state |-> "closed", turn |-> t] ELSE b.window[r]
    BY DEF CloseRead, Buffer
  <1>3. ASSUME NEW n \in Messages
        PROVE  CloseRead(b, s, t).item[n] =
                 IF n \in Matching(b, s, t)
                 THEN [state |-> "pending", session |-> s, turn |-> 0] ELSE b.item[n]
    BY DEF CloseRead
  <1>4. QED
    BY <1>1, <1>2, <1>3 DEF Sound, Present, WindowActive, HasWindow, Matching

\* consume_for_read: the messages of the turn leave, and only they.
LEMMA ConsumeSound ==
    ASSUME NEW b \in Buffer, Sound(b), NEW s \in Sessions, NEW t \in Turns,
           HasWindow(b, s, t)
    PROVE  /\ Sound(Consume(b, s, t))
           /\ Present(Consume(b, s, t)) = Present(b) \ Matching(b, s, t)
  <1>1. Consume(b, s, t) \in Buffer
    BY OpsAssumption DEF Consume, Buffer, Item, Window, Absent
  <1>2. ASSUME NEW r \in Sessions
        PROVE  Consume(b, s, t).window[r] =
                 IF r = s THEN [state |-> "closed", turn |-> t] ELSE b.window[r]
    BY DEF Consume, Buffer
  <1>3. ASSUME NEW n \in Messages
        PROVE  Consume(b, s, t).item[n] =
                 IF n \in Matching(b, s, t) THEN Absent ELSE b.item[n]
    BY DEF Consume
  <1>4. QED
    BY SMTT(60), <1>1, <1>2, <1>3 DEF Sound, Present, WindowActive, HasWindow, Matching, Absent

\* flush_to_wake: every message is queued again and no window is left.
LEMMA FlushSound ==
    ASSUME NEW b \in Buffer
    PROVE  Sound(Flush(b)) /\ Present(Flush(b)) = Present(b)
  <1>1. Flush(b) \in Buffer
    BY DEF Flush, Buffer, Item, Window, Absent, Queued, NoWindow
  <1>2. ASSUME NEW n \in Messages
        PROVE  Flush(b).item[n] = IF b.item[n].state = "absent" THEN Absent ELSE Queued
    BY DEF Flush
  <1>3. QED
    BY <1>1, <1>2 DEF Sound, Present, Absent, Queued

-----------------------------------------------------------------------------
\* The inductive invariant: the buffer is sound, the histories agree with it,
\* and no wakeup, no signal and no stop is lost.
IInv == TypeOK /\ Sound(buf) /\ NoLostWakeup /\ QueuedIsSignalled /\ StoppedIsQuiet

\* It holds initially.
LEMMA InitIInv == Init => IInv
  <1> SUFFICES ASSUME Init PROVE IInv
    OBVIOUS
  <1>1. Sound(buf) /\ Present(buf) = {}
    BY EmptySound DEF Init
  <1>2. TypeOK
    BY <1>1 DEF Init, TypeOK, Sound, NoReader, ReaderPhases, Fates
  <1>3. NoLostWakeup /\ StoppedIsQuiet
    BY DEF Init, NoLostWakeup, StoppedIsQuiet, NoReader
  <1>4. QueuedIsSignalled
    BY <1>1 DEF QueuedIsSignalled, Present
  <1>5. QED
    BY <1>1, <1>2, <1>3, <1>4 DEF IInv

\* Waking everybody leaves a reader of the right type that is not asleep.
LEMMA NotifyAllWakes ==
    ASSUME TypeOK, NotifyAll
    PROVE  /\ reader'.phase # "waiting"
           /\ reader' \in [phase : ReaderPhases, session : Sessions \cup {NoSession},
                           turn : Turns \cup {0}]
           /\ reader'.phase # "idle" => reader'.session \in Sessions /\ reader'.turn \in Turns
  BY DEF TypeOK, NotifyAll, ReaderPhases

\* An owner's call that keeps the messages, queues none anew, and wakes the
\* reader unless it changes nothing, keeps the invariant.
LEMMA OwnerCall ==
    ASSUME IInv, Sound(buf'), Present(buf') = Present(buf),
           \A m \in Messages : buf'.item[m].state = "queued" => buf.item[m].state = "queued",
           NotifyAll \/ (NotifyNobody /\ buf' = buf),
           UNCHANGED <<source, ingest, flushing, signalled, fate>>
    PROVE  IInv'
  <1>1. TypeOK'
    <2>1. /\ reader' \in [phase : ReaderPhases, session : Sessions \cup {NoSession},
                           turn : Turns \cup {0}]
          /\ reader'.phase # "idle" => reader'.session \in Sessions /\ reader'.turn \in Turns
      BY NotifyAllWakes DEF IInv, TypeOK, NotifyNobody
    <2>2. QED
      BY <2>1 DEF IInv, TypeOK, Sound
  <1>2. NoLostWakeup'
    BY NotifyAllWakes DEF IInv, NoLostWakeup, NotifyNobody
  <1>3. QueuedIsSignalled' /\ StoppedIsQuiet'
    BY DEF IInv, QueuedIsSignalled, StoppedIsQuiet
  <1>4. QED
    BY <1>1, <1>2, <1>3 DEF IInv

\* Emptying the buffer and waking the reader keeps the invariant.
LEMMA Emptied ==
    ASSUME IInv, buf' = EmptyBuffer, NotifyAll,
           fate' = [m \in Messages |-> IF fate[m] = "held" THEN "discarded" ELSE fate[m]],
           source' \in {"new", "started", "stopped"},
           source' = "stopped" => ingest = 0,
           UNCHANGED <<ingest, flushing, signalled>>
    PROVE  IInv'
  <1>1. Sound(buf') /\ Present(buf') = {}
    BY EmptySound
  <1>2. TypeOK'
    <2>1. fate' \in [Messages -> Fates] /\ \A m \in Messages : fate'[m] # "held"
      BY DEF IInv, TypeOK, Fates
    <2>2. QED
      BY <1>1, <2>1, NotifyAllWakes DEF IInv, TypeOK, Sound
  <1>3. NoLostWakeup'
    BY NotifyAllWakes DEF IInv, NoLostWakeup
  <1>4. QueuedIsSignalled'
    BY <1>1 DEF QueuedIsSignalled, Present
  <1>5. StoppedIsQuiet'
    BY <1>1 DEF StoppedIsQuiet
  <1>6. QED
    BY <1>1, <1>2, <1>3, <1>4, <1>5 DEF IInv

\* A step of the reader alone, which falls asleep only with nothing to take.
LEMMA ReaderAlone ==
    ASSUME IInv,
           reader' \in [phase : ReaderPhases, session : Sessions \cup {NoSession},
                        turn : Turns \cup {0}],
           reader'.phase # "idle" => reader'.session \in Sessions /\ reader'.turn \in Turns,
           reader'.phase = "waiting" =>
               /\ WindowActive(buf, reader'.session, reader'.turn)
               /\ Matching(buf, reader'.session, reader'.turn) = {},
           UNCHANGED <<buf, source, ingest, flushing, signalled, fate>>
    PROVE  IInv'
  <1>1. TypeOK'
    BY DEF IInv, TypeOK
  <1>2. Sound(buf)' /\ NoLostWakeup' /\ QueuedIsSignalled' /\ StoppedIsQuiet'
    BY DEF IInv, Sound, NoLostWakeup, QueuedIsSignalled, StoppedIsQuiet
  <1>3. QED
    BY <1>1, <1>2 DEF IInv

\* The steps of the source keep it.
LEMMA SourceStep == ASSUME IInv, SourceNext PROVE IInv'
  <1> USE DEF IInv
  <1>1. CASE StartSource
    <2>1. TypeOK'
      BY <1>1 DEF StartSource, TypeOK
    <2>2. Sound(buf)' /\ NoLostWakeup' /\ QueuedIsSignalled' /\ StoppedIsQuiet'
      BY <1>1 DEF StartSource, Sound, NoLostWakeup, QueuedIsSignalled, StoppedIsQuiet
    <2>3. QED
      BY <2>1, <2>2
  <1>2. CASE StopSource
    BY <1>2, Emptied DEF StopSource, StopUnlocked, TypeOK
  <1>3. CASE IngestPublish
    <2>1. TypeOK'
      BY <1>3 DEF IngestPublish, TypeOK
    <2>2. Sound(buf)' /\ NoLostWakeup' /\ QueuedIsSignalled' /\ StoppedIsQuiet'
      BY <1>3 DEF IngestPublish, Sound, NoLostWakeup, QueuedIsSignalled, StoppedIsQuiet
    <2>3. QED
      BY <2>1, <2>2
  <1>4. ASSUME NEW m \in Messages, IngestStore(m) PROVE IInv'
    <2>1. /\ Sound(buf')
          /\ Present(buf') = (Present(buf) \ Evicted(buf)) \cup {m}
      BY <1>4, StoreSound DEF IngestStore, TypeOK
    <2>2. \A n \in Messages : buf'.item[n] =
             IF n = m THEN Queued ELSE IF n \in Evicted(buf) THEN Absent ELSE buf.item[n]
      BY <1>4 DEF IngestStore, Store
    <2>3. fate' \in [Messages -> Fates] /\ \A n \in Messages : fate'[n] =
             IF n = m THEN "held" ELSE IF n \in Evicted(buf) THEN "evicted" ELSE fate[n]
      BY <1>4 DEF IngestStore, TypeOK, Fates
    <2>4. TypeOK'
      <3>1. \A n \in Messages : fate'[n] = "held" <=> n \in Present(buf')
        BY <2>1, <2>3 DEF TypeOK
      <3>2. QED
        BY <1>4, <2>1, <2>3, <3>1, NotifyAllWakes DEF IngestStore, TypeOK, Sound
    <2>5. NoLostWakeup' /\ StoppedIsQuiet'
      BY <1>4, NotifyAllWakes DEF IngestStore, NoLostWakeup, StoppedIsQuiet
    <2>6. QueuedIsSignalled'
      <3>1. 0 \notin Messages
        BY DEF Messages
      <3>2. QED
        BY <1>4, <2>2, <3>1 DEF IngestStore, QueuedIsSignalled, Absent
    <2>7. QED
      BY <2>1, <2>4, <2>5, <2>6
  <1>5. QED
    BY <1>1, <1>2, <1>3, <1>4 DEF SourceNext

\* The operations of the owner keep it.
LEMMA OwnerStep == ASSUME IInv, OwnerNext PROVE IInv'
  <1> USE DEF IInv
  <1>1. CASE Discard
    BY <1>1, Emptied DEF Discard, TypeOK, StoppedIsQuiet
  <1>2. CASE FlushToWake
    <2>1. Sound(buf') /\ Present(buf') = Present(buf)
      BY <1>2, FlushSound DEF FlushToWake, TypeOK
    <2>2. TypeOK'
      BY <1>2, <2>1, NotifyAllWakes DEF FlushToWake, TypeOK, Sound, Present
    <2>3. NoLostWakeup' /\ StoppedIsQuiet'
      BY <1>2, <2>1, NotifyAllWakes DEF FlushToWake, NoLostWakeup, StoppedIsQuiet
    <2>4. QueuedIsSignalled'
      BY <1>2, <2>1 DEF FlushToWake, QueuedIsSignalled, Present
    <2>5. QED
      BY <2>1, <2>2, <2>3, <2>4
  <1>3. CASE FlushPublish
    <2>1. TypeOK'
      BY <1>3, OldestIsLeast DEF FlushPublish, TypeOK
    <2>2. Sound(buf)' /\ NoLostWakeup' /\ QueuedIsSignalled' /\ StoppedIsQuiet'
      BY <1>3 DEF FlushPublish, Sound, NoLostWakeup, QueuedIsSignalled, StoppedIsQuiet
    <2>3. QED
      BY <2>1, <2>2
  <1>4. ASSUME NEW m \in Messages, NEW s \in Sessions, Assign(m, s) PROVE IInv'
    <2>1. m \in Present(buf)
      BY <1>4 DEF Assign, CanAssignToSession, Present
    <2>2. buf' = WithItem(buf, m, "session", s, 0)
      BY <1>4 DEF Assign, AssignToSession
    <2>3. Sound(buf') /\ Present(buf') = Present(buf)
      BY <2>1, <2>2, WithItemSound DEF TypeOK
    <2>4. \A n \in Messages : buf'.item[n].state = "queued" => buf.item[n].state = "queued"
      BY <2>2 DEF WithItem, TypeOK, Buffer
    <2>5. QED
      BY <1>4, <2>3, <2>4, OwnerCall DEF Assign
  <1>5. ASSUME NEW m \in Messages, NEW s \in Sessions, Pend(m, s) PROVE IInv'
    <2>1. m \in Present(buf)
      BY <1>5 DEF Pend, CanMarkPending, OwnedOrFree, Present
    <2>2. buf' = WithItem(buf, m, "pending", s, 0)
      BY <1>5 DEF Pend, MarkPending
    <2>3. Sound(buf') /\ Present(buf') = Present(buf)
      BY <2>1, <2>2, WithItemSound DEF TypeOK
    <2>4. \A n \in Messages : buf'.item[n].state = "queued" => buf.item[n].state = "queued"
      BY <2>2 DEF WithItem, TypeOK, Buffer
    <2>5. QED
      BY <1>5, <2>3, <2>4, OwnerCall DEF Pend
  <1>6. ASSUME NEW m \in Messages, NEW s \in Sessions, NEW t \in Turns, Give(m, s, t)
        PROVE  IInv'
    <2>1. m \in Present(buf)
      BY <1>6 DEF Give, CanAssignToTurn, OwnedOrFree, Present, Matching
    <2>2. \/ WindowActive(buf, s, t) /\ buf' = WithItem(buf, m, "turn", s, t)
          \/ buf' = WithItem(buf, m, "pending", s, 0)
      BY <1>6 DEF Give, AssignToTurn
    <2>3. Sound(buf') /\ Present(buf') = Present(buf)
      BY <2>1, <2>2, WithItemSound DEF TypeOK
    <2>4. \A n \in Messages : buf'.item[n].state = "queued" => buf.item[n].state = "queued"
      BY <2>2 DEF WithItem, TypeOK, Buffer
    <2>5. CASE m \in Matching(buf, s, t)
      <3>1. WindowActive(buf, s, t)
        BY <2>5 DEF Sound, Matching
      <3>2. buf.item[m] = [state |-> "turn", session |-> s, turn |-> t]
        BY <2>5 DEF TypeOK, Buffer, Item, Matching
      <3>3. buf' = buf
        BY <1>6, <3>1, <3>2 DEF Give, AssignToTurn, WithItem, TypeOK, Buffer
      <3>4. QED
        BY <1>6, <2>3, <2>4, <2>5, <3>3, OwnerCall DEF Give
    <2>6. CASE m \notin Matching(buf, s, t)
      BY <1>6, <2>3, <2>4, <2>6, OwnerCall DEF Give
    <2>7. QED
      BY <2>5, <2>6
  <1>7. ASSUME NEW s \in Sessions, NEW t \in Turns, Begin(s, t) PROVE IInv'
    <2>1. Sound(buf') /\ Present(buf') = Present(buf)
      BY <1>7, BeginSound DEF Begin, TypeOK
    <2>2. \A n \in Messages : buf'.item[n].state = "queued" => buf.item[n].state = "queued"
      BY <1>7 DEF Begin, BeginRead
    <2>3. QED
      BY <1>7, <2>1, <2>2, OwnerCall DEF Begin
  <1>8. ASSUME NEW s \in Sessions, NEW t \in Turns, Close(s, t) PROVE IInv'
    <2>1. Sound(buf') /\ Present(buf') = Present(buf)
      BY <1>8, CloseSound DEF Close, CanCloseRead, TypeOK
    <2>2. \A n \in Messages : buf'.item[n].state = "queued" => buf.item[n].state = "queued"
      BY <1>8 DEF Close, CloseRead
    <2>3. QED
      BY <1>8, <2>1, <2>2, OwnerCall DEF Close
  <1>9. QED
    BY <1>1, <1>2, <1>3, <1>4, <1>5, <1>6, <1>7, <1>8 DEF OwnerNext

\* The steps of a read keep it.
LEMMA ReaderStep == ASSUME IInv, ReaderNext PROVE IInv'
  <1> USE DEF IInv
  <1>1. CASE ReadTake
    <2>1. HasWindow(buf, reader.session, reader.turn)
          /\ reader.session \in Sessions /\ reader.turn \in Turns
      BY <1>1 DEF ReadTake, TypeOK
    <2> DEFINE taken == Matching(buf, reader.session, reader.turn)
    <2>2. Sound(buf') /\ Present(buf') = Present(buf) \ taken
      BY <1>1, <2>1, ConsumeSound DEF ReadTake, TypeOK
    <2>3. fate' \in [Messages -> Fates] /\ \A m \in Messages : fate'[m] =
             IF m \in taken THEN "delivered" ELSE fate[m]
      BY <1>1 DEF ReadTake, TypeOK, Fates
    <2>4. TypeOK'
      <3>1. \A m \in Messages : fate'[m] = "held" <=> m \in Present(buf')
        BY <2>2, <2>3 DEF TypeOK
      <3>2. QED
        BY <1>1, <2>2, <2>3, <3>1 DEF ReadTake, TypeOK, Sound, NoReader, ReaderPhases
    <2>5. NoLostWakeup' /\ StoppedIsQuiet'
      BY <1>1, <2>2 DEF ReadTake, NoReader, NoLostWakeup, StoppedIsQuiet
    <2>6. QueuedIsSignalled'
      BY <1>1 DEF ReadTake, Consume, QueuedIsSignalled, Absent
    <2>7. QED
      BY <2>2, <2>4, <2>5, <2>6
  <1>2. CASE ReadEmpty
    BY <1>2, ReaderAlone DEF ReadEmpty, NoReader, ReaderPhases
  <1>3. CASE ReadWait
    BY <1>3, ReaderAlone DEF ReadWait, TypeOK, ReaderPhases
  <1>4. CASE ReadRestore
    <2>1. reader.session \in Sessions /\ reader.turn \in Turns
      BY <1>4 DEF ReadRestore, TypeOK
    <2>2. /\ Sound(buf') /\ Present(buf') = Present(buf)
          /\ \A n \in Messages : buf'.item[n].state = "queued" => buf.item[n].state = "queued"
      <3>1. CASE HasWindow(buf, reader.session, reader.turn)
        BY <1>4, <2>1, <3>1, CloseSound DEF ReadRestore, RestoreAfterRead, CloseRead, TypeOK
      <3>2. CASE ~HasWindow(buf, reader.session, reader.turn)
        BY <1>4, <3>2 DEF ReadRestore, RestoreAfterRead
      <3>3. QED
        BY <3>1, <3>2
    <2>3. TypeOK'
      BY <1>4, <2>2 DEF ReadRestore, TypeOK, Sound, NoReader, ReaderPhases
    <2>4. NoLostWakeup' /\ StoppedIsQuiet' /\ QueuedIsSignalled'
      BY <1>4, <2>2 DEF ReadRestore, NoReader, NoLostWakeup, StoppedIsQuiet, QueuedIsSignalled
    <2>5. QED
      BY <2>2, <2>3, <2>4
  <1>5. CASE ReadExpire
    BY <1>5, ReaderAlone DEF ReadExpire, TypeOK, ReaderPhases
  <1>6. ASSUME NEW s \in Sessions, NEW t \in Turns, ReadStart(s, t) PROVE IInv'
    BY <1>6, ReaderAlone DEF ReadStart, ReaderPhases
  <1>7. QED
    BY <1>1, <1>2, <1>3, <1>4, <1>5, <1>6 DEF ReaderNext, ReadStep

\* Every step keeps it.
LEMMA NextIInv == IInv /\ [Next]_vars => IInv'
  <1> SUFFICES ASSUME IInv, [Next]_vars PROVE IInv'
    OBVIOUS
  <1>1. CASE Next
    BY <1>1, SourceStep, OwnerStep, ReaderStep DEF Next
  <1>2. CASE UNCHANGED vars
    BY <1>2 DEF vars, IInv, TypeOK, Sound, NoLostWakeup, QueuedIsSignalled, StoppedIsQuiet
  <1>3. QED
    BY <1>1, <1>2

\* Every reachable state satisfies it.
LEMMA Invariance == Spec => []IInv
  BY InitIInv, NextIInv, PTL DEF Spec

\* The state has its type and the fates of the messages agree with _items.
THEOREM TypeCorrect == Spec => []TypeOK
  BY Invariance, PTL DEF IInv

\* No message is stranded in the hands of a turn whose window is not open.
THEOREM NoStrandedMessage == Spec => []TurnHasActiveWindow
  <1>1. IInv => TurnHasActiveWindow
    BY DEF IInv, Sound, TurnHasActiveWindow
  <1>2. QED
    BY <1>1, Invariance, PTL

\* A reader asleep on the condition has nothing to take.
THEOREM WakeupsReachTheReader == Spec => []NoLostWakeup
  BY Invariance, PTL DEF IInv

\* A queued message has been, or will be, announced to its owner.
THEOREM QueuedMessagesAreSignalled == Spec => []QueuedIsSignalled
  BY Invariance, PTL DEF IInv

\* Nothing is stranded: not with a turn, not beside a sleeping reader, not in the queue.
THEOREM NothingIsStranded == Spec => []NothingStranded
  <1>1. IInv => NothingStranded
    BY DEF IInv, Sound, TurnHasActiveWindow, NothingStranded
  <1>2. QED
    BY <1>1, Invariance, PTL

\* After stop() nothing is kept and no ingest is half done.
THEOREM StopIsComplete == Spec => []StoppedIsQuiet
  BY Invariance, PTL DEF IInv

-----------------------------------------------------------------------------
\* The messages present are finitely many.
LEMMA PresentFinite ==
    ASSUME NEW b
    PROVE  IsFiniteSet(Present(b)) /\ Cardinality(Present(b)) \in Nat
  <1>1. IsFiniteSet(Messages)
    BY OpsAssumption, FS_Interval DEF Messages
  <1>2. QED
    BY <1>1, FS_Subset, FS_CardinalityType DEF Present

\* One element more makes a set at most one larger.
LEMMA OneMore ==
    ASSUME NEW S, NEW x, IsFiniteSet(S)
    PROVE  /\ Cardinality(S) \in Nat /\ Cardinality(S \cup {x}) \in Nat
           /\ Cardinality(S \cup {x}) <= Cardinality(S) + 1
  <1>1. Cardinality(S) \in Nat
    BY FS_CardinalityType
  <1>2. CASE x \in S
    <2>1. S \cup {x} = S
      BY <1>2
    <2>2. QED
      BY <1>1, <2>1
  <1>3. CASE x \notin S
    <2>1. Cardinality(S \cup {x}) = Cardinality(S) + 1
      BY <1>3, FS_AddElement, Zenon
    <2>2. QED
      BY <1>1, <2>1
  <1>4. QED
    BY <1>2, <1>3

\* The mailbox counts with the same Cardinality.
LEMMA MailboxCounts == \A S : Mailbox!Cardinality(S) = Cardinality(S)
  BY DEF Mailbox!Cardinality, Cardinality

\* What the mailbox holds is what the buffer holds.
LEMMA HeldIsPresent == ASSUME TypeOK PROVE Mailbox!Held = Present(buf)
  <1>1. Mailbox!Ids = Messages
    BY DEF Mailbox!Ids, Messages
  <1>2. \A m \in Messages :
            MailboxStatus(m) \in {"waiting", "reserved"} <=> m \in Present(buf)
    BY DEF TypeOK, MailboxStatus, Fates, Present
  <1>3. QED
    BY <1>1, <1>2 DEF Mailbox!Held, Mailbox!In, Present

\* A full buffer that accepts a message has an oldest one that no read owns.
LEMMA EvictedIsOldest ==
    ASSUME CanStore(buf), Full(buf)
    PROVE  /\ Evicted(buf) = {Oldest(Evictable(buf))}
           /\ Oldest(Evictable(buf)) \in Evictable(buf)
           /\ \A n \in Evictable(buf) : Oldest(Evictable(buf)) <= n
  <1>1. Evictable(buf) \in SUBSET Messages /\ Evictable(buf) # {}
    BY DEF CanStore, Evictable, Present
  <1>2. QED
    BY <1>1, OldestIsLeast DEF Evicted

-----------------------------------------------------------------------------
\* Each kind of step is a step of the mailbox.

\* When no fate changes, messages are only reserved and released.
LEMMA FatesUnchanged ==
    ASSUME TypeOK, TypeOK', fate' = fate
    PROVE  Mailbox!MailboxNext
  <1> DEFINE S == {m \in Present(buf) : buf'.item[m].state = "turn"}
  <1>1. Mailbox!Ids = Messages
    BY DEF Mailbox!Ids, Messages
  <1>2. S \in SUBSET Mailbox!Held
    BY HeldIsPresent
  <1>3. \A m \in Messages :
            MailboxStatus(m)' = IF m \notin Present(buf) THEN MailboxStatus(m)
                                ELSE IF m \in S THEN "reserved" ELSE "waiting"
    BY DEF TypeOK, MailboxStatus, Fates, Present
  <1>4. Mailbox!Reserve(S)
    BY <1>1, <1>3, HeldIsPresent DEF Mailbox!Reserve
  <1>5. QED
    BY <1>2, <1>4 DEF Mailbox!MailboxNext

\* A message that is stored is accepted.
LEMMA StoreAccepts ==
    ASSUME IInv, IInv', NEW m \in Messages, IngestStore(m)
    PROVE  Mailbox!MailboxNext
  <1> USE DEF IInv
  <1> DEFINE D == Evicted(buf)
  <1>1. Mailbox!Ids = Messages
    BY DEF Mailbox!Ids, Messages
  <1>2. Mailbox!In({"waiting"}) = Evictable(buf)
    BY <1>1 DEF Mailbox!In, Evictable, Present, MailboxStatus, TypeOK, Fates
  <1>3. MailboxStatus(m) = "new" /\ \A n \in Messages : n < m => MailboxStatus(n) # "new"
    BY DEF IngestStore, Accepted, MailboxStatus, TypeOK, Fates
  <1>4. \/ D = {} /\ Cardinality(Present(buf)) < MaxItems
        \/ /\ Cardinality(Present(buf)) >= MaxItems
           /\ \E d \in Evictable(buf) : D = {d} /\ \A n \in Evictable(buf) : d <= n
    <2>1. CASE Full(buf)
      BY <2>1, EvictedIsOldest DEF IngestStore, Full
    <2>2. CASE ~Full(buf)
      BY <2>2, PresentFinite, OpsAssumption DEF Full, Evicted
    <2>3. QED
      BY <2>1, <2>2
  <1>5. D \subseteq Evictable(buf) /\ D \in SUBSET Messages
    BY <1>4 DEF Evictable, Present
  <1>6. \A n \in Messages :
            /\ fate'[n] = IF n = m THEN "held" ELSE IF n \in D THEN "evicted" ELSE fate[n]
            /\ buf'.item[n] = IF n = m THEN Queued ELSE IF n \in D THEN Absent
                              ELSE buf.item[n]
    BY DEF IngestStore, Store
  <1>7. \A n \in Messages :
            MailboxStatus(n)' = IF n = m THEN "waiting"
                                ELSE IF n \in D THEN "dropped" ELSE MailboxStatus(n)
    BY <1>6 DEF MailboxStatus, Queued
  <1>8. Mailbox!Accept(m, D)
    BY <1>1, <1>2, <1>3, <1>4, <1>5, <1>7, HeldIsPresent,
       MailboxCounts DEF Mailbox!Accept
  <1>9. QED
    BY <1>1, <1>5, <1>8 DEF Mailbox!MailboxNext

\* A read that takes its messages delivers them.
LEMMA TakeDelivers ==
    ASSUME IInv, ReadTake
    PROVE  Mailbox!MailboxNext
  <1> USE DEF IInv
  <1> DEFINE S == Matching(buf, reader.session, reader.turn)
  <1>1. Mailbox!Ids = Messages
    BY DEF Mailbox!Ids, Messages
  <1>2. S \in SUBSET Mailbox!In({"reserved"}) /\ S # {}
    BY <1>1 DEF ReadTake, Matching, Mailbox!In, MailboxStatus, TypeOK, Present
  <1>3. \A n \in Messages :
            /\ fate'[n] = IF n \in S THEN "delivered" ELSE fate[n]
            /\ n \notin S => buf'.item[n] = buf.item[n]
    BY DEF ReadTake, Consume
  <1>4. \A n \in Messages :
            MailboxStatus(n)' = IF n \in S THEN "delivered" ELSE MailboxStatus(n)
    BY <1>3 DEF MailboxStatus
  <1>5. Mailbox!Deliver(S)
    BY <1>1, <1>2, <1>4 DEF Mailbox!Deliver
  <1>6. QED
    BY <1>2, <1>5 DEF Mailbox!MailboxNext

\* Emptying the buffer clears the mailbox.
LEMMA EmptyingClears ==
    ASSUME TypeOK,
           fate' = [m \in Messages |-> IF fate[m] = "held" THEN "discarded" ELSE fate[m]]
    PROVE  Mailbox!MailboxNext
  <1>1. Mailbox!Ids = Messages
    BY DEF Mailbox!Ids, Messages
  <1>2. \A n \in Messages :
            MailboxStatus(n)' = IF n \in Present(buf) THEN "dropped" ELSE MailboxStatus(n)
    BY DEF MailboxStatus, TypeOK, Fates
  <1>3. Mailbox!Clear
    BY <1>1, <1>2, HeldIsPresent DEF Mailbox!Clear
  <1>4. QED
    BY <1>3 DEF Mailbox!MailboxNext

\* Every step of the buffer is a step of the mailbox.
LEMMA StepRefines == IInv /\ IInv' /\ [Next]_vars => Mailbox!MailboxNext
  <1> SUFFICES ASSUME IInv, IInv', [Next]_vars PROVE Mailbox!MailboxNext
    OBVIOUS
  <1> USE DEF IInv
  <1>1. CASE fate' = fate
    BY <1>1, FatesUnchanged
  <1>2. CASE \E m \in Messages : IngestStore(m)
    BY <1>2, StoreAccepts
  <1>3. CASE ReadTake
    BY <1>3, TakeDelivers
  <1>4. CASE StopSource \/ Discard
    BY <1>4, EmptyingClears DEF StopSource, StopUnlocked, Discard
  <1>5. QED
    <2>1. CASE SourceNext
      BY <2>1, <1>1, <1>2, <1>4 DEF SourceNext, StartSource, IngestPublish
    <2>2. CASE OwnerNext
      BY <2>2, <1>1, <1>4
      DEF OwnerNext, FlushToWake, FlushPublish, Assign, Pend, Give, Begin, Close
    <2>3. CASE ReaderNext
      BY <2>3, <1>1, <1>3
      DEF ReaderNext, ReadStep, ReadEmpty, ReadWait, ReadRestore, ReadExpire, ReadStart
    <2>4. CASE UNCHANGED vars
      BY <2>4, <1>1 DEF vars
    <2>5. QED
      BY <2>1, <2>2, <2>3, <2>4 DEF Next

\* The buffer implements the mailbox: every message is accepted once, delivered at
\* most once, never evicted while a read owns it, and evicted oldest first.
THEOREM BufferImplementsMailbox == Spec => ImplementsMailbox
  <1>1. Init => Mailbox!MailboxInit
    BY DEF Init, Mailbox!MailboxInit, Mailbox!Ids, Messages, MailboxStatus
  <1>2. QED
    BY <1>1, StepRefines, Invariance, PTL DEF Spec, ImplementsMailbox, Mailbox!MailboxSpec

-----------------------------------------------------------------------------
\* The capacity is a step invariant: a store replaces a message or adds one to a
\* buffer that is not full.
LEMMA CapacityKept ==
    ASSUME IInv, IInv', WithinCapacity, [Next]_vars PROVE WithinCapacity'
  <1> USE DEF IInv
  <1>1. CASE Present(buf') \subseteq Present(buf)
    BY <1>1, PresentFinite, FS_Subset, FS_CardinalityType, OpsAssumption DEF WithinCapacity
  <1>2. ASSUME NEW m \in Messages, IngestStore(m) PROVE WithinCapacity'
    <2>1. Present(buf') = (Present(buf) \ Evicted(buf)) \cup {m}
      BY <1>2, StoreSound DEF IngestStore, TypeOK
    <2>2. CASE Full(buf)
      <3> DEFINE d == Oldest(Evictable(buf))
      <3>1. Evicted(buf) = {d} /\ d \in Present(buf)
        BY <1>2, <2>2, EvictedIsOldest DEF IngestStore, Evictable
      <3>2. /\ IsFiniteSet(Present(buf) \ {d})
            /\ Cardinality(Present(buf) \ {d}) = Cardinality(Present(buf)) - 1
        BY <3>1, PresentFinite, FS_RemoveElement
      <3>3. Cardinality(Present(buf')) <= Cardinality(Present(buf) \ {d}) + 1
        BY <2>1, <3>1, <3>2, OneMore
      <3>4. Cardinality(Present(buf)) \in Nat /\ Cardinality(Present(buf')) \in Nat
        BY PresentFinite
      <3>5. QED
        BY <3>2, <3>3, <3>4, OpsAssumption DEF WithinCapacity
    <2>3. CASE ~Full(buf)
      <3>1. Cardinality(Present(buf')) <= Cardinality(Present(buf)) + 1
        <4>1. Present(buf') = Present(buf) \cup {m}
          BY <2>1, <2>3 DEF Evicted
        <4>2. QED
          BY <4>1, PresentFinite, OneMore
      <3>2. Cardinality(Present(buf)) \in Nat /\ Cardinality(Present(buf')) \in Nat
        BY PresentFinite
      <3>3. QED
        BY <2>3, <3>1, <3>2, OpsAssumption DEF Full, WithinCapacity
    <2>4. QED
      BY <2>2, <2>3
  <1>3. CASE \A m \in Messages : ~IngestStore(m)
    <2>1. \A m \in Messages : fate'[m] = "held" => fate[m] = "held"
      BY <1>3 DEF Next, SourceNext, OwnerNext, ReaderNext, ReadStep, vars, TypeOK,
                  StartSource, StopSource, StopUnlocked, IngestPublish, Discard,
                  FlushToWake, FlushPublish, Assign, Pend, Give, Begin, Close,
                  ReadTake, ReadEmpty, ReadWait, ReadRestore, ReadExpire, ReadStart
    <2>2. Present(buf') \subseteq Present(buf)
      BY <2>1 DEF TypeOK, Present
    <2>3. QED
      BY <2>2, <1>1
  <1>4. QED
    BY <1>2, <1>3

\* The buffer never holds more than max_items messages.
THEOREM CapacityHolds == Spec => []WithinCapacity
  <1>1. Init => WithinCapacity
    BY EmptySound, FS_EmptySet, OpsAssumption DEF Init, WithinCapacity
  <1>2. QED
    BY <1>1, CapacityKept, Invariance, PTL DEF Spec

\* A read that timed out or was cancelled leaves nothing in the hands of its turn.
THEOREM ExpiredReadsRelease == Spec => ExpiredReadReleases
  <1>1. ASSUME IInv, [Next]_vars, reader.phase = "expired", reader'.phase = "idle"
        PROVE  Matching(buf', reader.session, reader.turn) = {}
    <2>1. ReadRestore
      BY <1>1 DEF Next, SourceNext, OwnerNext, ReaderNext, ReadStep, vars, NotifyAll,
                  NotifyNobody, StartSource, StopSource, StopUnlocked, IngestStore,
                  IngestPublish, Discard, FlushToWake, FlushPublish, Assign, Pend, Give,
                  Begin, Close, ReadTake, ReadEmpty, ReadWait, ReadExpire, ReadStart
    <2>2. CASE HasWindow(buf, reader.session, reader.turn)
      BY <2>1, <2>2 DEF ReadRestore, RestoreAfterRead, CloseRead, Matching
    <2>3. CASE ~HasWindow(buf, reader.session, reader.turn)
      BY <1>1, <2>1, <2>3
      DEF IInv, Sound, ReadRestore, RestoreAfterRead, Matching, WindowActive, HasWindow
    <2>4. QED
      BY <2>2, <2>3
  <1>2. QED
    BY <1>1, Invariance, PTL DEF Spec, ExpiredReadReleases
=============================================================================
