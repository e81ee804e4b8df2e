---------------------------- MODULE ReadingEvents ----------------------------
(***************************************************************************)
(* One person reads one file in several browsers.  Every turn of a page is *)
(* an event, stamped with the device's sequence number, kept in an outbox  *)
(* in the browser, sent until the server has answered for it, and only     *)
(* then removed.  A device sends from an open reader (useReadingEventSync) *)
(* and from its background recovery (useReadingOutboxRecovery); readers    *)
(* hold a shared web lock on the file, which keeps the recovery off it.    *)
(*                                                                         *)
(* A request may be lost, its answer may be lost, and a request its sender *)
(* has given up may still arrive: it is then from Nobody.                  *)
(***************************************************************************)
EXTENDS CanonicalReading, Sequences, FiniteSets, SequencesExt

CONSTANTS
  Readers,          \* tabs that can open the file
  DeviceOf,         \* the browser of each tab
  Nobody,           \* the sender of a request nobody waits for any more
  Batch,            \* events of one flush (20)
  Limit,            \* events an outbox holds (512 of one person)
  \* Bounds of the model.
  MaxEvents,        \* events of each device
  MaxTime,          \* readings of the clock
  MaxCorrections,   \* clocks set back
  MaxOpens,         \* readers opened
  MaxResets,        \* progress cleared
  MaxFailures,      \* requests or answers lost or timed out
  MaxRefusals       \* requests refused: signed out, no access, moved

ASSUME ReadersAssumption ==
  /\ DeviceOf \in [Readers -> Devices]
  /\ Batch \in Nat \ {0} /\ Limit \in Nat \ {0}
  /\ Readers \cap Devices = {} /\ Nobody \notin Readers \cup Devices
  /\ MaxEvents \in [Devices -> Nat] /\ MaxTime \in Nat /\ MaxCorrections \in Nat
  /\ MaxOpens \in Nat /\ MaxResets \in Nat /\ MaxFailures \in Nat /\ MaxRefusals \in Nat

VARIABLES
  server,       \* the tables of CanonicalReading
  reader,       \* each tab: open, the generation it knows, whether a flush is due
  capture,      \* each tab: the event being stamped and stored, if any
  kept,         \* each tab: the event the full outbox did not take, if any
  device,       \* each browser: its last sequence number and its clock
  outbox,       \* each browser: the events in IndexedDB, oldest first
  send,         \* each flush: its stage, what is left of its batch, the answer
  blocked,      \* flushes that wait for somebody to press Retry
  wire,         \* requests on their way
  written,      \* all events an outbox ever took
  spent         \* what is used up of the bounds

vars == <<server, reader, capture, kept, device, outbox, send, blocked, wire, written, spent>>
pages == <<reader, capture, kept, device, outbox, written>>

Senders == Readers \cup Devices
Home(f) == IF f \in Readers THEN DeviceOf[f] ELSE f
Idle == [stage |-> "idle", batch |-> <<>>, got |-> [generation |-> 0, reset |-> FALSE]]

TypeOK ==
  /\ server \in State
  /\ reader \in [Readers -> [open : BOOLEAN, view : Nat, due : BOOLEAN]]
  /\ capture \in [Readers -> SUBSET Event] /\ kept \in [Readers -> SUBSET Event]
  /\ device \in [Devices -> [seq : Nat, clock : Nat]]
  /\ outbox \in [Devices -> Seq(Event)]
  /\ send \in [Senders -> [stage : {"idle", "ready", "sent", "answered"},
                           batch : Seq(Event), got : Receipt]]
  /\ blocked \in [Senders -> BOOLEAN]
  /\ wire \subseteq [e : Event, from : Senders \cup {Nobody}]
  /\ \A e \in written : e \in Event /\ e.seq \in 1..device[e.dev].seq
  /\ spent \in [opens : Nat, corrections : Nat, failures : Nat, refusals : Nat]

Init ==
  /\ server = NewState
  /\ reader = [r \in Readers |-> [open |-> FALSE, view |-> 0, due |-> FALSE]]
  /\ capture = [r \in Readers |-> {}] /\ kept = [r \in Readers |-> {}]
  /\ device = [d \in Devices |-> [seq |-> 0, clock |-> 0]]
  /\ outbox = [d \in Devices |-> <<>>]
  /\ send = [f \in Senders |-> Idle]
  /\ blocked = [f \in Senders |-> FALSE]
  /\ wire = {} /\ written = {}
  /\ spent = [opens |-> 0, corrections |-> 0, failures |-> 0, refusals |-> 0]

-----------------------------------------------------------------------------
(* The reader. *)

(* The web lock of the file is free: no tab of the browser has it open.     *)
LockFree(d) == \A r \in Readers : DeviceOf[r] = d => ~reader[r].open

(* Opening reads the generation and begins with a flush.                    *)
Open(r) ==
  /\ ~reader[r].open /\ spent.opens < MaxOpens
  /\ reader' = [reader EXCEPT ![r] = [open |-> TRUE, view |-> server.generation, due |-> TRUE]]
  /\ spent' = [spent EXCEPT !.opens = @ + 1]
  /\ UNCHANGED <<server, capture, kept, device, outbox, send, blocked, wire, written>>

(* What f has sent travels on, but nobody waits for it.                     *)
Orphaned(f) ==
  {IF m.from = f THEN [m EXCEPT !.from = Nobody] ELSE m : m \in wire}

(* Closing the tab loses what has not reached the outbox.                   *)
Close(r) ==
  /\ reader[r].open
  /\ reader' = [reader EXCEPT ![r] = [open |-> FALSE, view |-> @.view, due |-> FALSE]]
  /\ capture' = [capture EXCEPT ![r] = {}] /\ kept' = [kept EXCEPT ![r] = {}]
  /\ send' = [send EXCEPT ![r] = Idle] /\ blocked' = [blocked EXCEPT ![r] = FALSE]
  /\ wire' = Orphaned(r)
  /\ UNCHANGED <<server, device, outbox, written, spent>>

(* A page is turned: the time is read at once, under the generation the     *)
(* reader knows.  A clock may have been set back since.                     *)
Capture(r) ==
  LET d == DeviceOf[r] IN
  /\ reader[r].open /\ capture[r] = {} /\ device[d].seq < MaxEvents[d]
  /\ \E t \in 1..MaxTime :
       /\ device' = [device EXCEPT ![d].clock = t]
       /\ capture' = [capture EXCEPT ![r] =
            {[dev |-> d, seq |-> 0, at |-> t, gen |-> reader[r].view, era |-> server.generation]}]
       /\ \/ t > device[d].clock /\ UNCHANGED spent
          \/ /\ t <= device[d].clock /\ spent.corrections < MaxCorrections
             /\ spent' = [spent EXCEPT !.corrections = @ + 1]
  /\ kept' = [kept EXCEPT ![r] = {}]
  /\ UNCHANGED <<server, reader, outbox, send, blocked, wire, written>>

(* The tabs of one browser take sequence numbers in turns.                  *)
Stamp(r) ==
  LET d == DeviceOf[r] IN
  \E e \in capture[r] :
    /\ e.seq = 0 /\ device[d].seq < MaxEvents[d]
    /\ device' = [device EXCEPT ![d].seq = @ + 1]
    /\ capture' = [capture EXCEPT ![r] = {[e EXCEPT !.seq = device[d].seq + 1]}]
    /\ UNCHANGED <<server, reader, kept, outbox, send, blocked, wire, written, spent>>

Put(r, e) ==
  /\ outbox' = [outbox EXCEPT ![DeviceOf[r]] = Append(@, e)]
  /\ written' = written \cup {e}
  /\ reader' = [reader EXCEPT ![r].due = TRUE]

Full(d) == Len(outbox[d]) >= Limit

Store(r) ==
  \E e \in capture[r] :
    /\ e.seq > 0
    /\ capture' = [capture EXCEPT ![r] = {}]
    /\ IF Full(DeviceOf[r])
       THEN kept' = [kept EXCEPT ![r] = {e}] /\ UNCHANGED <<reader, outbox, written>>
       ELSE Put(r, e) /\ UNCHANGED kept
    /\ UNCHANGED <<server, device, send, blocked, wire, spent>>

(* The save timer tries the outbox again, and the server when it is full.   *)
SaveKept(r) ==
  \E e \in kept[r] :
    /\ IF Full(DeviceOf[r])
       THEN /\ wire' = wire \cup {[e |-> e, from |-> Nobody]}
            /\ UNCHANGED <<reader, kept, outbox, written>>
       ELSE /\ Put(r, e) /\ kept' = [kept EXCEPT ![r] = {}]
            /\ UNCHANGED wire
    /\ UNCHANGED <<server, capture, device, send, blocked, spent>>

-----------------------------------------------------------------------------
(* Flushing: the same steps for an open reader and for the recovery. *)

NewestFirst(box) == LET all == Reverse(box) IN SubSeq(all, 1, IF Len(all) < Batch THEN Len(all) ELSE Batch)

(* A reader flushes when it opens, after a save, and while it knows of      *)
(* pending events; the recovery comes round when the file is not open.      *)
MayFlush(f) == IF f \in Readers THEN reader[f].open ELSE LockFree(f)

Onwards(batch) ==
  IF batch = <<>> THEN Idle ELSE [stage |-> "ready", batch |-> batch, got |-> Idle.got]

(* A reader whose flush is through looks whether anything is left.          *)
Through(f, readers, left) ==
  IF f \in Readers THEN [readers EXCEPT ![f].due = left] ELSE readers

Begin(f) ==
  LET batch == NewestFirst(outbox[Home(f)]) IN
  /\ send[f].stage = "idle" /\ ~blocked[f] /\ MayFlush(f)
  /\ send' = [send EXCEPT ![f] = Onwards(batch)]
  /\ reader' = IF batch = <<>> THEN Through(f, reader, FALSE) ELSE reader
  /\ UNCHANGED <<server, capture, kept, device, outbox, written, blocked, wire, spent>>

(* The recovery looks at the lock again before each event, and passes the   *)
(* event by when a reader has opened since.                                 *)
Send(f) ==
  /\ send[f].stage = "ready" /\ send[f].batch # <<>>
  /\ IF MayFlush(f)
     THEN /\ send' = [send EXCEPT ![f].stage = "sent"]
          /\ wire' = wire \cup {[e |-> Head(send[f].batch), from |-> f]}
     ELSE /\ send' = [send EXCEPT ![f] = Onwards(Tail(send[f].batch))]
          /\ UNCHANGED wire
  /\ UNCHANGED <<server, pages, blocked, spent>>

Waits(f) == send[f].stage \in {"sent", "answered"}

(* Lost on the way, answered too late, or answered to a closed connection:  *)
(* the sender stops and comes back later.                                   *)
Fail(f) ==
  /\ Waits(f) /\ spent.failures < MaxFailures
  /\ spent' = [spent EXCEPT !.failures = @ + 1]
  /\ send' = [send EXCEPT ![f] = Idle]
  /\ wire' \in {Orphaned(f), {m \in wire : m.from # f}}
  /\ reader' = IF f \in Readers THEN [reader EXCEPT ![f].due = TRUE] ELSE reader
  /\ UNCHANGED <<server, capture, kept, device, outbox, blocked, written>>

(* The event leaves the outbox once its answer is read; the recovery leaves *)
(* it to a reader that has opened meanwhile.                                *)
Without(box, e) ==
  LET at == {i \in DOMAIN box : box[i] = e}
  IN  IF at = {} THEN box ELSE RemoveAt(box, CHOOSE i \in at : TRUE)

BugSettles(f) == ~send[f].got.reset
Settles(f) == f \in Readers \/ LockFree(f)

Receive(f) ==
  LET rest == Tail(send[f].batch)
      got  == send[f].got
      box  == IF Settles(f) THEN Without(outbox[Home(f)], Head(send[f].batch)) ELSE outbox[Home(f)]
      told == IF f \in Readers /\ got.generation > reader[f].view
              THEN [reader EXCEPT ![f].view = got.generation] ELSE reader
  IN
  /\ send[f].stage = "answered"
  /\ send' = [send EXCEPT ![f] = Onwards(rest)]
  /\ outbox' = [outbox EXCEPT ![Home(f)] = box]
  /\ reader' = IF rest = <<>> THEN Through(f, told, box # <<>>) ELSE told
  /\ kept' = IF f \in Readers /\ got.reset THEN [kept EXCEPT ![f] = {}] ELSE kept
  /\ UNCHANGED <<server, capture, device, blocked, wire, written, spent>>

Retry(f) ==
  /\ blocked[f] /\ blocked' = [blocked EXCEPT ![f] = FALSE]
  /\ UNCHANGED <<server, pages, send, wire, spent>>

-----------------------------------------------------------------------------
(* The server. *)

Serve(m) ==
  /\ m \in wire /\ wire' = wire \ {m}
  /\ server' = Record(server, m.e)
  /\ send' = IF m.from = Nobody THEN send
             ELSE [send EXCEPT ![m.from] =
                    [stage |-> "answered", batch |-> @.batch, got |-> Answer(server, m.e)]]
  /\ UNCHANGED <<pages, blocked, spent>>

(* 400, 401, 403, 404, 409 or 422: the sender keeps the event and stops.    *)
Refuse(m) ==
  /\ m \in wire /\ wire' = wire \ {m} /\ m.from # Nobody
  /\ spent.refusals < MaxRefusals
  /\ spent' = [spent EXCEPT !.refusals = @ + 1]
  /\ send' = [send EXCEPT ![m.from] = Idle]
  /\ blocked' = [blocked EXCEPT ![m.from] = TRUE]
  /\ reader' = IF m.from \in Readers THEN [reader EXCEPT ![m.from].due = TRUE] ELSE reader
  /\ UNCHANGED <<server, capture, kept, device, outbox, written>>

ClearProgress ==
  /\ server.generation < MaxResets
  /\ server' = Reset(server)
  /\ UNCHANGED <<pages, send, blocked, wire, spent>>

-----------------------------------------------------------------------------
Next ==
  \/ \E r \in Readers : Open(r) \/ Close(r) \/ Capture(r) \/ Stamp(r) \/ Store(r) \/ SaveKept(r)
  \/ \E f \in Senders : Begin(f) \/ Send(f) \/ Fail(f) \/ Receive(f) \/ Retry(f)
  \/ \E m \in wire : Serve(m) \/ Refuse(m)
  \/ ClearProgress

Spec == Init /\ [][Next]_vars

(* Flushes go on and come round while something is due, a request that is   *)
(* neither lost nor refused is answered, and nobody leaves a reader open    *)
(* for ever.  Nobody has to turn a page or press Retry.                     *)
Fairness ==
  /\ \A r \in Readers : WF_vars(Close(r)) /\ WF_vars(reader[r].due /\ Begin(r))
  /\ \A d \in Devices : WF_vars(outbox[d] # <<>> /\ Begin(d))
  /\ \A f \in Senders :
       /\ WF_vars(Send(f)) /\ WF_vars(Receive(f))
       /\ WF_vars(\E m \in wire : m.from = f /\ Serve(m))

FairSpec == Spec /\ Fairness
-----------------------------------------------------------------------------
(* Properties. *)

(* The clocks and sequence numbers of a device's events agree.              *)
Seen == written \cup server.stored
Steady == \A e, f \in Seen : SameDevice(e, f) /\ e.seq < f.seq => e.at < f.at

Quiet == /\ wire = {} /\ \A d \in Devices : outbox[d] = <<>>
Current == {e \in Seen : e.gen = server.generation}

(* Whatever was lost, repeated, delayed or sent newest first: once the      *)
(* outboxes are empty the person sees the newest position there is, unless  *)
(* a device's clock was set back (canonical-reading.service.ts:80).         *)
QuietMeansNewest ==
  Quiet /\ Steady => \A e \in Current : \E f \in server.head : f = e \/ IsNewer(f, e)

(* Whatever the clocks say, the server never shows a device's position when *)
(* it has a later one of that device (canonical-reading.service.ts:63).     *)
NeverBehindItself ==
  \A f \in server.head, e \in server.stored : SameDevice(e, f) => e.seq <= f.seq

(* Progress that was cleared stays cleared: no page turned before the reset *)
(* comes back, however long its event was on the way (:53).                 *)
NoComeback == \A f \in server.head : f.era = server.generation

(* An event leaves its outbox when the server has it, has a later one of    *)
(* the same device, or has cleared the progress since (useReadingEventSync).*)
NothingLost ==
  \A e \in written :
    \/ \E i \in DOMAIN outbox[e.dev] : outbox[e.dev][i] = e
    \/ e.gen < server.generation
    \/ \E f \in server.stored : SameDevice(f, e) /\ f.seq >= e.seq

(* Every outbox is emptied, whichever of its tabs and the recovery meet     *)
(* over it, unless the server refuses and nobody presses Retry.             *)
Drains == \A d \in Devices :
  outbox[d] # <<>> ~> outbox[d] = <<>> \/ \E f \in Senders : Home(f) = d /\ blocked[f]
=============================================================================
