--------------------------- MODULE ReadingProofs ---------------------------
(***************************************************************************)
(* No position that was read is lost, brought back or shown behind a later *)
(* one, for any number of browsers, tabs, events and failures, and any     *)
(* sizes of outbox and batch.                                              *)
(*                                                                         *)
(* NothingLost holds because a sender only removes the event the answer is *)
(* about: of two senders of one browser each has at most one request that  *)
(* it still waits for (Wired), and what has been answered is settled for   *)
(* good (Settled only grows).  NoComeback holds because no event is newer  *)
(* than the generation the server was in when it was made (Old).           *)
(*                                                                         *)
(* QuietMeansNewest adds that a sequence number is given out once          *)
(* (Numbered), and that the head leads what is stored in its generation    *)
(* while the clocks are right (Leads).                                     *)
(***************************************************************************)
EXTENDS ReadingEvents, SequenceTheorems, TLAPS

Old(e, g) == e \in Event /\ e.gen <= e.era /\ e.era <= g

Settled(e, s) == e.gen < s.generation \/ \E f \in s.stored : SameDevice(f, e) /\ f.seq >= e.seq

Within(e, box) == \E i \in DOMAIN box : box[i] = e

(* The head is the latest event of its device, of this generation.          *)
Kept(s) ==
  /\ s \in State /\ s.head \subseteq s.stored
  /\ \A e \in s.stored : Old(e, s.generation)
  /\ \A f \in s.head : f.gen = s.generation
  /\ \A f, h \in s.head : f = h
  /\ \A f \in s.head, e \in s.stored : SameDevice(e, f) => e.seq <= f.seq

(* What a tab has made, or holds because the outbox was full.               *)
OfTab(e, r, dev, g) == Old(e, g) /\ e.dev = DeviceOf[r] /\ e.seq <= dev[DeviceOf[r]].seq

Tabs(rd, cap, kp, dev, g) ==
  /\ rd \in [Readers -> [open : BOOLEAN, view : Nat, due : BOOLEAN]]
  /\ \A r \in Readers : rd[r].view <= g
  /\ cap \in [Readers -> SUBSET Event] /\ kp \in [Readers -> SUBSET Event]
  /\ dev \in [Devices -> [seq : Nat, clock : Nat]]
  /\ \A r \in Readers : \A e \in cap[r] : OfTab(e, r, dev, g)
  /\ \A r \in Readers : \A e \in kp[r] : OfTab(e, r, dev, g) /\ e.seq > 0

Boxes(out, wr, dev, g) ==
  /\ out \in [Devices -> Seq(Event)]
  /\ \A e \in wr : Old(e, g) /\ e.seq \in 1..dev[e.dev].seq
  /\ \A d \in Devices : \A i \in DOMAIN out[d] : out[d][i] \in wr

Sender == [stage : {"idle", "ready", "sent", "answered"}, batch : Seq(Event), got : Receipt]

Sound(x, wr, s) ==
  /\ x \in Sender /\ x.got.generation <= s.generation
  /\ \A i \in DOMAIN x.batch : x.batch[i] \in wr
  /\ x.stage # "idle" => x.batch # <<>>
  /\ x.stage = "answered" => Settled(Head(x.batch), s)

Sending(sd, wr, s) == sd \in [Senders -> Sender] /\ \A f \in Senders : Sound(sd[f], wr, s)

(* A request somebody waits for is about the first event of the batch.      *)
Wired(w, sd, g) ==
  /\ w \subseteq [e : Event, from : Senders \cup {Nobody}]
  /\ \A m \in w : Old(m.e, g)
  /\ \A m \in w : m.from # Nobody =>
       sd[m.from].stage = "sent" /\ m.e = Head(sd[m.from].batch)

Safe(wr, out, s) == \A e \in wr : Within(e, out[e.dev]) \/ Settled(e, s)

Rest ==
  /\ blocked \in [Senders -> BOOLEAN]
  /\ spent \in [opens : Nat, corrections : Nat, failures : Nat, refusals : Nat]

IInv ==
  /\ Kept(server)
  /\ Tabs(reader, capture, kept, device, server.generation)
  /\ Boxes(outbox, written, device, server.generation)
  /\ Sending(send, written, server)
  /\ Wired(wire, send, server.generation)
  /\ Safe(written, outbox, server)
  /\ Rest

LEMMA Parts == IInv => TypeOK /\ NothingLost /\ NoComeback /\ NeverBehindItself
<1> SUFFICES ASSUME IInv PROVE TypeOK /\ NothingLost /\ NoComeback /\ NeverBehindItself
  OBVIOUS
<1>1. TypeOK
  <2>1. server \in State
    BY DEF IInv, Kept
  <2>2. /\ reader \in [Readers -> [open : BOOLEAN, view : Nat, due : BOOLEAN]]
        /\ capture \in [Readers -> SUBSET Event] /\ kept \in [Readers -> SUBSET Event]
        /\ device \in [Devices -> [seq : Nat, clock : Nat]]
    BY DEF IInv, Tabs
  <2>3. /\ outbox \in [Devices -> Seq(Event)]
        /\ \A e \in written : e \in Event /\ e.seq \in 1..device[e.dev].seq
    BY DEF IInv, Boxes, Old
  <2>4. send \in [Senders -> Sender] /\ wire \subseteq [e : Event, from : Senders \cup {Nobody}]
    BY DEF IInv, Sending, Wired
  <2> QED
    BY <2>1, <2>2, <2>3, <2>4 DEF TypeOK, IInv, Rest, Sender
<1>2. NothingLost
  BY DEF IInv, Safe, Settled, Within, NothingLost
<1>3. NoComeback
  <2> SUFFICES ASSUME NEW f \in server.head PROVE f.era = server.generation
    BY DEF NoComeback
  <2>1. Old(f, server.generation) /\ f.gen = server.generation /\ server.generation \in Nat
    BY DEF IInv, Kept, State
  <2> QED
    BY <2>1 DEF Old, Event
<1>4. NeverBehindItself
  BY DEF IInv, Kept, NeverBehindItself
<1> QED
  BY <1>1, <1>2, <1>3, <1>4

-----------------------------------------------------------------------------
(* The server. *)

(* The generation and the stored events only grow.                          *)
Grows(s, t) == s.generation <= t.generation /\ s.stored \subseteq t.stored

LEMMA Recorded ==
  ASSUME NEW s, Kept(s), NEW e, Old(e, s.generation)
  PROVE  /\ Kept(Record(s, e)) /\ Grows(s, Record(s, e))
         /\ Settled(e, Record(s, e)) /\ Record(s, e).generation = s.generation
<1>1. /\ s \in State /\ s.generation \in Nat /\ s.stored \subseteq Event /\ s.head \subseteq s.stored
      /\ e \in Event /\ e.seq \in Nat /\ e.gen \in Nat /\ e.gen <= s.generation
  BY DEF Kept, State, Old, Event
<1>2. CASE Fresh(s, e)
  <2> DEFINE t == Record(s, e)
  <2>1. /\ t = [generation |-> s.generation, stored |-> s.stored \cup {e},
                head |-> IF \A f \in s.head : IsNewer(e, f) THEN {e} ELSE s.head]
        /\ e.gen = s.generation
        /\ \A f \in s.stored : SameDevice(f, e) => f.seq < e.seq
    <3>1. \A f \in s.stored : f.seq \in Nat
      BY <1>1 DEF Event
    <3> QED
      BY <1>1, <1>2, <3>1 DEF Record, Fresh, Passed
  <2>2. /\ t.generation = s.generation /\ t.stored = s.stored \cup {e}
        /\ t.head = {e} \/ (t.head = s.head /\ \E f \in s.head : ~IsNewer(e, f))
    BY <2>1
  <2>3. t \in State
    BY <1>1, <2>1 DEF State
  <2> HIDE DEF t
  <2>4. \A f \in t.head, d \in t.stored : SameDevice(d, f) => d.seq <= f.seq
    <3> SUFFICES ASSUME NEW f \in t.head, NEW d \in t.stored, SameDevice(d, f)
                 PROVE  d.seq <= f.seq
      OBVIOUS
    <3>1. d \in Event /\ f \in Event /\ d.seq \in Nat /\ f.seq \in Nat
      BY <1>1, <2>2 DEF Event
    <3>2. CASE f = e
      BY <1>1, <2>1, <2>2, <3>1, <3>2
    <3>3. CASE f \in s.head /\ d \in s.stored
      BY <3>3 DEF Kept
    <3>4. CASE f \in s.head /\ d = e /\ f # e
      <4>1. ~IsNewer(e, f)
        BY <2>2, <3>4 DEF Kept
      <4> QED
        BY <1>1, <3>1, <3>4, <4>1 DEF IsNewer
    <3> QED
      BY <2>2, <3>2, <3>3, <3>4
  <2>5. Kept(t)
    BY <1>1, <2>1, <2>2, <2>3, <2>4 DEF Kept
  <2>6. Settled(e, t)
    BY <1>1, <2>2 DEF Settled, SameDevice
  <2> QED
    BY <1>1, <2>2, <2>5, <2>6 DEF Grows, t
<1>3. CASE ~Fresh(s, e)
  <2>1. Record(s, e) = s
    BY <1>3 DEF Record
  <2>2. Settled(e, s)
    <3>1. CASE e.gen # s.generation
      BY <1>1, <3>1 DEF Settled
    <3>2. CASE e \in s.stored
      BY <1>1, <3>2 DEF Settled, SameDevice
    <3>3. CASE Passed(s, e)
      BY <3>3 DEF Settled, Passed
    <3> QED
      BY <1>3, <3>1, <3>2, <3>3 DEF Fresh
  <2> QED
    BY <1>1, <2>1, <2>2 DEF Grows
<1> QED
  BY <1>2, <1>3

LEMMA Cleared == ASSUME NEW s, Kept(s) PROVE Kept(Reset(s)) /\ Grows(s, Reset(s))
<1>1. /\ Reset(s).generation = s.generation + 1 /\ Reset(s).stored = s.stored
      /\ Reset(s).head = {} /\ s.generation \in Nat /\ Reset(s) \in State
  BY DEF Kept, State, Reset
<1>2. \A e \in s.stored : Old(e, s.generation + 1)
  BY <1>1 DEF Kept, Old, Event
<1> QED
  BY <1>1, <1>2 DEF Kept, Grows

(* Whatever it takes in, the rest stays as sound as it was.                 *)
LEMMA ServerGrows ==
  ASSUME NEW s, NEW t, Kept(s), Kept(t), Grows(s, t)
  PROVE  /\ \A e : Old(e, s.generation) => Old(e, t.generation)
         /\ \A e \in Event : Settled(e, s) => Settled(e, t)
         /\ \A rd, cap, kp, dev : Tabs(rd, cap, kp, dev, s.generation) => Tabs(rd, cap, kp, dev, t.generation)
         /\ \A out, wr, dev : Boxes(out, wr, dev, s.generation) => Boxes(out, wr, dev, t.generation)
         /\ \A sd, w : Wired(w, sd, s.generation) => Wired(w, sd, t.generation)
<1>1. s.generation \in Nat /\ t.generation \in Nat /\ s.generation <= t.generation
  BY DEF Kept, State, Grows
<1>2. \A e : Old(e, s.generation) => Old(e, t.generation)
  BY <1>1 DEF Old, Event
<1>3. \A e \in Event : Settled(e, s) => Settled(e, t)
  BY <1>1 DEF Settled, Grows, Event
<1>4. ASSUME NEW rd, NEW cap, NEW kp, NEW dev, Tabs(rd, cap, kp, dev, s.generation)
      PROVE  Tabs(rd, cap, kp, dev, t.generation)
  <2>1. \A r \in Readers : rd[r].view <= t.generation
    <3>1. \A r \in Readers : rd[r].view \in Nat /\ rd[r].view <= s.generation
      BY <1>4 DEF Tabs
    <3> QED
      BY <1>1, <3>1
  <2> QED
    BY <1>2, <1>4, <2>1 DEF Tabs, OfTab
<1>5. \A out, wr, dev : Boxes(out, wr, dev, s.generation) => Boxes(out, wr, dev, t.generation)
  BY <1>2 DEF Boxes
<1>6. \A sd, w : Wired(w, sd, s.generation) => Wired(w, sd, t.generation)
  BY <1>2 DEF Wired
<1> QED
  BY <1>2, <1>3, <1>4, <1>5, <1>6

-----------------------------------------------------------------------------
(* The outbox and the batch of a flush. *)

LEMMA Taken ==
  ASSUME NEW box \in Seq(Event), NEW e
  PROVE  /\ Without(box, e) \in Seq(Event)
         /\ \A i \in DOMAIN Without(box, e) : Within(Without(box, e)[i], box)
         /\ \A x : x # e /\ Within(x, box) => Within(x, Without(box, e))
<1> DEFINE at == {i \in DOMAIN box : box[i] = e}
           n == CHOOSE i \in at : TRUE
           left == SubSeq(box, 1, n - 1) \o SubSeq(box, n + 1, Len(box))
<1>1. CASE at = {}
  <2>1. Without(box, e) = box
    BY <1>1 DEF Without
  <2> QED
    BY <2>1 DEF Within
<1>2. CASE at # {}
  <2>1. Without(box, e) = left
    BY <1>2 DEF Without, RemoveAt
  <2>2. n \in at /\ DOMAIN box = 1..Len(box) /\ Len(box) \in Nat
    BY <1>2
  <2>3. n \in 1..Len(box) /\ box[n] = e
    BY <2>2
  <2> HIDE DEF n
  <2>4. /\ SubSeq(box, 1, n - 1) \in Seq(Event) /\ Len(SubSeq(box, 1, n - 1)) = n - 1
        /\ \A i \in 1..(n - 1) : SubSeq(box, 1, n - 1)[i] = box[i]
    BY <2>2, <2>3, SubSeqProperties
  <2>5. /\ SubSeq(box, n + 1, Len(box)) \in Seq(Event)
        /\ Len(SubSeq(box, n + 1, Len(box))) = Len(box) - n
        /\ \A i \in 1..(Len(box) - n) : SubSeq(box, n + 1, Len(box))[i] = box[n + i]
    BY <2>2, <2>3, SubSeqProperties
  <2>6. /\ left \in Seq(Event) /\ Len(left) = Len(box) - 1
        /\ \A i \in 1..(Len(box) - 1) : left[i] = IF i < n THEN box[i] ELSE box[i + 1]
    <3> DEFINE b == SubSeq(box, 1, n - 1)
               c == SubSeq(box, n + 1, Len(box))
    <3> HIDE DEF b, c
    <3>1. /\ b \in Seq(Event) /\ Len(b) = n - 1 /\ c \in Seq(Event) /\ Len(c) = Len(box) - n
          /\ \A i \in 1..(n - 1) : b[i] = box[i]
          /\ \A i \in 1..(Len(box) - n) : c[i] = box[n + i]
      BY <2>4, <2>5 DEF b, c
    <3>2. /\ b \o c \in Seq(Event) /\ Len(b \o c) = Len(b) + Len(c)
          /\ \A i \in 1..(Len(b) + Len(c)) :
               (b \o c)[i] = IF i <= Len(b) THEN b[i] ELSE c[i - Len(b)]
      BY <3>1, ConcatProperties
    <3>3. Len(b) + Len(c) = Len(box) - 1
      BY <2>2, <2>3, <3>1
    <3>4. ASSUME NEW i \in 1..(Len(box) - 1)
          PROVE  (b \o c)[i] = IF i < n THEN box[i] ELSE box[i + 1]
      <4>1. CASE i < n
        <5>1. i \in 1..(n - 1) /\ i <= Len(b)
          BY <2>2, <2>3, <3>1, <4>1
        <5> QED
          BY <3>1, <3>2, <3>3, <4>1, <5>1
      <4>2. CASE ~(i < n)
        <5>1. /\ i - Len(b) \in 1..(Len(box) - n) /\ ~(i <= Len(b))
              /\ n + (i - Len(b)) = i + 1
          BY <2>2, <2>3, <3>1, <4>2
        <5>2. (b \o c)[i] = c[i - Len(b)]
          BY <3>2, <3>3, <5>1
        <5> QED
          BY <3>1, <4>2, <5>1, <5>2
      <4> QED
        BY <4>1, <4>2
    <3> QED
      BY <3>2, <3>3, <3>4 DEF b, c
  <2> HIDE DEF left
  <2>7. \A i \in DOMAIN left : Within(left[i], box)
    <3> SUFFICES ASSUME NEW i \in DOMAIN left PROVE \E j \in DOMAIN box : box[j] = left[i]
      BY DEF Within
    <3>1. i \in 1..(Len(box) - 1)
      BY <2>2, <2>3, <2>6
    <3>2. i \in DOMAIN box /\ i + 1 \in DOMAIN box
      BY <2>2, <3>1
    <3> QED
      BY <2>6, <3>1, <3>2
  <2>8. ASSUME NEW x, x # e, Within(x, box) PROVE Within(x, left)
    <3>1. PICK j \in 1..Len(box) : box[j] = x
      BY <2>2, <2>8 DEF Within
    <3>2. j # n /\ DOMAIN left = 1..(Len(box) - 1)
      BY <2>2, <2>3, <2>6, <2>8, <3>1
    <3>3. CASE j < n
      <4>1. j \in 1..(Len(box) - 1) /\ left[j] = x
        BY <2>2, <2>3, <2>6, <3>1, <3>3
      <4> QED
        BY <3>2, <4>1 DEF Within
    <3>4. CASE n < j
      <4>1. j - 1 \in 1..(Len(box) - 1) /\ ~(j - 1 < n) /\ (j - 1) + 1 = j
        BY <2>2, <2>3, <3>4
      <4>2. left[j - 1] = x
        BY <2>6, <3>1, <4>1
      <4> QED
        BY <3>2, <4>1, <4>2 DEF Within
    <3> QED
      BY <2>2, <2>3, <3>1, <3>2, <3>3, <3>4
  <2> QED
    BY <2>1, <2>6, <2>7, <2>8
<1> QED
  BY <1>1, <1>2

LEMMA Newest ==
  ASSUME NEW box \in Seq(Event)
  PROVE  /\ NewestFirst(box) \in Seq(Event)
         /\ \A i \in DOMAIN NewestFirst(box) : Within(NewestFirst(box)[i], box)
<1> DEFINE all == [i \in 1..Len(box) |-> box[(Len(box) - i) + 1]]
           n == IF Len(box) < Batch THEN Len(box) ELSE Batch
<1>1. Len(box) \in Nat /\ DOMAIN box = 1..Len(box) /\ Batch \in Nat
  BY ReadersAssumption
<1>2. \A i \in 1..Len(box) : (Len(box) - i) + 1 \in DOMAIN box
  BY <1>1
<1>3. all \in [1..Len(box) -> Event]
  <2>1. \A i \in 1..Len(box) : box[(Len(box) - i) + 1] \in Event
    BY <1>1, <1>2, ElementOfSeq
  <2> QED
    BY <2>1
<1>4. \A i \in 1..Len(box) : Within(all[i], box)
  BY <1>2 DEF Within
<1> HIDE DEF all
<1>5. all \in Seq(Event) /\ Len(all) = Len(box)
  BY <1>1, <1>3, SeqDef, LenProperties
<1>6. n \in Nat /\ n <= Len(box)
  BY <1>1
<1>7. NewestFirst(box) = SubSeq(all, 1, n)
  BY <1>5 DEF NewestFirst, Reverse, all
<1> HIDE DEF n
<1>8. /\ SubSeq(all, 1, n) \in Seq(Event) /\ Len(SubSeq(all, 1, n)) = n
      /\ \A i \in 1..n : SubSeq(all, 1, n)[i] = all[i]
  BY <1>1, <1>5, <1>6, SubSeqProperties
<1> QED
  BY <1>1, <1>4, <1>6, <1>7, <1>8

LEMMA Going ==
  ASSUME NEW batch \in Seq(Event), NEW wr, \A i \in DOMAIN batch : batch[i] \in wr,
         NEW s, s \in State
  PROVE  Sound(Onwards(batch), wr, s) /\ Sound(Idle, wr, s)
<1>1. <<>> \in Seq(Event) /\ DOMAIN <<>> = {} /\ s.generation \in Nat
  BY DEF State
<1>2. Idle.got \in Receipt /\ Idle.got.generation = 0
  BY DEF Idle, Receipt
<1>3. Sound(Idle, wr, s)
  BY <1>1, <1>2 DEF Idle, Sound, Sender
<1>4. CASE batch # <<>>
  <2> DEFINE x == [stage |-> "ready", batch |-> batch, got |-> Idle.got]
  <2>1. x \in Sender /\ x.batch = batch /\ x.got = Idle.got /\ x.stage = "ready"
    <3> HIDE DEF Idle
    <3> QED
      BY <1>2 DEF Sender
  <2> HIDE DEF x
  <2>2. Sound(x, wr, s)
    BY <1>1, <1>2, <1>4, <2>1 DEF Sound
  <2> QED
    BY <1>3, <1>4, <2>2 DEF Onwards, x
<1> QED
  BY <1>3, <1>4 DEF Onwards

LEMMA TailWithin ==
  ASSUME NEW batch \in Seq(Event), batch # <<>>, NEW wr, \A i \in DOMAIN batch : batch[i] \in wr
  PROVE  /\ Tail(batch) \in Seq(Event) /\ \A i \in DOMAIN Tail(batch) : Tail(batch)[i] \in wr
         /\ Head(batch) \in wr /\ Head(batch) \in Event
<1>1. /\ Len(batch) \in Nat /\ Len(batch) > 0 /\ DOMAIN batch = 1..Len(batch)
      /\ Head(batch) = batch[1] /\ 1 \in DOMAIN batch
  BY EmptySeq
<1>2. /\ Tail(batch) \in Seq(Event) /\ Len(Tail(batch)) = Len(batch) - 1
      /\ \A i \in 1..(Len(batch) - 1) : Tail(batch)[i] = batch[i + 1]
  BY HeadTailProperties
<1>3. \A i \in 1..(Len(batch) - 1) : i + 1 \in DOMAIN batch
  BY <1>1
<1> QED
  BY <1>1, <1>2, <1>3, ElementOfSeq

-----------------------------------------------------------------------------
(* Parts of a step. *)

LEMMA OneSends ==
  ASSUME NEW sd, NEW wr, NEW s, Sending(sd, wr, s), NEW f \in Senders, NEW x, Sound(x, wr, s)
  PROVE  Sending([sd EXCEPT ![f] = x], wr, s)
<1>1. x \in Sender
  BY DEF Sound
<1> HIDE DEF Sender, Sound
<1> QED
  BY <1>1 DEF Sending

(* Nobody waits any more for what f has sent, if it had.                    *)
LEMMA Unheard ==
  ASSUME NEW w, NEW sd, NEW g, Wired(w, sd, g), NEW f \in Senders, NEW x, NEW v,
         v \subseteq [e : Event, from : Senders \cup {Nobody}],
         \A m \in v : Old(m.e, g) /\ (m.from # Nobody => m \in w /\ m.from # f),
         sd \in [Senders -> Sender]
  PROVE  Wired(v, [sd EXCEPT ![f] = x], g)
<1> DEFINE td == [sd EXCEPT ![f] = x]
<1>1. \A h \in Senders : h # f => td[h] = sd[h]
  OBVIOUS
<1>2. \A m \in v : m.from \in Senders \cup {Nobody}
  OBVIOUS
<1> HIDE DEF td
<1>3. Wired(v, td, g)
  <2> SUFFICES ASSUME NEW m \in v, m.from # Nobody
               PROVE  td[m.from].stage = "sent" /\ m.e = Head(td[m.from].batch)
    BY DEF Wired
  <2>1. m \in w /\ m.from # f /\ m.from \in Senders
    BY <1>2
  <2> QED
    BY <1>1, <2>1 DEF Wired
<1> QED
  BY <1>3 DEF td

LEMMA NotWaiting ==
  ASSUME NEW w, NEW sd, NEW g, Wired(w, sd, g), NEW f \in Senders, sd[f].stage # "sent", NEW x,
         sd \in [Senders -> Sender]
  PROVE  Wired(w, [sd EXCEPT ![f] = x], g)
<1>1. f # Nobody
  BY ReadersAssumption DEF Senders
<1>2. \A m \in w : Old(m.e, g) /\ (m.from # Nobody => m \in w /\ m.from # f)
  BY <1>1 DEF Wired
<1>3. w \subseteq [e : Event, from : Senders \cup {Nobody}]
  BY DEF Wired
<1> QED
  BY <1>2, <1>3, Unheard

LEMMA MoreWritten ==
  ASSUME NEW sd, NEW wr, NEW s, Sending(sd, wr, s), NEW more, wr \subseteq more
  PROVE  Sending(sd, more, s)
BY DEF Sending, Sound

LEMMA ReaderTold ==
  ASSUME NEW rd, NEW cap, NEW kp, NEW dev, NEW g \in Nat, Tabs(rd, cap, kp, dev, g), NEW r \in Readers,
         NEW y \in [open : BOOLEAN, view : Nat, due : BOOLEAN], y.view <= g
  PROVE  Tabs([rd EXCEPT ![r] = y], cap, kp, dev, g)
<1> DEFINE td == [rd EXCEPT ![r] = y]
<1>1. td \in [Readers -> [open : BOOLEAN, view : Nat, due : BOOLEAN]]
  BY DEF Tabs
<1>2. \A q \in Readers : td[q].view <= g
  BY DEF Tabs
<1> HIDE DEF td
<1>3. Tabs(td, cap, kp, dev, g)
  BY <1>1, <1>2 DEF Tabs
<1> QED
  BY <1>3 DEF td

LEMMA ReaderDue ==
  ASSUME NEW rd, NEW cap, NEW kp, NEW dev, NEW g \in Nat, Tabs(rd, cap, kp, dev, g), NEW r \in Readers,
         NEW b \in BOOLEAN
  PROVE  Tabs([rd EXCEPT ![r].due = b], cap, kp, dev, g)
<1> DEFINE y == [rd[r] EXCEPT !.due = b]
<1>1. rd[r] \in [open : BOOLEAN, view : Nat, due : BOOLEAN] /\ rd[r].view <= g
  BY DEF Tabs
<1>2. y \in [open : BOOLEAN, view : Nat, due : BOOLEAN] /\ y.view = rd[r].view
  BY <1>1
<1>3. [rd EXCEPT ![r].due = b] = [rd EXCEPT ![r] = y]
  OBVIOUS
<1> HIDE DEF y
<1> QED
  BY <1>1, <1>2, <1>3, ReaderTold

(* Store and SaveKept put an event into the outbox.                         *)
LEMMA PutIn ==
  ASSUME IInv, NEW r \in Readers, NEW e, OfTab(e, r, device, server.generation), e.seq > 0,
         Put(r, e)
  PROVE  /\ Boxes(outbox', written', device, server.generation)
         /\ Safe(written', outbox', server)
         /\ Sending(send, written', server)
         /\ Tabs(reader', capture, kept, device, server.generation)
<1> DEFINE d == DeviceOf[r]
<1>1. /\ d \in Devices /\ e \in Event /\ e.dev = d /\ Old(e, server.generation)
      /\ e.seq \in 1..device[e.dev].seq /\ server.generation \in Nat
  <2>1. d \in Devices
    BY ReadersAssumption
  <2>2. e \in Event /\ e.seq \in Nat /\ e.dev = d /\ e.seq <= device[d].seq
    BY DEF OfTab, Old, Event
  <2>3. device[d].seq \in Nat /\ server.generation \in Nat
    BY <2>1 DEF IInv, Tabs, Kept, State
  <2> QED
    BY <2>1, <2>2, <2>3 DEF OfTab
<1>2. /\ outbox' = [outbox EXCEPT ![d] = Append(outbox[d], e)] /\ written' = written \cup {e}
      /\ reader' = [reader EXCEPT ![r].due = TRUE]
      /\ outbox \in [Devices -> Seq(Event)] /\ outbox[d] \in Seq(Event)
  BY <1>1 DEF Put, IInv, Boxes
<1> HIDE DEF d
<1>3. /\ Append(outbox[d], e) \in Seq(Event)
      /\ DOMAIN Append(outbox[d], e) = 1..(Len(outbox[d]) + 1)
      /\ Append(outbox[d], e)[Len(outbox[d]) + 1] = e
      /\ \A i \in 1..Len(outbox[d]) : Append(outbox[d], e)[i] = outbox[d][i]
      /\ DOMAIN outbox[d] = 1..Len(outbox[d]) /\ Len(outbox[d]) \in Nat
  BY <1>1, <1>2
<1>4. /\ outbox' \in [Devices -> Seq(Event)] /\ outbox'[d] = Append(outbox[d], e)
      /\ \A c \in Devices : c # d => outbox'[c] = outbox[c]
  BY <1>1, <1>2, <1>3
<1>5. Boxes(outbox', written', device, server.generation)
  <2>1. \A c \in Devices : \A i \in DOMAIN outbox'[c] : outbox'[c][i] \in written'
    <3> SUFFICES ASSUME NEW c \in Devices, NEW i \in DOMAIN outbox'[c]
                 PROVE  outbox'[c][i] \in written'
      OBVIOUS
    <3>1. CASE c # d
      BY <1>2, <1>4, <3>1 DEF IInv, Boxes
    <3>2. CASE c = d
      BY <1>2, <1>3, <1>4, <3>2 DEF IInv, Boxes
    <3> QED
      BY <3>1, <3>2
  <2>2. \A x \in written' : Old(x, server.generation) /\ x.seq \in 1..device[x.dev].seq
    BY <1>1, <1>2 DEF IInv, Boxes
  <2> QED
    BY <1>4, <2>1, <2>2 DEF Boxes
<1>6. Safe(written', outbox', server)
  <2> SUFFICES ASSUME NEW x \in written' PROVE Within(x, outbox'[x.dev]) \/ Settled(x, server)
    BY DEF Safe
  <2>1. CASE x = e
    <3>1. Len(outbox[d]) + 1 \in DOMAIN outbox'[d] /\ outbox'[d][Len(outbox[d]) + 1] = e
      BY <1>3, <1>4
    <3> QED
      BY <1>1, <2>1, <3>1 DEF Within, d
  <2>2. CASE x \in written
    <3>1. x.dev \in Devices
      BY <2>2 DEF IInv, Boxes, Old, Event
    <3>2. CASE x.dev # d
      BY <1>4, <2>2, <3>1, <3>2 DEF IInv, Safe
    <3>3. CASE x.dev = d
      <4>1. Within(x, outbox[d]) => Within(x, outbox'[d])
        BY <1>3, <1>4 DEF Within
      <4> QED
        BY <2>2, <3>3, <4>1 DEF IInv, Safe
    <3> QED
      BY <3>2, <3>3
  <2> QED
    BY <1>2, <2>1, <2>2
<1>7. Sending(send, written', server)
  BY <1>2, MoreWritten DEF IInv
<1>8. Tabs(reader', capture, kept, device, server.generation)
  BY <1>1, <1>2, ReaderDue DEF IInv
<1> QED
  BY <1>5, <1>6, <1>7, <1>8

-----------------------------------------------------------------------------
(* The invariant: initially, and by each action. *)

LEMMA InitIInv == Init => IInv
<1> SUFFICES ASSUME Init PROVE IInv
  OBVIOUS
<1>1. Kept(server) /\ server.generation = 0 /\ server \in State
  BY DEF Init, NewState, Kept, State
<1>2. Tabs(reader, capture, kept, device, server.generation)
  BY <1>1 DEF Init, Tabs
<1>3. /\ Boxes(outbox, written, device, server.generation)
      /\ Safe(written, outbox, server)
  <2>1. <<>> \in Seq(Event) /\ DOMAIN <<>> = {}
    OBVIOUS
  <2> QED
    BY <2>1 DEF Init, Boxes, Safe
<1>4. Sending(send, written, server)
  <2>1. Sound(Idle, written, server)
    <3>1. <<>> \in Seq(Event) /\ \A i \in DOMAIN <<>> : <<>>[i] \in written
      OBVIOUS
    <3> QED
      BY <1>1, <3>1, Going
  <2>2. Idle \in Sender
    BY <2>1 DEF Sound
  <2> HIDE DEF Idle, Sound, Sender
  <2> QED
    BY <2>1, <2>2 DEF Init, Sending
<1>5. Wired(wire, send, server.generation)
  BY DEF Init, Wired
<1>6. Rest
  BY DEF Init, Rest
<1> QED
  BY <1>1, <1>2, <1>3, <1>4, <1>5, <1>6 DEF IInv

LEMMA Facts ==
  ASSUME IInv
  PROVE  /\ server \in State /\ server.generation \in Nat
         /\ send \in [Senders -> Sender]
         /\ \A r \in Readers : DeviceOf[r] \in Devices /\ r \in Senders /\ r # Nobody
         /\ \A f \in Senders : Home(f) \in Devices /\ f # Nobody
BY ReadersAssumption DEF IInv, Kept, State, Sending, Senders, Home

LEMMA OpenStep == ASSUME IInv, NEW r \in Readers, Open(r) PROVE IInv'
<1> DEFINE y == [open |-> TRUE, view |-> server.generation, due |-> TRUE]
<1>1. y \in [open : BOOLEAN, view : Nat, due : BOOLEAN] /\ y.view <= server.generation
  BY Facts
<1>2. reader' = [reader EXCEPT ![r] = y]
  BY DEF Open
<1> HIDE DEF y
<1>3. Tabs(reader', capture, kept, device, server.generation)
  BY <1>1, <1>2, Facts, ReaderTold DEF IInv
<1>4. Rest'
  BY DEF Open, IInv, Rest
<1> QED
  BY <1>3, <1>4 DEF Open, IInv

LEMMA Orphans ==
  ASSUME IInv, NEW f \in Senders
  PROVE  /\ Orphaned(f) \subseteq [e : Event, from : Senders \cup {Nobody}]
         /\ \A m \in Orphaned(f) : /\ Old(m.e, server.generation)
                                   /\ m.from # Nobody => m \in wire /\ m.from # f
<1> SUFFICES ASSUME NEW m \in Orphaned(f)
             PROVE  /\ m \in [e : Event, from : Senders \cup {Nobody}]
                    /\ Old(m.e, server.generation)
                    /\ m.from # Nobody => m \in wire /\ m.from # f
  OBVIOUS
<1>1. PICK w \in wire : m = IF w.from = f THEN [w EXCEPT !.from = Nobody] ELSE w
  BY DEF Orphaned
<1>2. w \in [e : Event, from : Senders \cup {Nobody}] /\ Old(w.e, server.generation)
  BY DEF IInv, Wired
<1>3. CASE w.from = f
  <2>1. m = [w EXCEPT !.from = Nobody]
    BY <1>1, <1>3
  <2>2. m \in [e : Event, from : Senders \cup {Nobody}] /\ m.from = Nobody /\ m.e = w.e
    BY <1>2, <2>1
  <2> QED
    BY <1>2, <2>2
<1>4. CASE w.from # f
  BY <1>1, <1>2, <1>4
<1> QED
  BY <1>3, <1>4

LEMMA IdleAgain ==
  ASSUME IInv, NEW f \in Senders
  PROVE  Sending([send EXCEPT ![f] = Idle], written, server)
<1>1. <<>> \in Seq(Event) /\ \A i \in DOMAIN <<>> : <<>>[i] \in written
  OBVIOUS
<1>2. Sound(Idle, written, server)
  BY <1>1, Facts, Going
<1> QED
  BY <1>2, OneSends DEF IInv

LEMMA CloseStep == ASSUME IInv, NEW r \in Readers, Close(r) PROVE IInv'
<1> DEFINE y == [open |-> FALSE, view |-> reader[r].view, due |-> FALSE]
<1>1. /\ y \in [open : BOOLEAN, view : Nat, due : BOOLEAN] /\ y.view <= server.generation
  BY DEF IInv, Tabs
<1>2. reader' = [reader EXCEPT ![r] = y]
  BY DEF Close
<1> HIDE DEF y
<1>3. Tabs(reader', capture, kept, device, server.generation)
  BY <1>1, <1>2, Facts, ReaderTold DEF IInv
<1>4. Tabs(reader', capture', kept', device, server.generation)
  <2>1. /\ capture' = [capture EXCEPT ![r] = {}] /\ kept' = [kept EXCEPT ![r] = {}]
        /\ capture \in [Readers -> SUBSET Event] /\ kept \in [Readers -> SUBSET Event]
    BY DEF Close, IInv, Tabs
  <2>2. /\ capture' \in [Readers -> SUBSET Event] /\ kept' \in [Readers -> SUBSET Event]
        /\ \A q \in Readers : capture'[q] \subseteq capture[q] /\ kept'[q] \subseteq kept[q]
    BY <2>1
  <2> QED
    BY <1>3, <2>2 DEF Tabs
<1>5. send' = [send EXCEPT ![r] = Idle] /\ wire' = Orphaned(r)
  BY DEF Close
<1>6. Sending(send', written, server)
  BY <1>5, Facts, IdleAgain
<1>7. Wired(wire', send', server.generation)
  <2> HIDE DEF Idle
  <2> QED
    BY <1>5, Facts, Orphans, Unheard DEF IInv
<1>8. Rest'
  BY DEF Close, IInv, Rest
<1> QED
  BY <1>4, <1>6, <1>7, <1>8 DEF Close, IInv

LEMMA CaptureStep == ASSUME IInv, NEW r \in Readers, Capture(r) PROVE IInv'
<1> DEFINE d == DeviceOf[r]
<1>1. PICK t \in 1..MaxTime :
        /\ device' = [device EXCEPT ![d].clock = t]
        /\ capture' = [capture EXCEPT ![r] =
             {[dev |-> d, seq |-> 0, at |-> t, gen |-> reader[r].view, era |-> server.generation]}]
        /\ (UNCHANGED spent \/ spent' = [spent EXCEPT !.corrections = @ + 1])
  BY DEF Capture
<1> DEFINE e == [dev |-> d, seq |-> 0, at |-> t, gen |-> reader[r].view, era |-> server.generation]
<1>2. /\ d \in Devices /\ device \in [Devices -> [seq : Nat, clock : Nat]] /\ t \in Nat
      /\ reader[r].view \in Nat /\ reader[r].view <= server.generation
  BY Facts, ReadersAssumption DEF IInv, Tabs
<1>3. /\ e \in Event /\ e.dev = d /\ e.seq = 0 /\ Old(e, server.generation)
  BY <1>2, Facts DEF Event, Old
<1>4. /\ device' \in [Devices -> [seq : Nat, clock : Nat]]
      /\ \A c \in Devices : device'[c].seq = device[c].seq
  BY <1>1, <1>2
<1>5. /\ capture' = [capture EXCEPT ![r] = {e}] /\ kept' = [kept EXCEPT ![r] = {}]
      /\ capture \in [Readers -> SUBSET Event] /\ kept \in [Readers -> SUBSET Event]
  BY <1>1 DEF Capture, IInv, Tabs
<1> HIDE DEF e
<1>6. /\ capture' \in [Readers -> SUBSET Event] /\ kept' \in [Readers -> SUBSET Event]
      /\ \A q \in Readers : kept'[q] \subseteq kept[q]
      /\ \A q \in Readers : \A x \in capture'[q] : x \in capture[q] \/ (x = e /\ q = r)
  BY <1>3, <1>5
<1>7. OfTab(e, r, device', server.generation)
  BY <1>2, <1>3, <1>4 DEF OfTab
<1>8. Tabs(reader, capture', kept', device', server.generation)
  <2>1. \A q \in Readers : \A x : OfTab(x, q, device, server.generation) => OfTab(x, q, device', server.generation)
    BY <1>4, Facts DEF OfTab
  <2> QED
    BY <1>4, <1>6, <1>7, <2>1 DEF IInv, Tabs
<1>9. Boxes(outbox, written, device', server.generation)
  <2>1. \A x \in written : x.dev \in Devices
    BY DEF IInv, Boxes, Old, Event
  <2> QED
    BY <1>4, <2>1 DEF IInv, Boxes
<1>10. Rest'
  BY <1>1 DEF Capture, IInv, Rest
<1> QED
  BY <1>8, <1>9, <1>10 DEF Capture, IInv

LEMMA StampStep == ASSUME IInv, NEW r \in Readers, Stamp(r) PROVE IInv'
<1> DEFINE d == DeviceOf[r]
<1>1. PICK e \in capture[r] :
        /\ device' = [device EXCEPT ![d].seq = @ + 1]
        /\ capture' = [capture EXCEPT ![r] = {[e EXCEPT !.seq = device[d].seq + 1]}]
        /\ UNCHANGED <<server, reader, kept, outbox, send, blocked, wire, written, spent>>
  BY DEF Stamp
<1> DEFINE x == [e EXCEPT !.seq = device[d].seq + 1]
<1>2. /\ d \in Devices /\ device \in [Devices -> [seq : Nat, clock : Nat]] /\ device[d].seq \in Nat
      /\ OfTab(e, r, device, server.generation) /\ e \in Event
      /\ capture \in [Readers -> SUBSET Event]
  BY <1>1, Facts DEF IInv, Tabs, OfTab, Old
<1>3. /\ x \in Event /\ x.dev = e.dev /\ x.gen = e.gen /\ x.era = e.era
      /\ x.seq = device[d].seq + 1
  BY <1>2 DEF Event
<1>4. /\ device' \in [Devices -> [seq : Nat, clock : Nat]]
      /\ device'[d].seq = device[d].seq + 1
      /\ \A c \in Devices : device[c].seq \in Nat /\ device'[c].seq \in Nat
                            /\ device[c].seq <= device'[c].seq
  BY <1>1, <1>2
<1>5. capture' = [capture EXCEPT ![r] = {x}]
  BY <1>1
<1> HIDE DEF x
<1>6. /\ capture' \in [Readers -> SUBSET Event]
      /\ \A q \in Readers : \A y \in capture'[q] : y \in capture[q] \/ (y = x /\ q = r)
  BY <1>2, <1>3, <1>5
<1>7. OfTab(x, r, device', server.generation)
  BY <1>2, <1>3, <1>4 DEF OfTab, Old
<1>8. \A q \in Readers : \A y : OfTab(y, q, device, server.generation) => OfTab(y, q, device', server.generation)
  <2> SUFFICES ASSUME NEW q \in Readers, NEW y, OfTab(y, q, device, server.generation)
               PROVE  OfTab(y, q, device', server.generation)
    OBVIOUS
  <2>1. y.seq \in Nat /\ DeviceOf[q] \in Devices
    BY Facts DEF OfTab, Old, Event
  <2> QED
    BY <1>4, <2>1 DEF OfTab
<1>9. Tabs(reader, capture', kept, device', server.generation)
  BY <1>4, <1>6, <1>7, <1>8 DEF IInv, Tabs
<1>10. Boxes(outbox, written, device', server.generation)
  <2>1. \A y \in written : y.dev \in Devices /\ y.seq \in 1..device[y.dev].seq
    BY DEF IInv, Boxes, Old, Event
  <2>2. \A y \in written : y.seq \in 1..device'[y.dev].seq
    BY <1>4, <2>1
  <2> QED
    BY <2>2 DEF IInv, Boxes
<1> QED
  BY <1>1, <1>9, <1>10 DEF IInv, Rest

LEMMA StoreStep == ASSUME IInv, NEW r \in Readers, Store(r) PROVE IInv'
<1>1. PICK e \in capture[r] :
        /\ e.seq > 0 /\ capture' = [capture EXCEPT ![r] = {}]
        /\ IF Full(DeviceOf[r])
           THEN kept' = [kept EXCEPT ![r] = {e}] /\ UNCHANGED <<reader, outbox, written>>
           ELSE Put(r, e) /\ UNCHANGED kept
        /\ UNCHANGED <<server, device, send, blocked, wire, spent>>
  BY DEF Store
<1>2. /\ OfTab(e, r, device, server.generation) /\ e \in Event
      /\ capture \in [Readers -> SUBSET Event] /\ kept \in [Readers -> SUBSET Event]
  BY <1>1 DEF IInv, Tabs
<1>3. /\ capture' \in [Readers -> SUBSET Event]
      /\ \A q \in Readers : capture'[q] \subseteq capture[q]
  BY <1>1, <1>2
<1>4. Rest'
  BY <1>1 DEF IInv, Rest
<1>5. CASE Full(DeviceOf[r])
  <2>1. kept' = [kept EXCEPT ![r] = {e}] /\ UNCHANGED <<reader, outbox, written>>
    BY <1>1, <1>5
  <2>2. /\ kept' \in [Readers -> SUBSET Event]
        /\ \A q \in Readers : \A x \in kept'[q] : x \in kept[q] \/ (x = e /\ q = r)
    BY <1>2, <2>1
  <2>3. Tabs(reader, capture', kept', device, server.generation)
    BY <1>1, <1>2, <1>3, <2>2 DEF IInv, Tabs
  <2> QED
    BY <1>1, <1>4, <2>1, <2>3 DEF IInv
<1>6. CASE ~Full(DeviceOf[r])
  <2>1. Put(r, e) /\ UNCHANGED kept
    BY <1>1, <1>6
  <2>2. /\ Boxes(outbox', written', device, server.generation)
        /\ Safe(written', outbox', server)
        /\ Sending(send, written', server)
        /\ Tabs(reader', capture, kept, device, server.generation)
    BY <1>1, <1>2, <2>1, PutIn
  <2>3. Tabs(reader', capture', kept, device, server.generation)
    BY <1>3, <2>2 DEF Tabs
  <2> QED
    BY <1>1, <1>4, <2>1, <2>2, <2>3 DEF IInv
<1> QED
  BY <1>5, <1>6

LEMMA SaveKeptStep == ASSUME IInv, NEW r \in Readers, SaveKept(r) PROVE IInv'
<1>1. PICK e \in kept[r] :
        /\ IF Full(DeviceOf[r])
           THEN /\ wire' = wire \cup {[e |-> e, from |-> Nobody]}
                /\ UNCHANGED <<reader, kept, outbox, written>>
           ELSE /\ Put(r, e) /\ kept' = [kept EXCEPT ![r] = {}]
                /\ UNCHANGED wire
        /\ UNCHANGED <<server, capture, device, send, blocked, spent>>
  BY DEF SaveKept
<1>2. /\ OfTab(e, r, device, server.generation) /\ e \in Event /\ e.seq > 0
      /\ Old(e, server.generation) /\ kept \in [Readers -> SUBSET Event]
  BY <1>1 DEF IInv, Tabs, OfTab
<1>3. Rest'
  BY <1>1 DEF IInv, Rest
<1>4. CASE Full(DeviceOf[r])
  <2>1. wire' = wire \cup {[e |-> e, from |-> Nobody]} /\ UNCHANGED <<reader, kept, outbox, written>>
    BY <1>1, <1>4
  <2>2. Wired(wire', send, server.generation)
    BY <1>2, <2>1 DEF IInv, Wired
  <2> QED
    BY <1>1, <1>3, <2>1, <2>2 DEF IInv
<1>5. CASE ~Full(DeviceOf[r])
  <2>1. Put(r, e) /\ kept' = [kept EXCEPT ![r] = {}] /\ UNCHANGED wire
    BY <1>1, <1>5
  <2>2. /\ Boxes(outbox', written', device, server.generation)
        /\ Safe(written', outbox', server)
        /\ Sending(send, written', server)
        /\ Tabs(reader', capture, kept, device, server.generation)
    BY <1>2, <2>1, PutIn
  <2>3. kept' \in [Readers -> SUBSET Event] /\ \A q \in Readers : kept'[q] \subseteq kept[q]
    BY <1>2, <2>1
  <2>4. Tabs(reader', capture, kept', device, server.generation)
    BY <2>2, <2>3 DEF Tabs
  <2> QED
    BY <1>1, <1>3, <2>1, <2>2, <2>4 DEF IInv
<1> QED
  BY <1>4, <1>5

LEMMA BeginStep == ASSUME IInv, NEW f \in Senders, Begin(f) PROVE IInv'
<1> DEFINE batch == NewestFirst(outbox[Home(f)])
<1>1. /\ send[f].stage = "idle" /\ send' = [send EXCEPT ![f] = Onwards(batch)]
      /\ reader' = IF batch = <<>> THEN Through(f, reader, FALSE) ELSE reader
      /\ UNCHANGED <<server, capture, kept, device, outbox, written, blocked, wire, spent>>
  BY DEF Begin
<1>2. batch \in Seq(Event) /\ \A i \in DOMAIN batch : batch[i] \in written
  <2>1. outbox[Home(f)] \in Seq(Event) /\ \A x : Within(x, outbox[Home(f)]) => x \in written
    BY Facts DEF IInv, Boxes, Within
  <2> QED
    BY <2>1, Newest
<1> HIDE DEF batch
<1>3. Sending(send', written, server)
  <2>1. Sound(Onwards(batch), written, server)
    BY <1>2, Facts, Going
  <2> QED
    BY <1>1, <2>1, OneSends DEF IInv
<1>4. Wired(wire, send', server.generation)
  BY <1>1, Facts, NotWaiting DEF IInv
<1>5. Tabs(reader', capture, kept, device, server.generation)
  <2>1. CASE f \in Readers /\ batch = <<>>
    BY <1>1, <2>1, Facts, ReaderDue DEF IInv, Through
  <2>2. CASE ~(f \in Readers /\ batch = <<>>)
    BY <1>1, <2>2 DEF IInv, Through
  <2> QED
    BY <2>1, <2>2
<1> QED
  BY <1>1, <1>3, <1>4, <1>5 DEF IInv, Rest

LEMMA SendStep == ASSUME IInv, NEW f \in Senders, Send(f) PROVE IInv'
<1> DEFINE batch == send[f].batch
<1>1. /\ send[f].stage = "ready" /\ batch # <<>> /\ UNCHANGED <<server, pages, blocked, spent>>
      /\ IF MayFlush(f)
         THEN /\ send' = [send EXCEPT ![f].stage = "sent"]
              /\ wire' = wire \cup {[e |-> Head(batch), from |-> f]}
         ELSE send' = [send EXCEPT ![f] = Onwards(Tail(batch))] /\ UNCHANGED wire
  BY DEF Send
<1>2. /\ send[f] \in Sender /\ Sound(send[f], written, server)
      /\ batch \in Seq(Event) /\ \A i \in DOMAIN batch : batch[i] \in written
  BY DEF IInv, Sending, Sound, Sender
<1>3. /\ Tail(batch) \in Seq(Event) /\ \A i \in DOMAIN Tail(batch) : Tail(batch)[i] \in written
      /\ Head(batch) \in written /\ Head(batch) \in Event /\ Old(Head(batch), server.generation)
  <2> HIDE DEF batch
  <2>1. /\ Tail(batch) \in Seq(Event) /\ \A i \in DOMAIN Tail(batch) : Tail(batch)[i] \in written
        /\ Head(batch) \in written /\ Head(batch) \in Event
    BY <1>1, <1>2, TailWithin
  <2> QED
    BY <2>1 DEF IInv, Boxes
<1>4. CASE MayFlush(f)
  <2> DEFINE x == [send[f] EXCEPT !.stage = "sent"]
  <2>1. x \in Sender /\ x.stage = "sent" /\ x.batch = send[f].batch /\ x.got = send[f].got
    BY <1>2 DEF Sender
  <2>2. send' = [send EXCEPT ![f] = x] /\ wire' = wire \cup {[e |-> Head(batch), from |-> f]}
    BY <1>1, <1>4
  <2> HIDE DEF x
  <2>3. Sound(x, written, server)
    BY <1>1, <1>2, <2>1 DEF Sound
  <2>4. Sending(send', written, server)
    BY <2>2, <2>3, OneSends DEF IInv
  <2>5. Wired(wire, send', server.generation)
    BY <1>1, <2>2, Facts, NotWaiting DEF IInv
  <2>6. send'[f] = x
    BY <2>2, Facts
  <2>7. Wired(wire', send', server.generation)
    <3>1. wire' \subseteq [e : Event, from : Senders \cup {Nobody}]
      <4>1. [e |-> Head(batch), from |-> f] \in [e : Event, from : Senders \cup {Nobody}]
        BY <1>3
      <4> QED
        BY <2>2, <2>5, <4>1 DEF Wired
    <3>2. \A m \in wire' : /\ Old(m.e, server.generation)
                           /\ m.from # Nobody =>
                                send'[m.from].stage = "sent" /\ m.e = Head(send'[m.from].batch)
      BY <1>3, <2>1, <2>2, <2>5, <2>6 DEF Wired
    <3> QED
      BY <3>1, <3>2 DEF Wired
  <2> QED
    BY <1>1, <2>4, <2>7 DEF IInv, Rest, pages
<1>5. CASE ~MayFlush(f)
  <2>1. send' = [send EXCEPT ![f] = Onwards(Tail(batch))] /\ UNCHANGED wire
    BY <1>1, <1>5
  <2>2. Sound(Onwards(Tail(batch)), written, server)
    BY <1>3, Facts, Going
  <2>3. Sending(send', written, server)
    BY <2>1, <2>2, OneSends DEF IInv
  <2>4. Wired(wire, send', server.generation)
    BY <1>1, <2>1, Facts, NotWaiting DEF IInv
  <2> QED
    BY <1>1, <2>1, <2>3, <2>4 DEF IInv, Rest, pages
<1> QED
  BY <1>4, <1>5

LEMMA FailStep == ASSUME IInv, NEW f \in Senders, Fail(f) PROVE IInv'
<1>1. /\ spent' = [spent EXCEPT !.failures = @ + 1]
      /\ send' = [send EXCEPT ![f] = Idle]
      /\ wire' \in {Orphaned(f), {m \in wire : m.from # f}}
      /\ reader' = IF f \in Readers THEN [reader EXCEPT ![f].due = TRUE] ELSE reader
      /\ UNCHANGED <<server, capture, kept, device, outbox, blocked, written>>
  BY DEF Fail
<1>2. Sending(send', written, server)
  BY <1>1, IdleAgain
<1>3. Wired(wire', send', server.generation)
  <2>1. /\ wire' \subseteq [e : Event, from : Senders \cup {Nobody}]
        /\ \A m \in wire' : /\ Old(m.e, server.generation)
                            /\ m.from # Nobody => m \in wire /\ m.from # f
    <3>1. CASE wire' = Orphaned(f)
      BY <3>1, Orphans
    <3>2. CASE wire' = {m \in wire : m.from # f}
      BY <3>2 DEF IInv, Wired
    <3> QED
      BY <1>1, <3>1, <3>2
  <2> HIDE DEF Idle
  <2> QED
    BY <1>1, <2>1, Facts, Unheard DEF IInv
<1>4. Tabs(reader', capture, kept, device, server.generation)
  BY <1>1, Facts, ReaderDue DEF IInv
<1>5. Rest'
  BY <1>1 DEF IInv, Rest
<1> QED
  BY <1>1, <1>2, <1>3, <1>4, <1>5 DEF IInv

LEMMA ReceiveStep == ASSUME IInv, NEW f \in Senders, Receive(f) PROVE IInv'
<1> DEFINE batch == send[f].batch
           e    == Head(batch)
           rest == Tail(batch)
           got  == send[f].got
           d    == Home(f)
           box  == IF Settles(f) THEN Without(outbox[d], e) ELSE outbox[d]
           told == IF f \in Readers /\ got.generation > reader[f].view
                   THEN [reader EXCEPT ![f].view = got.generation] ELSE reader
<1>1. /\ send[f].stage = "answered"
      /\ send' = [send EXCEPT ![f] = Onwards(rest)]
      /\ outbox' = [outbox EXCEPT ![d] = box]
      /\ reader' = IF rest = <<>> THEN Through(f, told, box # <<>>) ELSE told
      /\ kept' = IF f \in Readers /\ got.reset THEN [kept EXCEPT ![f] = {}] ELSE kept
      /\ UNCHANGED <<server, capture, device, blocked, wire, written, spent>>
  BY DEF Receive
<1>2. /\ Sound(send[f], written, server) /\ batch \in Seq(Event) /\ batch # <<>>
      /\ \A i \in DOMAIN batch : batch[i] \in written
      /\ Settled(e, server) /\ got.generation \in Nat /\ got.generation <= server.generation
  BY <1>1 DEF IInv, Sending, Sound, Sender, Receipt
<1>3. rest \in Seq(Event) /\ \A i \in DOMAIN rest : rest[i] \in written
  <2> HIDE DEF batch
  <2> QED
    BY <1>2, TailWithin
<1>4. d \in Devices /\ outbox \in [Devices -> Seq(Event)] /\ outbox[d] \in Seq(Event)
  BY Facts DEF IInv, Boxes
<1> HIDE DEF rest, e, d, got, batch
<1>5. /\ box \in Seq(Event)
      /\ \A i \in DOMAIN box : Within(box[i], outbox[d])
      /\ \A x : x # e /\ Within(x, outbox[d]) => Within(x, box)
  <2>1. \A i \in DOMAIN outbox[d] : Within(outbox[d][i], outbox[d])
    BY DEF Within
  <2> QED
    BY <1>4, <2>1, Taken
<1> HIDE DEF box
<1>6. /\ outbox' \in [Devices -> Seq(Event)] /\ outbox'[d] = box
      /\ \A c \in Devices : c # d => outbox'[c] = outbox[c]
  BY <1>1, <1>4, <1>5
<1>7. Boxes(outbox', written, device, server.generation)
  <2>1. \A c \in Devices : \A i \in DOMAIN outbox'[c] : outbox'[c][i] \in written
    <3> SUFFICES ASSUME NEW c \in Devices, NEW i \in DOMAIN outbox'[c]
                 PROVE  outbox'[c][i] \in written
      OBVIOUS
    <3>1. CASE c # d
      BY <1>6, <3>1 DEF IInv, Boxes
    <3>2. CASE c = d
      BY <1>4, <1>5, <1>6, <3>2 DEF IInv, Boxes, Within
    <3> QED
      BY <3>1, <3>2
  <2> QED
    BY <1>6, <2>1 DEF IInv, Boxes
<1>8. Safe(written, outbox', server)
  <2> SUFFICES ASSUME NEW x \in written PROVE Within(x, outbox'[x.dev]) \/ Settled(x, server)
    BY DEF Safe
  <2>1. x.dev \in Devices
    BY DEF IInv, Boxes, Old, Event
  <2>2. CASE x.dev # d
    BY <1>6, <2>1, <2>2 DEF IInv, Safe
  <2>3. CASE x.dev = d /\ x # e
    BY <1>5, <1>6, <2>3 DEF IInv, Safe
  <2>4. CASE x = e
    BY <1>2, <2>4
  <2> QED
    BY <2>2, <2>3, <2>4
<1>9. Sending(send', written, server)
  <2>1. Sound(Onwards(rest), written, server)
    BY <1>3, Facts, Going
  <2> QED
    BY <1>1, <2>1, OneSends DEF IInv
<1>10. Wired(wire, send', server.generation)
  BY <1>1, Facts, NotWaiting DEF IInv
<1>11. Tabs(told, capture, kept, device, server.generation)
  <2>1. CASE f \in Readers /\ got.generation > reader[f].view
    <3> DEFINE y == [reader[f] EXCEPT !.view = got.generation]
    <3>1. reader[f] \in [open : BOOLEAN, view : Nat, due : BOOLEAN]
      BY <2>1 DEF IInv, Tabs
    <3>2. /\ y \in [open : BOOLEAN, view : Nat, due : BOOLEAN] /\ y.view = got.generation
      BY <1>2, <3>1 DEF got
    <3>3. told = [reader EXCEPT ![f] = y]
      BY <2>1
    <3> HIDE DEF y, told
    <3>4. y.view <= server.generation
      BY <1>2, <3>2 DEF got
    <3> QED
      BY <2>1, <3>2, <3>3, <3>4, Facts, ReaderTold DEF IInv
  <2>2. CASE ~(f \in Readers /\ got.generation > reader[f].view)
    BY <2>2 DEF IInv
  <2> QED
    BY <2>1, <2>2
<1> HIDE DEF told
<1>12. Tabs(reader', capture, kept, device, server.generation)
  <2>1. CASE rest = <<>> /\ f \in Readers
    <3>1. reader' = [told EXCEPT ![f].due = (box # <<>>)] /\ (box # <<>>) \in BOOLEAN
      BY <1>1, <2>1 DEF Through
    <3> QED
      BY <1>11, <2>1, <3>1, Facts, ReaderDue
  <2>2. CASE ~(rest = <<>> /\ f \in Readers)
    BY <1>1, <1>11, <2>2 DEF Through
  <2> QED
    BY <2>1, <2>2
<1>13. Tabs(reader', capture, kept', device, server.generation)
  <2>1. kept' \in [Readers -> SUBSET Event] /\ \A q \in Readers : kept'[q] \subseteq kept[q]
    BY <1>1 DEF IInv, Tabs
  <2> QED
    BY <1>12, <2>1 DEF Tabs
<1> QED
  BY <1>1, <1>7, <1>8, <1>9, <1>10, <1>13 DEF IInv, Rest

LEMMA RetryStep == ASSUME IInv, NEW f \in Senders, Retry(f) PROVE IInv'
BY DEF Retry, IInv, Rest, pages

(* A sender waits for one request at a time.                                *)
LEMMA OneRequest ==
  ASSUME IInv, NEW m \in wire, m.from # Nobody
  PROVE  \A w \in wire \ {m} : Old(w.e, server.generation) /\ w.from # m.from
<1> SUFFICES ASSUME NEW w \in wire, w.from = m.from PROVE w = m
  BY DEF IInv, Wired
<1>1. w.e = Head(send[m.from].batch) /\ m.e = Head(send[m.from].batch)
  BY DEF IInv, Wired
<1>2. /\ w \in [e : Event, from : Senders \cup {Nobody}]
      /\ m \in [e : Event, from : Senders \cup {Nobody}]
  BY DEF IInv, Wired
<1> QED
  BY <1>1, <1>2

LEMMA RefuseStep == ASSUME IInv, NEW m \in wire, Refuse(m) PROVE IInv'
<1>1. /\ m.from # Nobody /\ wire' = wire \ {m}
      /\ spent' = [spent EXCEPT !.refusals = @ + 1]
      /\ send' = [send EXCEPT ![m.from] = Idle]
      /\ blocked' = [blocked EXCEPT ![m.from] = TRUE]
      /\ reader' = IF m.from \in Readers THEN [reader EXCEPT ![m.from].due = TRUE] ELSE reader
      /\ UNCHANGED <<server, capture, kept, device, outbox, written>>
  BY DEF Refuse
<1>2. m.from \in Senders
  BY <1>1 DEF IInv, Wired
<1>3. Sending(send', written, server)
  BY <1>1, <1>2, IdleAgain
<1>4. Wired(wire', send', server.generation)
  <2>1. wire' \subseteq [e : Event, from : Senders \cup {Nobody}]
    BY <1>1 DEF IInv, Wired
  <2>2. \A w \in wire' : /\ Old(w.e, server.generation)
                         /\ w.from # Nobody => w \in wire /\ w.from # m.from
    BY <1>1, OneRequest
  <2> HIDE DEF Idle
  <2> QED
    BY <1>1, <1>2, <2>1, <2>2, Facts, Unheard DEF IInv
<1>5. Tabs(reader', capture, kept, device, server.generation)
  BY <1>1, Facts, ReaderDue DEF IInv
<1>6. Rest'
  BY <1>1, <1>2 DEF IInv, Rest
<1> QED
  BY <1>1, <1>3, <1>4, <1>5, <1>6 DEF IInv

(* What the server has taken in does not make anything else unsound.        *)
LEMMA Later ==
  ASSUME IInv, NEW t, Kept(t), Grows(server, t)
  PROVE  /\ Tabs(reader, capture, kept, device, t.generation)
         /\ Boxes(outbox, written, device, t.generation)
         /\ Sending(send, written, t)
         /\ Wired(wire, send, t.generation)
         /\ Safe(written, outbox, t)
<1>1. /\ Tabs(reader, capture, kept, device, t.generation)
      /\ Boxes(outbox, written, device, t.generation)
      /\ Wired(wire, send, t.generation)
      /\ \A e \in Event : Settled(e, server) => Settled(e, t)
  BY ServerGrows DEF IInv
<1>2. Sending(send, written, t)
  <2> SUFFICES ASSUME NEW f \in Senders PROVE Sound(send[f], written, t)
    BY DEF IInv, Sending
  <2>1. Sound(send[f], written, server)
    BY DEF IInv, Sending
  <2>2. send[f].got.generation \in Nat /\ server.generation \in Nat /\ t.generation \in Nat
    BY <2>1, Facts DEF Sound, Sender, Receipt, Kept, State
  <2>3. send[f].stage = "answered" => Head(send[f].batch) \in Event
    BY <2>1, TailWithin DEF Sound, Sender
  <2> QED
    BY <1>1, <2>1, <2>2, <2>3 DEF Sound, Grows
<1>3. Safe(written, outbox, t)
  BY <1>1 DEF IInv, Safe, Boxes, Old
<1> QED
  BY <1>1, <1>2, <1>3

LEMMA ServeStep == ASSUME IInv, NEW m \in wire, Serve(m) PROVE IInv'
<1> DEFINE t == Record(server, m.e)
           f == m.from
           x == [stage |-> "answered", batch |-> send[f].batch, got |-> Answer(server, m.e)]
<1>1. /\ wire' = wire \ {m} /\ server' = t
      /\ send' = IF f = Nobody THEN send ELSE [send EXCEPT ![f] = x]
      /\ UNCHANGED <<pages, blocked, spent>>
  BY DEF Serve
<1>2. Old(m.e, server.generation) /\ Kept(server) /\ f \in Senders \cup {Nobody}
  BY DEF IInv, Wired
<1>3. Kept(t) /\ Grows(server, t) /\ Settled(m.e, t) /\ t.generation = server.generation
  BY <1>2, Recorded
<1> HIDE DEF t
<1>4. /\ Tabs(reader, capture, kept, device, t.generation)
      /\ Boxes(outbox, written, device, t.generation)
      /\ Sending(send, written, t)
      /\ Wired(wire, send, t.generation)
      /\ Safe(written, outbox, t)
  BY <1>3, Later
<1>5. Sending(send', written, t) /\ Wired(wire', send', t.generation)
  <2>1. CASE f = Nobody
    BY <1>1, <1>4, <2>1 DEF Wired
  <2>2. CASE f # Nobody
    <3>1. f \in Senders /\ send[f].stage = "sent" /\ m.e = Head(send[f].batch)
      BY <1>2, <2>2 DEF IInv, Wired
    <3>2. Sound(send[f], written, t) /\ send[f] \in Sender
      BY <1>4, <3>1 DEF Sending
    <3>3. Answer(server, m.e) \in Receipt /\ Answer(server, m.e).generation = server.generation
      BY Facts DEF Answer, Receipt
    <3>4. /\ x \in Sender /\ x.stage = "answered" /\ x.batch = send[f].batch
          /\ x.got = Answer(server, m.e)
      BY <3>2, <3>3 DEF Sender
    <3> HIDE DEF x
    <3>5. Sound(x, written, t)
      BY <1>3, <3>1, <3>2, <3>3, <3>4, Facts DEF Sound
    <3>6. send' = [send EXCEPT ![f] = x]
      BY <1>1, <2>2 DEF x
    <3>7. wire' \subseteq [e : Event, from : Senders \cup {Nobody}]
      BY <1>1 DEF IInv, Wired
    <3>8. \A w \in wire' : /\ Old(w.e, t.generation)
                           /\ w.from # Nobody => w \in wire /\ w.from # f
      BY <1>1, <1>3, <2>2, OneRequest
    <3> HIDE DEF f
    <3> QED
      BY <1>4, <3>1, <3>5, <3>6, <3>7, <3>8, Facts, OneSends, Unheard
  <2> QED
    BY <2>1, <2>2
<1> QED
  BY <1>1, <1>3, <1>4, <1>5 DEF IInv, Rest, pages

LEMMA ClearProgressStep == ASSUME IInv, ClearProgress PROVE IInv'
<1> DEFINE t == Reset(server)
<1>1. server' = t /\ UNCHANGED <<pages, send, blocked, wire, spent>>
  BY DEF ClearProgress
<1>2. Kept(t) /\ Grows(server, t)
  BY Cleared DEF IInv
<1> HIDE DEF t
<1> QED
  BY <1>1, <1>2, Later DEF IInv, Rest, pages

LEMMA Step == IInv /\ [Next]_vars => IInv'
<1> SUFFICES ASSUME IInv, [Next]_vars PROVE IInv'
  OBVIOUS
<1>1. ASSUME NEW r \in Readers,
             Open(r) \/ Close(r) \/ Capture(r) \/ Stamp(r) \/ Store(r) \/ SaveKept(r)
      PROVE  IInv'
  BY <1>1, OpenStep, CloseStep, CaptureStep, StampStep, StoreStep, SaveKeptStep
<1>2. ASSUME NEW f \in Senders, Begin(f) \/ Send(f) \/ Fail(f) \/ Receive(f) \/ Retry(f)
      PROVE  IInv'
  BY <1>2, BeginStep, SendStep, FailStep, ReceiveStep, RetryStep
<1>3. ASSUME NEW m \in wire, Serve(m) \/ Refuse(m) PROVE IInv'
  BY <1>3, ServeStep, RefuseStep
<1>4. CASE ClearProgress
  BY <1>4, ClearProgressStep
<1>5. CASE UNCHANGED vars
  BY <1>5 DEF vars, IInv, Rest
<1> QED
  BY <1>1, <1>2, <1>3, <1>4, <1>5 DEF Next

LEMMA Invariant == Spec => []IInv
BY InitIInv, Step, PTL DEF Spec

-----------------------------------------------------------------------------
(* The tables, outboxes, batches and requests hold well-formed events, and  *)
(* no browser's outbox an event with a number it has not given out.         *)
THEOREM TypeCorrect == Spec => []TypeOK
BY Invariant, Parts, PTL

(* Every event an outbox ever took is there still, is settled on the server *)
(* by itself or a later one of its device, or was cleared: requests and     *)
(* answers may be lost, late or repeated, senders closed, outboxes full.    *)
THEOREM NothingLostCorrect == Spec => []NothingLost
BY Invariant, Parts, PTL

(* No event made before a reset is shown after it (record).                 *)
THEOREM NoComebackCorrect == Spec => []NoComeback
BY Invariant, Parts, PTL

(* The position shown is the latest the server has of its device (record).  *)
THEOREM NeverBehindItselfCorrect == Spec => []NeverBehindItself
BY Invariant, Parts, PTL

-----------------------------------------------------------------------------
(* The newest position.  Within a generation IsNewer is an order as long as *)
(* the clocks and numbers of each device agree, and a number is given out   *)
(* only once: so the head leads all that is stored, and what is not stored  *)
(* has a later one of its device there.                                     *)

Stamped(e) ==
  \/ e \in written \/ e \in server.stored
  \/ \E m \in wire : e = m.e
  \/ \E r \in Readers : e \in kept[r] \/ (e \in capture[r] /\ e.seq > 0)

Numbered ==
  /\ \A e : Stamped(e) => e \in Event /\ e.seq <= device[e.dev].seq
  /\ \A e, f : Stamped(e) /\ Stamped(f) /\ e.dev = f.dev /\ e.seq = f.seq => e = f

Leads(s) ==
  \A e \in s.stored : e.gen = s.generation => \E f \in s.head : f = e \/ IsNewer(f, e)

QInv == IInv /\ Numbered /\ (Steady => Leads(server))

(* No number is given out.                                                  *)
LEMMA NoneStamped ==
  ASSUME Numbered, \A e : Stamped(e)' => Stamped(e), \A d \in Devices : device'[d].seq = device[d].seq
  PROVE  Numbered'
  <1>1. \A e : Stamped(e) => e.dev \in Devices
    BY DEF Numbered, Event
  <1> QED
    BY <1>1 DEF Numbered

LEMMA StampGivesOne ==
  ASSUME IInv, Numbered, NEW r \in Readers, Stamp(r)
  PROVE  Numbered' /\ Seen' = Seen
  <1> DEFINE d == DeviceOf[r]
             n == device[d].seq + 1
  <1>1. PICK e \in capture[r] :
          /\ e.seq = 0
          /\ device' = [device EXCEPT ![d].seq = @ + 1]
          /\ capture' = [capture EXCEPT ![r] = {[e EXCEPT !.seq = n]}]
          /\ UNCHANGED <<server, kept, wire, written>>
    BY DEF Stamp
  <1>2. /\ d \in Devices /\ device \in [Devices -> [seq : Nat, clock : Nat]] /\ n \in Nat \ {0}
        /\ capture \in [Readers -> SUBSET Event] /\ e \in Event /\ e.dev = d
    <2>1. /\ d \in Devices /\ device \in [Devices -> [seq : Nat, clock : Nat]]
          /\ capture \in [Readers -> SUBSET Event] /\ e \in Event /\ e.dev = d
      BY <1>1, ReadersAssumption DEF IInv, Tabs, OfTab
    <2>2. device[d].seq \in Nat
      BY <2>1
    <2> QED
      BY <2>1, <2>2
  <1> DEFINE x == [e EXCEPT !.seq = n]
  <1>3. x \in Event /\ x.dev = d /\ x.seq = n
    BY <1>2 DEF Event
  <1>4. /\ device'[d].seq = n /\ device[d].seq = n - 1
        /\ \A c \in Devices : c # d => device'[c].seq = device[c].seq
        /\ \A c \in Devices : device[c].seq \in Nat
    BY <1>1, <1>2
  <1>5. /\ \A u \in Readers : u # r => capture'[u] = capture[u]
        /\ capture'[r] = {x}
    BY <1>1, <1>2
  <1> HIDE DEF x, n, d
  <1>6. \A f : Stamped(f)' => Stamped(f) \/ f = x
    BY <1>1, <1>5 DEF Stamped
  <1>7. \A f : Stamped(f) => f \in Event /\ f.dev \in Devices /\ f.seq \in Nat
    BY DEF Numbered, Event
  <1>8. \A f : Stamped(f) => f.seq <= device'[f.dev].seq /\ (f.dev = d => f.seq < n)
    <2> SUFFICES ASSUME NEW f, Stamped(f)
                 PROVE  f.seq <= device'[f.dev].seq /\ (f.dev = d => f.seq < n)
      OBVIOUS
    <2>1. f.seq <= device[f.dev].seq /\ f.seq \in Nat /\ f.dev \in Devices
      BY <1>7 DEF Numbered
    <2> QED
      BY <1>2, <1>4, <2>1
  <1>9. \A f : Stamped(f)' => f \in Event /\ f.seq <= device'[f.dev].seq
    BY <1>2, <1>3, <1>4, <1>6, <1>7, <1>8
  <1>10. \A f, g : Stamped(f)' /\ Stamped(g)' /\ f.dev = g.dev /\ f.seq = g.seq => f = g
    <2> SUFFICES ASSUME NEW f, NEW g, Stamped(f)', Stamped(g)', f.dev = g.dev, f.seq = g.seq
                 PROVE  f = g
      OBVIOUS
    <2>1. (Stamped(f) \/ f = x) /\ (Stamped(g) \/ g = x)
      BY <1>6
    <2>2. CASE Stamped(f) /\ Stamped(g)
      BY <2>2 DEF Numbered
    <2>3. CASE ~(Stamped(f) /\ Stamped(g))
      BY <1>2, <1>3, <1>7, <1>8, <2>1, <2>3
    <2> QED
      BY <2>2, <2>3
  <1> QED
    BY <1>1, <1>9, <1>10 DEF Numbered, Seen

LEMMA OrphansSame ==
  ASSUME IInv, NEW f, NEW m \in Orphaned(f)
  PROVE  \E w \in wire : m.e = w.e
  <1>1. PICK w \in wire : m = IF w.from = f THEN [w EXCEPT !.from = Nobody] ELSE w
    BY DEF Orphaned
  <1>2. w \in [e : Event, from : Senders \cup {Nobody}]
    BY DEF IInv, Wired
  <1> QED
    BY <1>1, <1>2

(* The steps of a tab.                                                      *)
LEMMA TabStamps ==
  ASSUME IInv, Numbered, NEW r \in Readers,
         Open(r) \/ Close(r) \/ Capture(r) \/ Stamp(r) \/ Store(r) \/ SaveKept(r)
  PROVE  Numbered' /\ Seen \subseteq Seen'
  <1>1. CASE Stamp(r)
    BY <1>1, StampGivesOne
  <1>2. CASE Open(r)
    BY <1>2, NoneStamped DEF Open, Stamped, Seen
  <1>3. CASE Close(r)
    <2>1. \A u \in Readers : capture'[u] \subseteq capture[u] /\ kept'[u] \subseteq kept[u]
      BY <1>3 DEF Close, IInv, Tabs
    <2>2. wire' = Orphaned(r) /\ UNCHANGED <<server, written, device>>
      BY <1>3 DEF Close
    <2>3. \A m \in wire' : \E w \in wire : m.e = w.e
      BY <2>2, OrphansSame
    <2>4. \A e : Stamped(e)' => Stamped(e)
      BY <2>1, <2>2, <2>3 DEF Stamped
    <2> QED
      BY <2>2, <2>4, NoneStamped DEF Seen
  <1>4. CASE Capture(r)
    <2>1. PICK t \in 1..MaxTime :
            /\ device' = [device EXCEPT ![DeviceOf[r]].clock = t]
            /\ capture' = [capture EXCEPT ![r] =
                 {[dev |-> DeviceOf[r], seq |-> 0, at |-> t, gen |-> reader[r].view, era |-> server.generation]}]
      BY <1>4 DEF Capture
    <2>2. kept' = [kept EXCEPT ![r] = {}] /\ UNCHANGED <<server, wire, written>>
      BY <1>4 DEF Capture
    <2>3. \A d \in Devices : device'[d].seq = device[d].seq
      BY <2>1, ReadersAssumption DEF IInv, Tabs
    <2>4. \A u \in Readers : \A e \in capture'[u] : e.seq > 0 => e \in capture[u]
      BY <2>1 DEF IInv, Tabs
    <2>5. \A u \in Readers : kept'[u] \subseteq kept[u]
      BY <2>2 DEF IInv, Tabs
    <2>6. \A e : Stamped(e)' => Stamped(e)
      BY <2>2, <2>4, <2>5 DEF Stamped
    <2> QED
      BY <2>2, <2>3, <2>6, NoneStamped DEF Seen
  <1>5. CASE Store(r)
    <2>1. PICK e \in capture[r] :
            /\ e.seq > 0 /\ capture' = [capture EXCEPT ![r] = {}]
            /\ UNCHANGED <<server, device, wire>>
            /\ \/ kept' = [kept EXCEPT ![r] = {e}] /\ UNCHANGED written
               \/ UNCHANGED kept /\ written' = written \cup {e}
      BY <1>5 DEF Store, Put
    <2>2. \A u \in Readers : capture'[u] \subseteq capture[u]
      BY <2>1 DEF IInv, Tabs
    <2>3. \A u \in Readers : \A x \in kept'[u] : x \in kept[u] \/ x = e
      BY <2>1 DEF IInv, Tabs
    <2>4. Stamped(e)
      BY <2>1 DEF Stamped
    <2>5. written \subseteq written' /\ \A x \in written' : x \in written \/ x = e
      BY <2>1
    <2>6. \A x : Stamped(x)' => Stamped(x)
      BY <2>1, <2>2, <2>3, <2>4, <2>5 DEF Stamped
    <2> QED
      BY <2>1, <2>5, <2>6, NoneStamped DEF Seen
  <1>6. CASE SaveKept(r)
    <2>1. PICK e \in kept[r] :
            /\ UNCHANGED <<server, device, capture>>
            /\ \/ wire' = wire \cup {[e |-> e, from |-> Nobody]} /\ UNCHANGED <<kept, written>>
               \/ UNCHANGED wire /\ kept' = [kept EXCEPT ![r] = {}] /\ written' = written \cup {e}
      BY <1>6 DEF SaveKept, Put
    <2>2. \A u \in Readers : kept'[u] \subseteq kept[u]
      BY <2>1 DEF IInv, Tabs
    <2>3. Stamped(e)
      BY <2>1 DEF Stamped
    <2>4. written \subseteq written' /\ \A x \in written' : x \in written \/ x = e
      BY <2>1
    <2>5. \A m \in wire' : m \in wire \/ m.e = e
      BY <2>1
    <2>6. \A x : Stamped(x)' => Stamped(x)
      BY <2>1, <2>2, <2>3, <2>4, <2>5 DEF Stamped
    <2> QED
      BY <2>1, <2>4, <2>6, NoneStamped DEF Seen
  <1> QED
    BY <1>1, <1>2, <1>3, <1>4, <1>5, <1>6

(* The steps of a flush.                                                    *)
LEMMA FlushStamps ==
  ASSUME IInv, Numbered, NEW f \in Senders, Begin(f) \/ Send(f) \/ Fail(f) \/ Receive(f) \/ Retry(f)
  PROVE  Numbered' /\ Seen' = Seen
  <1>1. UNCHANGED <<server, written, device, capture>>
    BY DEF Begin, Send, Fail, Receive, Retry, pages
  <1>2. \A u \in Readers : kept'[u] \subseteq kept[u]
    BY DEF Begin, Send, Fail, Receive, Retry, pages, IInv, Tabs
  <1>3. \A m \in wire' : m.e \in written \/ \E w \in wire : m.e = w.e
    <2>1. CASE Send(f)
      <3>1. send[f].batch # <<>> /\ \A m \in wire' : m \in wire \/ m.e = Head(send[f].batch)
        BY <2>1 DEF Send
      <3>2. Head(send[f].batch) \in written
        <4>1. Sound(send[f], written, server) /\ send[f].batch \in Seq(Event)
          BY DEF IInv, Sending, Sound, Sender
        <4>2. 1 \in DOMAIN send[f].batch /\ Head(send[f].batch) = send[f].batch[1]
          BY <3>1, <4>1
        <4> QED
          BY <4>1, <4>2 DEF Sound
      <3> QED
        BY <3>1, <3>2
    <2>2. CASE Fail(f)
      BY <2>2, OrphansSame DEF Fail
    <2>3. CASE UNCHANGED wire
      BY <2>3
    <2> QED
      BY <2>1, <2>2, <2>3 DEF Begin, Receive, Retry
  <1>4. \A e : Stamped(e)' => Stamped(e)
    BY <1>1, <1>2, <1>3 DEF Stamped
  <1> QED
    BY <1>1, <1>4, NoneStamped DEF Seen

(* The steps of the server.                                                 *)
LEMMA ServerStamps ==
  ASSUME IInv, Numbered, (\E m \in wire : Serve(m) \/ Refuse(m)) \/ ClearProgress
  PROVE  Numbered' /\ Seen \subseteq Seen'
  <1>1. UNCHANGED <<written, device, capture, kept>> /\ wire' \subseteq wire
    BY DEF Serve, Refuse, ClearProgress, pages
  <1>2. /\ server.stored \subseteq server'.stored
        /\ \A e \in server'.stored : e \in server.stored \/ \E m \in wire : e = m.e
    <2>1. ASSUME NEW m \in wire, Serve(m)
          PROVE  /\ server.stored \subseteq server'.stored
                 /\ \A e \in server'.stored : e \in server.stored \/ e = m.e
      <3>1. server' = Record(server, m.e)
        BY <2>1 DEF Serve
      <3> QED
        BY <3>1 DEF Record
    <2>2. CASE ClearProgress
      BY <2>2 DEF ClearProgress, Reset
    <2>3. CASE UNCHANGED server
      BY <2>3
    <2> QED
      BY <2>1, <2>2, <2>3 DEF Refuse
  <1>3. \A e : Stamped(e)' => Stamped(e)
    BY <1>1, <1>2 DEF Stamped
  <1> QED
    BY <1>1, <1>2, <1>3, NoneStamped DEF Seen

-----------------------------------------------------------------------------
(* The order of the events. *)

(* All events of one device agree about its clock and numbers.              *)
Orderly(E) == \A e, f \in E : SameDevice(e, f) /\ e.seq < f.seq => e.at < f.at

LEMMA NewerThanLater ==
  ASSUME NEW E \in SUBSET Event, Orderly(E), NEW a \in E, NEW b \in E, NEW c \in E,
         a.gen = b.gen, b.gen = c.gen, IsNewer(a, b), IsNewer(b, c),
         a.dev = c.dev => a.seq > c.seq
  PROVE  IsNewer(a, c)
  <1>1. /\ a.seq \in Nat /\ b.seq \in Nat /\ c.seq \in Nat /\ a.at \in Nat /\ b.at \in Nat /\ c.at \in Nat
        /\ a.gen \in Nat
        /\ IdOrder[a.dev] \in Nat /\ IdOrder[b.dev] \in Nat /\ IdOrder[c.dev] \in Nat
    BY IdOrderAssumption DEF Event
  <1>2. CASE a.dev = c.dev
    BY <1>2 DEF IsNewer, SameDevice
  <1>3. CASE a.dev # c.dev
    <2>1. CASE a.dev = b.dev
      <3>1. a.at > b.at
        BY <1>1, <2>1 DEF IsNewer, SameDevice, Orderly
      <3>2. b.at >= c.at
        BY <1>1, <1>3, <2>1 DEF IsNewer, SameDevice
      <3> QED
        BY <1>1, <1>3, <3>1, <3>2 DEF IsNewer
    <2>2. CASE b.dev = c.dev
      <3>1. b.at > c.at
        BY <1>1, <2>2 DEF IsNewer, SameDevice, Orderly
      <3>2. a.at >= b.at
        BY <1>1, <1>3, <2>2 DEF IsNewer, SameDevice
      <3> QED
        BY <1>1, <1>3, <3>1, <3>2 DEF IsNewer
    <2>3. CASE a.dev # b.dev /\ b.dev # c.dev
      BY <1>1, <1>3, <2>3 DEF IsNewer, SameDevice
    <2> QED
      BY <2>1, <2>2, <2>3
  <1> QED
    BY <1>2, <1>3

LEMMA RecordLeads ==
  ASSUME NEW s, Kept(s), Leads(s), NEW e, Old(e, s.generation), Orderly(Record(s, e).stored)
  PROVE  Leads(Record(s, e))
  <1> DEFINE t == Record(s, e)
  <1>1. CASE ~Fresh(s, e)
    BY <1>1 DEF Record
  <1>2. CASE Fresh(s, e)
    <2>1. /\ t.generation = s.generation /\ t.stored = s.stored \cup {e}
          /\ t.head = IF \A f \in s.head : IsNewer(e, f) THEN {e} ELSE s.head
          /\ e.gen = s.generation
      BY <1>2 DEF Record, Fresh
    <2>2. /\ s.stored \subseteq Event /\ e \in Event /\ s.head \subseteq s.stored
          /\ \A f \in s.head : f.gen = s.generation
      BY DEF Kept, State, Old
    <2>3. \A f \in s.stored : SameDevice(f, e) => f.seq < e.seq
      <3>1. \A f \in s.stored : f.seq \in Nat /\ e.seq \in Nat
        BY <2>2 DEF Event
      <3> QED
        BY <1>2, <3>1 DEF Fresh, Passed
    <2>4. Orderly(t.stored)
      OBVIOUS
    <2> HIDE DEF t
    <2> SUFFICES ASSUME NEW x \in t.stored, x.gen = s.generation
                 PROVE  \E f \in t.head : f = x \/ IsNewer(f, x)
      BY <2>1 DEF Leads, t
    <2>5. CASE \A f \in s.head : IsNewer(e, f)
      <3>1. t.head = {e}
        BY <2>1, <2>5
      <3>2. CASE x = e
        BY <3>1, <3>2
      <3>3. CASE x # e
        <4>1. x \in s.stored
          BY <2>1, <3>3
        <4>2. PICK f \in s.head : f = x \/ IsNewer(f, x)
          BY <4>1 DEF Leads
        <4>3. IsNewer(e, f) /\ f.gen = s.generation /\ f \in s.stored
          BY <2>2, <2>5
        <4>4. x.dev = e.dev => e.seq > x.seq
          <5>1. x.seq \in Nat /\ e.seq \in Nat
            BY <2>2, <4>1 DEF Event
          <5> QED
            BY <2>1, <2>3, <4>1, <5>1 DEF SameDevice
        <4>5. IsNewer(e, x)
          BY <2>1, <2>2, <2>4, <4>1, <4>2, <4>3, <4>4, NewerThanLater
        <4> QED
          BY <3>1, <4>5
      <3> QED
        BY <3>2, <3>3
    <2>6. CASE \E f \in s.head : ~IsNewer(e, f)
      <3>1. PICK f \in s.head : ~IsNewer(e, f)
        BY <2>6
      <3>2. t.head = s.head
        BY <2>1, <2>6
      <3>3. CASE x \in s.stored
        BY <3>2, <3>3 DEF Leads
      <3>4. CASE x = e
        <4>1. /\ f \in Event /\ f.gen = e.gen /\ f.seq \in Nat /\ e.seq \in Nat /\ f.at \in Nat /\ e.at \in Nat
              /\ f.dev \in Devices /\ e.dev \in Devices
          BY <2>1, <2>2 DEF Event
        <4>2. f.dev # e.dev
          BY <2>2, <2>3, <3>1, <4>1 DEF IsNewer, SameDevice
        <4>3. IdOrder[f.dev] \in Nat /\ IdOrder[e.dev] \in Nat /\ IdOrder[f.dev] # IdOrder[e.dev]
          BY <4>1, <4>2, IdOrderAssumption
        <4>4. IsNewer(f, e)
          BY <3>1, <4>1, <4>2, <4>3 DEF IsNewer
        <4> QED
          BY <3>2, <3>4, <4>4
      <3> QED
        BY <2>1, <3>3, <3>4
    <2> QED
      BY <2>5, <2>6
  <1> QED
    BY <1>1, <1>2

LEMMA ResetLeads == ASSUME NEW s, Kept(s) PROVE Leads(Reset(s))
  <1>1. \A e \in s.stored : e.gen \in Nat /\ e.gen <= s.generation /\ s.generation \in Nat
    BY DEF Kept, Old, Event, State
  <1> QED
    BY <1>1 DEF Leads, Reset

-----------------------------------------------------------------------------
LEMMA InitQInv == Init => QInv
  <1> SUFFICES ASSUME Init PROVE QInv
    OBVIOUS
  <1>1. /\ written = {} /\ server.stored = {} /\ wire = {}
        /\ \A r \in Readers : capture[r] = {} /\ kept[r] = {}
    BY DEF Init, NewState
  <1>2. Numbered /\ Leads(server)
    BY <1>1 DEF Numbered, Stamped, Leads
  <1> QED
    BY <1>2, InitIInv DEF QInv

LEMMA StepQInv == QInv /\ [Next]_vars => QInv'
  <1> SUFFICES ASSUME QInv, [Next]_vars PROVE QInv'
    OBVIOUS
  <1>1. IInv /\ Numbered /\ IInv'
    BY Step DEF QInv
  <1>2. Numbered' /\ Seen \subseteq Seen'
    <2>1. CASE UNCHANGED vars
      <3>1. \A e : Stamped(e)' => Stamped(e)
        BY <2>1 DEF vars, Stamped
      <3> QED
        BY <1>1, <2>1, <3>1, NoneStamped DEF vars, Seen
    <2> QED
      BY <1>1, <2>1, TabStamps, FlushStamps, ServerStamps DEF Next
  <1>3. Steady' => Steady
    BY <1>2 DEF Steady
  <1>4. ASSUME Steady' PROVE Leads(server')
    <2>1. Leads(server) /\ Kept(server)
      BY <1>1, <1>3, <1>4 DEF QInv, IInv
    <2>2. CASE server' = server
      BY <2>1, <2>2
    <2>3. ASSUME NEW m \in wire, Serve(m) PROVE Leads(server')
      <3>1. server' = Record(server, m.e)
        BY <2>3 DEF Serve
      <3>2. Old(m.e, server.generation)
        BY <1>1 DEF IInv, Wired
      <3>3. Orderly(server'.stored)
        BY <1>4 DEF Steady, Seen, Orderly
      <3> QED
        BY <2>1, <3>1, <3>2, <3>3, RecordLeads
    <2>4. CASE ClearProgress
      BY <2>1, <2>4, ResetLeads DEF ClearProgress
    <2>5. UNCHANGED server \/ (\E m \in wire : Serve(m)) \/ ClearProgress
      BY DEF Next, vars, pages, Open, Close, Capture, Stamp, Store, SaveKept, Begin, Send, Fail,
             Receive, Retry, Refuse
    <2> QED
      BY <2>2, <2>3, <2>4, <2>5
  <1> QED
    BY <1>1, <1>2, <1>4 DEF QInv

LEMMA QuietNewest == QInv => QuietMeansNewest
  <1> SUFFICES ASSUME QInv, Quiet, Steady, NEW e \in Current
               PROVE  \E f \in server.head : f = e \/ IsNewer(f, e)
    BY DEF QuietMeansNewest
  <1>1. /\ Leads(server) /\ Kept(server) /\ Numbered /\ e \in Seen /\ e.gen = server.generation
        /\ Orderly(Seen)
    BY DEF QInv, IInv, Current, Steady, Orderly
  <1>2. Seen \subseteq Event
    BY <1>1 DEF Seen, Numbered, Stamped
  <1>3. CASE e \in server.stored
    BY <1>1, <1>3 DEF Leads
  <1>4. CASE e \in written
    <2>1. ~Within(e, outbox[e.dev])
      <3>1. outbox[e.dev] = <<>>
        BY <1>1, <1>2 DEF Quiet, Event
      <3> QED
        BY <3>1 DEF Within
    <2>2. Settled(e, server)
      BY <1>4, <2>1 DEF QInv, IInv, Safe
    <2>3. server.generation \in Nat
      BY <1>1 DEF Kept, State
    <2>4. PICK g \in server.stored : SameDevice(g, e) /\ g.seq >= e.seq
      BY <1>1, <2>2, <2>3 DEF Settled
    <2>5. CASE g.seq = e.seq
      <3>1. g = e
        BY <1>1, <1>4, <2>4, <2>5 DEF Numbered, Stamped, SameDevice
      <3> QED
        BY <1>3, <3>1
    <2>6. CASE g.seq # e.seq
      <3>1. g \in Seen /\ g.seq \in Nat /\ e.seq \in Nat /\ g.gen = e.gen /\ g.dev = e.dev
        BY <1>1, <1>2, <2>4 DEF Seen, Event, SameDevice
      <3>2. IsNewer(g, e)
        BY <2>4, <2>6, <3>1 DEF IsNewer
      <3>3. PICK h \in server.head : h = g \/ IsNewer(h, g)
        BY <1>1, <2>4, <3>1 DEF Leads
      <3>4. CASE h = g
        BY <3>2, <3>3, <3>4
      <3>5. CASE IsNewer(h, g)
        <4>1. h \in Seen /\ h.gen = g.gen
          BY <1>1, <3>1 DEF Kept, Seen
        <4>2. h.dev = e.dev => h.seq > e.seq
          <5>1. h.seq \in Nat /\ h.gen \in Nat
            BY <1>2, <4>1 DEF Event
          <5> QED
            <6>1. ~(h.gen > g.gen)
              BY <4>1, <5>1
            <6>2. h.dev = g.dev => h.seq > g.seq
              BY <3>5, <6>1 DEF IsNewer, SameDevice
            <6> QED
              BY <2>4, <2>6, <3>1, <5>1, <6>2
        <4>3. IsNewer(h, e)
          BY <1>1, <1>2, <3>1, <3>2, <3>5, <4>1, <4>2, NewerThanLater
        <4> QED
          BY <4>3
      <3> QED
        BY <3>3, <3>4, <3>5
    <2> QED
      BY <2>5, <2>6
  <1> QED
    BY <1>1, <1>3, <1>4 DEF Seen

(* Whatever was lost, repeated, delayed or sent newest first: once all is   *)
(* quiet the position shown is the newest there is, unless a device's clock *)
(* was set back (record).                                                   *)
THEOREM QuietMeansNewestCorrect == Spec => []QuietMeansNewest
  BY InitQInv, StepQInv, QuietNewest, PTL DEF Spec
=============================================================================
