------------------------ MODULE UploadSessionsProofs ------------------------
(***************************************************************************)
(* What is received is the start of the file, what was answered stays      *)
(* received, and what is imported is the whole file: for any number of     *)
(* calls and sessions, any sizes of file and chunk, and any number of      *)
(* failures, restarts and sessions past their date.                        *)
(*                                                                         *)
(* A call that holds the lock of a session is the only one to make its     *)
(* file grow (Holding); whoever does not, the sweep included, can only     *)
(* remove the file, and then the session receives no more (Calm).          *)
(*                                                                         *)
(* Then, on top of that: the file is added once, keeps its place, is in    *)
(* somebody's hands while it is imported, and is not added after the       *)
(* upload is cancelled (AInv).  The key and the lock together keep others  *)
(* out, but only while no session is past its date; a library and a book   *)
(* have one place for the file in any case.                                *)
(***************************************************************************)
EXTENDS UploadSessions, SequenceTheorems, TLAPS

LEMMA UptoLen == ASSUME NEW n \in Nat PROVE Upto(n) \in Seq(1..n) /\ Len(Upto(n)) = n
  BY DEF Upto

LEMMA UptoSeq == ASSUME NEW n \in 0..Size PROVE Upto(n) \in Seq(1..Size) /\ Len(Upto(n)) = n
  BY UploadAssumption DEF Upto, UploadAssumption

LEMMA UptoNothing == Upto(0) = <<>>
  BY DEF Upto

LEMMA UptoNext == ASSUME NEW n \in Nat PROVE Append(Upto(n), n + 1) = Upto(n + 1)
  BY UptoLen DEF Upto

LEMMA UptoCut == ASSUME NEW n \in Nat, NEW m \in 0..n PROVE SubSeq(Upto(n), 1, m) = Upto(m)
  BY UptoLen DEF Upto

-----------------------------------------------------------------------------
Importing == {"copied", "looked", "placed", "booked"}

Locked(q) ==
  \/ req[q].at \in {"ready", "writing", "checked", "marked"} \cup Importing
  \/ req[q].at = "wrong" /\ req[q].op # "get"

(* The file, unless it was removed, is the first n bytes.                   *)
Begins(s, n) == staged[s].there => staged[s].bytes = Upto(n)

(* What a call knows of the session it has locked.                          *)
Holding(q) ==
  LET c == req[q]
      s == c.s IN
  /\ c.at = "wrong" => Begins(s, c.k)
  /\ c.at = "ready" => c.k = 0 /\ (c.status = "receiving" => Begins(s, c.received))
  /\ c.at = "ready" /\ row[s].status = "receiving" => c.status = "receiving"
  /\ c.at = "writing" =>
       /\ c.from = c.received /\ c.k <= c.n /\ c.received + c.n <= Size
       /\ Len(staged[s].bytes) <= c.received + c.k
       /\ row[s].status = "receiving" => Begins(s, c.received + c.k) /\ acked[s] <= c.received
  /\ c.at \in {"checked", "marked"} => Begins(s, Size)
  /\ c.at \in Importing => c.data = Upto(Size)

CallOK(q) ==
  /\ req[q].s # 0 => row[req[q].s].status # "none"
  /\ req[q].at \notin {"idle", "free"} => req[q].s # 0
  /\ req[q].at = "wrong" => req[q].k <= Size
  /\ Locked(q) => lock[req[q].s] = q /\ Holding(q)

SessionOK(s) ==
  /\ row[s].status = "none" => acked[s] = 0 /\ ~row[s].key
  /\ ~staged[s].there => staged[s].bytes = <<>>
  /\ row[s].status = "receiving" =>
       /\ staged[s].there /\ acked[s] <= Len(staged[s].bytes)
       /\ staged[s].bytes = Upto(Len(staged[s].bytes))

(* What is being swept or processed has been made, and receives no more.    *)
Swept ==
  /\ \A s \in sweep.todo \cup finishing : row[s].status # "none"
  /\ sweep.at # 0 => row[sweep.at].status \notin {"none", "receiving"}

IInv ==
  /\ TypeOK /\ Swept
  /\ \A s \in Sessions : SessionOK(s)
  /\ \A q \in Requests : CallOK(q)

(* What others may do to a session that is locked.                          *)
Calm(s) ==
  /\ row'[s].status = "receiving" => row[s].status = "receiving"
  /\ acked'[s] = acked[s]
  /\ \/ staged'[s] = staged[s]
     \/ staged'[s] = Gone /\ row'[s].status # "receiving"

(* The calls but q take no step, and find what they hold as they left it.   *)
Aside(q) ==
  /\ \A p \in Requests \ {q} : req'[p] = req[p]
  /\ \A s \in Sessions, p \in Requests \ {q} : lock[s] = p => lock'[s] = p
  /\ \A s \in Sessions : row[s].status # "none" => row'[s].status # "none"
  /\ \A s \in Sessions : lock[s] = q \/ row[s].status = "none" \/ Calm(s)

LEMMA CallsKept ==
  ASSUME IInv, NEW q, Aside(q), NEW p \in Requests \ {q}
  PROVE  CallOK(p)'
<1> DEFINE c == req[p]
<1> DEFINE s == c.s
<1>1. c \in Call /\ s \in 0..MaxSessions /\ req'[p] = c
  BY DEF IInv, TypeOK, Aside, Call
<1>2. CallOK(p)
  BY DEF IInv
<1>3. s # 0 => s \in Sessions
  BY <1>1, UploadAssumption DEF Sessions, UploadAssumption
<1>4. c.s # 0 => row'[s].status # "none"
  BY <1>1, <1>2, <1>3 DEF CallOK, Aside
<1>5. ASSUME Locked(p)
      PROVE  lock'[s] = p /\ Holding(p)'
  <2>1. c.at \notin {"idle", "free"} /\ s \in Sessions /\ lock[s] = p /\ row[s].status # "none"
    BY <1>1, <1>2, <1>3, <1>5 DEF CallOK, Locked, Importing
  <2>2. lock'[s] = p /\ Calm(s)
    BY <2>1 DEF Aside
  <2>3. Holding(p)
    BY <1>2, <1>5 DEF CallOK
  <2>4. CASE staged'[s] = staged[s]
    BY <1>1, <2>2, <2>3, <2>4 DEF Holding, Calm, Begins
  <2>5. CASE staged'[s] = Gone /\ row'[s].status # "receiving"
    <3>1. Len(staged'[s].bytes) = 0 /\ ~staged'[s].there
      BY <2>5 DEF Gone
    <3>2. c.received + c.k >= 0
      BY <1>1, UploadAssumption DEF Call, UploadAssumption
    <3> QED
      BY <1>1, <2>2, <2>3, <2>5, <3>1, <3>2 DEF Holding, Begins
  <2> QED
    BY <2>2, <2>4, <2>5 DEF Calm
<1>6. Locked(p)' <=> Locked(p)
  BY <1>1 DEF Locked
<1> QED
  BY <1>1, <1>2, <1>4, <1>5, <1>6 DEF CallOK

LEMMA SessionKept ==
  ASSUME NEW s, SessionOK(s), Calm(s), row'[s].status = "none" => row'[s] = row[s]
  PROVE  SessionOK(s)'
  BY DEF SessionOK, Calm, Gone

(* A step of call q, which may change the session it has locked.            *)
Others(q, S) ==
  /\ \A p \in Requests \ {q} : req'[p] = req[p]
  /\ \A s \in Sessions, p \in Requests \ {q} : lock[s] = p => lock'[s] = p
  /\ \A s \in Sessions \ S :
       row'[s] = row[s] /\ staged'[s] = staged[s] /\ acked'[s] = acked[s]
  /\ \A s \in S : row[s].status # "none" => row'[s].status # "none"
  /\ \A s \in S : lock[s] = q \/ row[s].status = "none" \/ Calm(s)

LEMMA Together ==
  ASSUME IInv, TypeOK', Swept', NEW q, NEW S \in SUBSET Sessions, Others(q, S),
         q \in Requests => CallOK(q)',
         \A s \in S : SessionOK(s)'
  PROVE  IInv'
<1>1. Aside(q)
  BY DEF Others, Aside, Calm
<1>2. ASSUME NEW p \in Requests
      PROVE  CallOK(p)'
  BY <1>1, <1>2, CallsKept
<1>3. ASSUME NEW s \in Sessions
      PROVE  SessionOK(s)'
  <2>1. CASE s \in S
    BY <2>1
  <2>2. CASE s \notin S
    <3>1. Calm(s) /\ row'[s] = row[s] /\ SessionOK(s)
      BY <2>2 DEF Others, Calm, IInv
    <3> QED
      BY <3>1, SessionKept
  <2> QED
    BY <2>1, <2>2
<1> QED
  BY <1>2, <1>3 DEF IInv

LEMMA IdleType == Idle \in Call
  BY UploadAssumption DEF Idle, Call, UploadAssumption, Status

LEMMA IdleOK == ASSUME NEW q, req'[q] = Idle PROVE CallOK(q)'
  BY DEF CallOK, Idle, Locked, Importing

LEMMA DoneOK ==
  ASSUME IInv, NEW q \in Requests, Done(q)
  PROVE  /\ req' \in [Requests -> Call] /\ lock' \in [Sessions -> Requests \cup {Nobody}]
         /\ CallOK(q)'
         /\ \A p \in Requests \ {q} : req'[p] = req[p]
         /\ \A s \in Sessions, p \in Requests \ {q} : lock[s] = p => lock'[s] = p
<1>1. TypeOK /\ req'[q] = Idle
  BY DEF IInv, TypeOK, Done
<1>2. CallOK(q)' /\ Idle \in Call
  BY <1>1, IdleOK, IdleType
<1> QED
  BY <1>1, <1>2 DEF TypeOK, Done

(* The session of a call that is under way.                                 *)
LEMMA OfCall ==
  ASSUME IInv, NEW q \in Requests, req[q].at \notin {"idle", "free"}
  PROVE  /\ req[q] \in Call /\ req[q].s \in Sessions
         /\ row[req[q].s] \in Row /\ row[req[q].s].status # "none"
         /\ staged[req[q].s] \in Staged /\ Len(staged[req[q].s].bytes) \in 0..Size
         /\ CallOK(q) /\ SessionOK(req[q].s)
<1>1. req[q] \in Call /\ CallOK(q) /\ TypeOK
  BY DEF IInv, TypeOK
<1>2. req[q].s \in Sessions
  BY <1>1, UploadAssumption DEF Call, CallOK, Sessions, UploadAssumption
<1> QED
  BY <1>1, <1>2, UploadAssumption DEF TypeOK, CallOK, IInv, Staged, UploadAssumption

-----------------------------------------------------------------------------
LEMMA FindOK == ASSUME IInv, NEW q \in Requests, Find(q) PROVE IInv'
<1>1. PICK s \in 0..MaxSessions :
        /\ s # 0 => s \in Keyed
        /\ req' = [req EXCEPT ![q] =
             [Idle EXCEPT !.op = "create", !.at = IF s = 0 THEN "free" ELSE "found", !.s = s]]
  <2>1. PICK s \in (IF Keyed = {} THEN {0} ELSE Keyed) :
          req' = [req EXCEPT ![q] =
            [Idle EXCEPT !.op = "create", !.at = IF s = 0 THEN "free" ELSE "found", !.s = s]]
    BY DEF Find
  <2>2. s \in 0..MaxSessions /\ (s # 0 => s \in Keyed)
    BY UploadAssumption DEF Keyed, Sessions, UploadAssumption
  <2> QED
    BY <2>1, <2>2
<1>2. s # 0 => s \in Sessions /\ row[s].status # "none"
  BY <1>1 DEF Keyed, IInv, SessionOK
<1>3. TypeOK
  BY DEF IInv
<1>4. TypeOK'
  <2>1. [Idle EXCEPT !.op = "create", !.at = IF s = 0 THEN "free" ELSE "found", !.s = s] \in Call
    BY IdleType DEF Call
  <2> QED
    BY <1>1, <1>3, <2>1 DEF Find, TypeOK, quiet
<1>5. CallOK(q)'
  BY <1>1, <1>2, <1>3 DEF Find, CallOK, Idle, Locked, Importing, TypeOK
<1>6. Others(q, {}) /\ Swept'
  BY <1>1, <1>3 DEF Find, Others, IInv, Swept, TypeOK
<1> QED
  BY <1>4, <1>5, <1>6, Together

LEMMA ReleaseKeyOK == ASSUME IInv, NEW q \in Requests, ReleaseKey(q) PROVE IInv'
<1>0. PICK s \in Sessions : s = req[q].s
  BY OfCall DEF ReleaseKey
<1>1. /\ row[s] \in Row /\ row[s].status # "none" /\ req[q] \in Call
      /\ SessionOK(s) /\ TypeOK
  BY <1>0, OfCall DEF ReleaseKey, IInv
<1>2. row' = [row EXCEPT ![s].key = FALSE] /\ req' = [req EXCEPT ![q].at = "free"]
  BY <1>0 DEF ReleaseKey, Go
<1>3. TypeOK'
  <2>1. row' \in [Sessions -> Row]
    BY <1>1, <1>2 DEF TypeOK, Row
  <2>2. req' \in [Requests -> Call]
    BY <1>1, <1>2 DEF TypeOK, Call
  <2> QED
    BY <1>1, <2>1, <2>2 DEF ReleaseKey, TypeOK, quiet
<1>4. CallOK(q)'
  BY <1>0, <1>1, <1>2 DEF ReleaseKey, CallOK, Locked, Importing, TypeOK
<1>5. Others(q, {s}) /\ Swept'
  BY <1>1, <1>2 DEF ReleaseKey, Others, Calm, IInv, Swept, TypeOK
<1>6. SessionOK(s)'
  BY <1>1, <1>2 DEF ReleaseKey, SessionOK, TypeOK
<1> QED
  BY <1>3, <1>4, <1>5, <1>6, Together

LEMMA InsertOK == ASSUME IInv, NEW q \in Requests, Insert(q) PROVE IInv'
<1>1. TypeOK /\ Done(q) /\ CallOK(q)' /\ req' \in [Requests -> Call]
  BY DoneOK DEF Insert, IInv
<1>2. CASE UNCHANGED <<row, staged>>
  <2>1. TypeOK' /\ Others(q, {}) /\ Swept'
    BY <1>1, <1>2, DoneOK DEF Insert, TypeOK, quiet, Others, Swept, IInv
  <2> QED
    BY <1>1, <2>1, Together
<1>3. ASSUME NEW s \in Sessions, row[s].status = "none",
             row' = [row EXCEPT ![s] = [NoRow EXCEPT !.status = "receiving", !.key = TRUE]],
             staged' = [staged EXCEPT ![s] = [there |-> TRUE, bytes |-> <<>>]]
      PROVE  IInv'
  <2>1. TypeOK'
    <3>1. row' \in [Sessions -> Row]
      <4>1. NoRow \in Row
        BY UploadAssumption DEF Row, NoRow, Status, UploadAssumption
      <4>2. [NoRow EXCEPT !.status = "receiving", !.key = TRUE] \in Row
        BY <4>1 DEF Row, Status
      <4> QED
        BY <1>1, <1>3, <4>2 DEF TypeOK
    <3>2. staged' \in [Sessions -> Staged] /\ \A t \in Sessions : Len(staged'[t].bytes) <= Size
      BY <1>1, <1>3, UploadAssumption DEF TypeOK, Staged, UploadAssumption
    <3> QED
      BY <1>1, <3>1, <3>2, DoneOK DEF Insert, TypeOK, quiet
  <2>2. Others(q, {s})
    BY <1>1, <1>3, DoneOK DEF Insert, Others, TypeOK
  <2>3. Swept'
    <3>1. row'[s].status = "receiving" /\ Swept /\ \A t \in Sessions \ {s} : row'[t] = row[t]
      BY <1>1, <1>3 DEF IInv, TypeOK, NoRow
    <3>2. sweep.at # 0 => sweep.at \in Sessions
      BY <1>1, UploadAssumption DEF TypeOK, Sessions, UploadAssumption
    <3> QED
      BY <1>1, <1>3, <3>1, <3>2 DEF Insert, Swept, TypeOK
  <2>4. SessionOK(s)'
    <3>1. row'[s].status = "receiving" /\ staged'[s] = [there |-> TRUE, bytes |-> <<>>] /\ acked'[s] = 0
      BY <1>1, <1>3 DEF IInv, SessionOK, Insert, TypeOK, NoRow
    <3> QED
      BY <3>1, UptoNothing DEF SessionOK
  <2> QED
    BY <1>1, <2>1, <2>2, <2>3, <2>4, Together
<1> QED
  BY <1>2, <1>3 DEF Insert, Fresh

LEMMA UploadOK ==
  ASSUME IInv, NEW q \in Requests, NEW s \in Sessions, NEW n \in 1..Chunk, Upload(q, s, n)
  PROVE  IInv'
<1> DEFINE c == [Idle EXCEPT !.op = "append", !.at = "body", !.s = s, !.from = row[s].received, !.n = n]
<1>1. TypeOK /\ req' = [req EXCEPT ![q] = c]
  BY DEF Upload, IInv
<1>2. c \in Call /\ c.at = "body" /\ c.s = s
  <2>1. row[s].received \in 0..Size /\ n \in 0..Chunk /\ s \in 0..MaxSessions
    BY <1>1, UploadAssumption DEF TypeOK, Row, Sessions, UploadAssumption
  <2> QED
    BY <2>1, IdleType DEF Call
<1>3. TypeOK'
  BY <1>1, <1>2 DEF Upload, TypeOK, quiet
<1>4. CallOK(q)'
  BY <1>1, <1>2, UploadAssumption
  DEF Upload, Receiving, CallOK, Locked, Importing, TypeOK, Sessions, UploadAssumption
<1>5. Others(q, {}) /\ Swept'
  BY <1>1 DEF Upload, Others, IInv, Swept, TypeOK
<1> QED
  BY <1>3, <1>4, <1>5, Together

LEMMA AskOK ==
  ASSUME IInv, NEW q \in Requests, NEW s \in Sessions, NEW op \in {"get", "complete", "cancel"},
         Ask(q, s, op)
  PROVE  IInv'
<1> DEFINE c == [Idle EXCEPT !.op = op, !.at = "waiting", !.s = s]
<1>1. TypeOK /\ req' = [req EXCEPT ![q] = c]
  BY DEF Ask, IInv
<1>2. c \in Call /\ c.at = "waiting" /\ c.s = s
  <2>1. s \in 0..MaxSessions
    BY UploadAssumption DEF Sessions, UploadAssumption
  <2> QED
    BY <2>1, IdleType DEF Call
<1>3. TypeOK'
  BY <1>1, <1>2 DEF Ask, TypeOK, quiet
<1>4. CallOK(q)'
  BY <1>1, <1>2, UploadAssumption
  DEF Ask, Matters, CallOK, Locked, Importing, TypeOK, Sessions, UploadAssumption
<1>5. Others(q, {}) /\ Swept'
  BY <1>1 DEF Ask, Others, IInv, Swept, TypeOK
<1> QED
  BY <1>3, <1>4, <1>5, Together

LEMMA ArriveOK == ASSUME IInv, NEW q \in Requests, Arrive(q) PROVE IInv'
<1>1. TypeOK /\ req' = [req EXCEPT ![q].at = "waiting"] /\ req[q] \in Call /\ CallOK(q)
  BY OfCall DEF Arrive, Go, IInv
<1>2. TypeOK'
  BY <1>1 DEF Arrive, TypeOK, quiet, Call
<1>3. CallOK(q)' /\ Others(q, {}) /\ Swept'
  BY <1>1 DEF Arrive, CallOK, Locked, Importing, Others, IInv, Swept, TypeOK
<1> QED
  BY <1>2, <1>3, Together

LEMMA StallOK == ASSUME IInv, NEW q \in Requests, Stall(q) PROVE IInv'
<1>1. TypeOK' /\ Others(q, {}) /\ Swept' /\ CallOK(q)'
  BY DoneOK DEF Stall, IInv, TypeOK, quiet, Others, Swept
<1> QED
  BY <1>1, Together

-----------------------------------------------------------------------------
LEMMA EnterOK == ASSUME IInv, NEW q \in Requests, Enter(q) PROVE IInv'
<1> DEFINE s == req[q].s
<1> DEFINE size == Len(staged[s].bytes)
<1> DEFINE wrong == row[s].status = "receiving" /\ size # row[s].received
<1>1. TypeOK /\ s \in Sessions /\ req[q] \in Call /\ row[s] \in Row /\ row[s].status # "none"
      /\ size \in 0..Size /\ SessionOK(s) /\ req[q].at = "waiting"
  BY OfCall DEF Enter, IInv
<1>2. CASE Done(q) /\ req[q].op = "get"
  <2>1. TypeOK' /\ Others(q, {}) /\ Swept' /\ CallOK(q)'
    BY <1>2, DoneOK DEF Enter, IInv, TypeOK, quiet, Others, Swept
  <2> QED
    BY <2>1, Together
<1>3. CASE /\ req' = [req EXCEPT ![q].at = IF wrong THEN "wrong" ELSE "ready",
                                ![q].k = IF wrong THEN size ELSE 0,
                                ![q].status = row[s].status, ![q].received = row[s].received]
           /\ lock' = IF req[q].op = "get" THEN lock ELSE [lock EXCEPT ![s] = q]
           /\ req[q].op = "get" => wrong
  <2>1. TypeOK'
    <3>1. row[s].received \in 0..Size /\ row[s].status \in Status
      BY <1>1 DEF Row
    <3>2. size \in 0..(Size + Chunk) /\ 0 \in 0..(Size + Chunk)
      BY <1>1, UploadAssumption DEF UploadAssumption
    <3>3. req' \in [Requests -> Call]
      BY <1>1, <1>3, <3>1, <3>2 DEF TypeOK, Call
    <3>4. lock' \in [Sessions -> Requests \cup {Nobody}]
      BY <1>1, <1>3 DEF TypeOK
    <3> QED
      BY <1>1, <3>3, <3>4 DEF Enter, TypeOK, quiet
  <2>2. Others(q, {}) /\ Swept'
    <3>1. req[q].op = "get" \/ lock[s] \notin Requests
      BY UploadAssumption DEF Enter, MayEnter, UploadAssumption
    <3> QED
      BY <1>1, <1>3, <3>1 DEF Enter, Others, IInv, Swept, TypeOK
  <2>3. CallOK(q)'
    <3>1. /\ req'[q].s = s /\ req'[q].op = req[q].op
          /\ req'[q].at = (IF wrong THEN "wrong" ELSE "ready")
          /\ req'[q].k = (IF wrong THEN size ELSE 0)
          /\ req'[q].status = row[s].status /\ req'[q].received = row[s].received
      BY <1>1, <1>3 DEF TypeOK, Call
    <3>2. row' = row /\ staged' = staged /\ (req[q].op # "get" => lock'[s] = q)
      BY <1>1, <1>3 DEF Enter, TypeOK
    <3>3. CASE wrong
      BY <1>1, <3>1, <3>2, <3>3 DEF CallOK, Locked, Importing, Holding, Begins, SessionOK, Sessions
    <3>4. CASE ~wrong
      <4>1. row[s].status = "receiving" => staged[s].bytes = Upto(row[s].received)
        BY <1>1, <3>4 DEF SessionOK
      <4>2. req'[q].at = "ready" /\ req'[q].k = 0 /\ req[q].op # "get" /\ lock'[s] = q
        BY <1>3, <3>1, <3>2, <3>4
      <4>3. Holding(q)'
        BY <3>1, <3>2, <4>1, <4>2 DEF Holding, Begins, Importing
      <4> QED
        BY <1>1, <3>1, <3>2, <4>2, <4>3 DEF CallOK, Sessions
    <3> QED
      BY <3>3, <3>4
  <2> QED
    BY <2>1, <2>2, <2>3, Together
<1> QED
  BY <1>2, <1>3 DEF Enter

LEMMA CorrectOK == ASSUME IInv, NEW q \in Requests, Correct(q) PROVE IInv'
<1>0. PICK s \in Sessions : s = req[q].s
  BY OfCall DEF Correct
<1>1. TypeOK /\ req[q] \in Call /\ row[s] \in Row /\ row[s].status # "none"
      /\ req[q].k \in 0..Size /\ SessionOK(s) /\ CallOK(q) /\ req[q].at = "wrong"
  <2>1. TypeOK /\ req[q] \in Call /\ row[s] \in Row /\ row[s].status # "none"
        /\ SessionOK(s) /\ CallOK(q) /\ req[q].at = "wrong"
    BY <1>0, OfCall DEF Correct, IInv
  <2> QED
    BY <2>1, UploadAssumption DEF CallOK, Call, UploadAssumption
<1>2. row' = [row EXCEPT ![s].received = req[q].k]
  BY <1>0 DEF Correct
<1>3. row' \in [Sessions -> Row]
  BY <1>1, <1>2 DEF TypeOK, Row
<1>4. SessionOK(s)' /\ Swept'
  BY <1>1, <1>2 DEF Correct, SessionOK, Swept, IInv, TypeOK
<1>5. CASE Done(q)
  <2>1. TypeOK' /\ CallOK(q)'
    BY <1>3, <1>5, DoneOK DEF Correct, IInv, TypeOK, quiet
  <2>2. Others(q, {s})
    BY <1>1, <1>2, <1>5, DoneOK DEF Correct, Others, Calm, TypeOK
  <2> QED
    BY <1>4, <2>1, <2>2, Together
<1>6. CASE /\ req[q].op # "get" /\ UNCHANGED lock
           /\ req' = [req EXCEPT ![q].at = "ready", ![q].received = req[q].k, ![q].k = 0,
                                ![q].status = row[s].status]
  <2>1. TypeOK'
    <3>1. row[s].status \in Status /\ 0 \in 0..(Size + Chunk)
      BY <1>1, UploadAssumption DEF Row, UploadAssumption
    <3>2. req' \in [Requests -> Call]
      BY <1>1, <1>6, <3>1 DEF TypeOK, Call
    <3> QED
      BY <1>3, <1>6, <3>2 DEF Correct, IInv, TypeOK, quiet
  <2>2. Others(q, {s})
    BY <1>1, <1>2, <1>6 DEF Correct, Others, Calm, TypeOK
  <2>3. CallOK(q)'
    <3>1. Locked(q) /\ lock[s] = q /\ Begins(s, req[q].k)
      BY <1>0, <1>1, <1>6 DEF Locked, CallOK, Holding
    <3>2. /\ req'[q].s = s /\ req'[q].at = "ready" /\ req'[q].k = 0
          /\ req'[q].status = row[s].status /\ req'[q].received = req[q].k
      BY <1>0, <1>1, <1>6 DEF TypeOK, Call
    <3>3. row'[s].status = row[s].status /\ staged' = staged
      BY <1>1, <1>2 DEF Correct, TypeOK
    <3> QED
      <4>1. Holding(q)'
        BY <3>1, <3>2, <3>3 DEF Holding, Begins, Importing
      <4>2. s # 0 /\ row'[s].status # "none" /\ lock'[s] = q
        BY <1>1, <1>6, <3>1, <3>3 DEF Sessions
      <4> QED
        BY <3>2, <4>1, <4>2 DEF CallOK
  <2> QED
    BY <1>4, <2>1, <2>2, <2>3, Together
<1> QED
  BY <1>0, <1>5, <1>6 DEF Correct

-----------------------------------------------------------------------------
(* A call beyond the first look at its session has the lock, and knows what *)
(* is in the file.                                                          *)
LEMMA Held ==
  ASSUME IInv, NEW q \in Requests, Locked(q)
  PROVE  /\ TypeOK /\ Swept /\ req[q] \in Call /\ req[q].s \in Sessions
         /\ row[req[q].s] \in Row /\ row[req[q].s].status # "none"
         /\ staged[req[q].s] \in Staged /\ Len(staged[req[q].s].bytes) \in 0..Size
         /\ acked[req[q].s] \in 0..Size
         /\ SessionOK(req[q].s) /\ lock[req[q].s] = q /\ Holding(q)
<1>1. req[q].at \notin {"idle", "free"}
  BY DEF Locked, Importing
<1> QED
  BY <1>1, OfCall DEF CallOK, IInv, TypeOK

(* The call ends, and its session receives no more.                         *)
LEMMA Ended ==
  ASSUME IInv, NEW q \in Requests, Done(q), NEW s \in Sessions,
         lock[s] = q \/ staged' = staged \/ staged' = [staged EXCEPT ![s] = Gone],
         row[s].status # "none",
         NEW r \in Row, row' = [row EXCEPT ![s] = r], r.status \notin {"none", "receiving"},
         staged' = staged \/ staged' = [staged EXCEPT ![s] = Gone],
         acked' = acked, sweep' = sweep, \A t \in finishing' \ finishing : t = s
  PROVE  /\ Others(q, {s}) /\ Swept' /\ SessionOK(s)' /\ CallOK(q)'
         /\ row' \in [Sessions -> Row] /\ staged' \in [Sessions -> Staged]
         /\ \A t \in Sessions : Len(staged'[t].bytes) <= Size
         /\ req' \in [Requests -> Call] /\ lock' \in [Sessions -> Requests \cup {Nobody}]
<1>1. TypeOK /\ Swept /\ SessionOK(s)
  BY DEF IInv
<1>2. Gone \in Staged /\ Len(Gone.bytes) = 0
  BY DEF Gone, Staged
<1>3. /\ row' \in [Sessions -> Row] /\ staged' \in [Sessions -> Staged]
      /\ \A t \in Sessions : Len(staged'[t].bytes) <= Size
  <2>1. row' \in [Sessions -> Row]
    BY <1>1 DEF TypeOK
  <2>2. CASE staged' = staged
    BY <1>1, <2>1, <2>2 DEF TypeOK
  <2>3. CASE staged' = [staged EXCEPT ![s] = Gone]
    BY <1>1, <1>2, <2>1, <2>3, UploadAssumption DEF TypeOK, UploadAssumption
  <2> QED
    BY <2>2, <2>3
<1>4. /\ row'[s].status \notin {"none", "receiving"}
      /\ \A t \in Sessions \ {s} : row'[t] = row[t] /\ staged'[t] = staged[t]
      /\ staged'[s] = staged[s] \/ staged'[s] = Gone
  BY <1>1 DEF TypeOK
<1>5. Others(q, {s})
  BY <1>1, <1>4, DoneOK DEF Others, Calm, TypeOK
<1>6. SessionOK(s)'
  BY <1>1, <1>4 DEF SessionOK, Gone
<1>7. Swept'
  <2>1. sweep.at # 0 => sweep.at \in Sessions
    BY <1>1, UploadAssumption DEF TypeOK, Sessions, UploadAssumption
  <2> QED
    BY <1>1, <1>4, <2>1 DEF Swept, TypeOK
<1> QED
  BY <1>3, <1>5, <1>6, <1>7, DoneOK

LEMMA FailedRow ==
  ASSUME IInv, NEW s \in Sessions, Fails(s)
  PROVE  \E r \in Row : row' = [row EXCEPT ![s] = r] /\ r.status = "failed"
<1> DEFINE r == [row[s] EXCEPT !.status = "failed"]
<1>1. row[s] \in Row
  BY DEF IInv, TypeOK
<1>2. r \in Row /\ r.status = "failed"
  BY <1>1 DEF Row, Status
<1>3. row' = [row EXCEPT ![s] = r]
  BY DEF Fails
<1> QED
  BY <1>2, <1>3

LEMMA BeginWriteOK == ASSUME IInv, NEW q \in Requests, BeginWrite(q) PROVE IInv'
<1>0. PICK s \in Sessions : s = req[q].s
  BY OfCall DEF BeginWrite
<1>1. Locked(q) /\ req[q].at = "ready"
  BY DEF BeginWrite, Locked
<1>2. CASE Done(q) /\ UNCHANGED <<row, staged>>
  <2>1. TypeOK' /\ Others(q, {}) /\ Swept' /\ CallOK(q)'
    BY <1>2, DoneOK DEF BeginWrite, IInv, TypeOK, quiet, Others, Swept
  <2> QED
    BY <2>1, Together
<1>3. CASE Fails(s) /\ Remove(s) /\ Done(q)
  <2>1. PICK r \in Row : row' = [row EXCEPT ![s] = r] /\ r.status = "failed"
    BY <1>3, FailedRow
  <2>2. /\ Others(q, {s}) /\ Swept' /\ SessionOK(s)' /\ CallOK(q)'
        /\ row' \in [Sessions -> Row] /\ staged' \in [Sessions -> Staged]
        /\ \A t \in Sessions : Len(staged'[t].bytes) <= Size
        /\ req' \in [Requests -> Call] /\ lock' \in [Sessions -> Requests \cup {Nobody}]
    BY <1>0, <1>1, <1>3, <2>1, Held, Ended DEF Remove, BeginWrite
  <2>3. TypeOK'
    BY <2>2 DEF BeginWrite, IInv, TypeOK, quiet
  <2> QED
    BY <2>2, <2>3, Together
<1>4. CASE /\ StillReceiving(q) /\ Fits(q) /\ Go(q, "writing") /\ UNCHANGED <<row, staged, lock>>
  <2>1. TypeOK' /\ Others(q, {}) /\ Swept'
    <3>1. TypeOK /\ Swept /\ req[q] \in Call
      BY <1>1, Held
    <3>2. req' \in [Requests -> Call] /\ \A p \in Requests \ {q} : req'[p] = req[p]
      BY <1>4, <3>1 DEF Go, TypeOK, Call
    <3> QED
      BY <1>4, <3>1, <3>2 DEF BeginWrite, TypeOK, quiet, Others, Swept
  <2>2. CallOK(q)'
    <3>1. /\ req[q].status = "receiving" /\ req[q].from = req[q].received
          /\ req[q].n <= Size - req[q].received /\ req[q].k = 0 /\ Begins(s, req[q].received)
          /\ req[q].received \in 0..Size /\ req[q].n \in 0..Chunk
      BY <1>0, <1>1, <1>4, Held DEF StillReceiving, Fits, Holding, Call
    <3>2. req' = [req EXCEPT ![q] = [req[q] EXCEPT !.at = "writing"]]
      BY <1>4 DEF Go
    <3>3. /\ req'[q].at = "writing" /\ req'[q].s = s /\ req'[q].k = 0 /\ req'[q].n = req[q].n
          /\ req'[q].from = req[q].from /\ req'[q].received = req[q].received
      BY <1>0, <1>1, <3>1, <3>2, Held DEF TypeOK, Call
    <3>4. staged[s].bytes = Upto(req[q].received) \/ staged[s].bytes = <<>>
      BY <1>0, <1>1, <3>1, Held DEF Begins, SessionOK
    <3>5. Len(staged[s].bytes) <= req[q].received
      <4>1. Len(Upto(req[q].received)) = req[q].received /\ Len(<<>>) = 0
        BY <3>1, UptoSeq
      <4> QED
        BY <3>1, <3>4, <4>1, UploadAssumption DEF UploadAssumption
    <3>6. row[s].status = "receiving" => acked[s] <= req[q].received
      BY <1>0, <1>1, <3>5, <3>1, UploadAssumption, Held DEF SessionOK, UploadAssumption
    <3>7. Holding(q)'
      BY <1>4, <3>1, <3>3, <3>5, <3>6, UploadAssumption
      DEF BeginWrite, Holding, Begins, Importing, UploadAssumption
    <3> QED
      BY <1>0, <1>1, <1>4, <3>3, <3>7, Held DEF CallOK, Sessions
  <2> QED
    BY <2>1, <2>2, Together
<1> QED
  BY <1>0, <1>2, <1>3, <1>4 DEF BeginWrite

LEMMA Spending ==
  ASSUME TypeOK, NEW what \in {"failures", "crashes", "lapses"},
         NEW most, Spend(what, most),
         most = [failures |-> MaxFailures, crashes |-> MaxCrashes, lapses |-> MaxLapses][what]
  PROVE  spent' \in [failures : 0..MaxFailures, crashes : 0..MaxCrashes, lapses : 0..MaxLapses]
<1>1. spent \in [failures : 0..MaxFailures, crashes : 0..MaxCrashes, lapses : 0..MaxLapses]
  BY DEF TypeOK
<1>2. spent' = [spent EXCEPT ![what] = spent[what] + 1] /\ spent[what] < most
  BY DEF Spend
<1>3. CASE what = "failures"
  BY <1>1, <1>2, <1>3, UploadAssumption DEF UploadAssumption
<1>4. CASE what = "crashes"
  BY <1>1, <1>2, <1>4, UploadAssumption DEF UploadAssumption
<1>5. CASE what = "lapses"
  BY <1>1, <1>2, <1>5, UploadAssumption DEF UploadAssumption
<1> QED
  BY <1>3, <1>4, <1>5

LEMMA WriteByteOK == ASSUME IInv, NEW q \in Requests, WriteByte(q) PROVE IInv'
<1>0. PICK s \in Sessions : s = req[q].s
  BY OfCall DEF WriteByte
<1> DEFINE c == req[q]
<1> DEFINE place == c.from + c.k + 1
<1>1. Locked(q) /\ c.at = "writing" /\ c.k < c.n
  BY DEF WriteByte, Locked
<1>2. /\ TypeOK /\ Swept /\ c \in Call /\ row[s].status # "none" /\ staged[s] \in Staged
      /\ SessionOK(s) /\ lock[s] = q /\ Holding(q) /\ acked[s] \in 0..Size
  BY <1>0, <1>1, Held
<1>3. /\ c.k \in Nat /\ c.n \in Nat /\ c.received \in Nat /\ c.from = c.received
      /\ c.received + c.n <= Size /\ Size \in Nat /\ place \in 1..Size
      /\ Len(staged[s].bytes) \in Nat /\ Len(staged[s].bytes) <= c.received + c.k
      /\ row[s].status = "receiving" =>
           staged[s].there /\ staged[s].bytes = Upto(c.received + c.k) /\ acked[s] <= c.received
  <2>1. /\ c.k \in Nat /\ c.n \in Nat /\ c.received \in Nat /\ Size \in Nat
        /\ Len(staged[s].bytes) \in Nat
    <3>1. Size \in Nat /\ Chunk \in Nat
      BY UploadAssumption DEF UploadAssumption
    <3>2. c.k \in Nat /\ c.n \in Nat /\ c.received \in Nat
      BY <1>2, <3>1 DEF Call
    <3>3. staged[s].bytes \in Seq(1..Size)
      BY <1>2 DEF Staged
    <3> QED
      BY <3>1, <3>2, <3>3
  <2>2. /\ c.from = c.received /\ c.received + c.n <= Size
        /\ Len(staged[s].bytes) <= c.received + c.k
        /\ row[s].status = "receiving" => Begins(s, c.received + c.k) /\ acked[s] <= c.received
    BY <1>0, <1>1, <1>2 DEF Holding
  <2>3. row[s].status = "receiving" => staged[s].there
    BY <1>2 DEF SessionOK
  <2>4. place \in 1..Size
    BY <1>1, <2>1, <2>2
  <2> QED
    BY <2>1, <2>2, <2>3, <2>4 DEF Begins
<1> DEFINE longer == [there |-> TRUE, bytes |-> Append(staged[s].bytes, place)]
<1>4. /\ req' = [req EXCEPT ![q].k = c.k + 1]
      /\ \/ staged' = [staged EXCEPT ![s] = longer]
         \/ staged' = staged /\ ~staged[s].there
  <2>1. /\ req' = [req EXCEPT ![q].k = req[q].k + 1]
        /\ staged' = IF staged[s].there \/ c.k = 0 THEN [staged EXCEPT ![s] = longer] ELSE staged
    BY <1>0 DEF WriteByte
  <2> QED
    BY <2>1
<1>5. /\ longer \in Staged /\ Len(longer.bytes) <= c.received + c.k + 1 /\ Len(longer.bytes) <= Size
      /\ Len(longer.bytes) = Len(staged[s].bytes) + 1
  <2>1. staged[s].bytes \in Seq(1..Size)
    BY <1>2 DEF Staged
  <2>2. /\ Append(staged[s].bytes, place) \in Seq(1..Size)
        /\ Len(Append(staged[s].bytes, place)) = Len(staged[s].bytes) + 1
    BY <1>3, <2>1
  <2>3. c.k + 1 <= c.n
    BY <1>1, <1>3
  <2>4. Len(staged[s].bytes) + 1 <= c.received + c.k + 1 /\ c.received + c.k + 1 <= Size
    BY <1>3, <2>3
  <2> HIDE DEF longer
  <2>5. longer.there = TRUE /\ longer.bytes = Append(staged[s].bytes, place) /\ longer \in Staged
    BY <2>2 DEF longer, Staged
  <2> QED
    BY <1>3, <2>2, <2>4, <2>5
<1>6. row[s].status = "receiving" =>
        /\ staged' = [staged EXCEPT ![s] = longer]
        /\ longer.bytes = Upto(c.received + c.k + 1) /\ Len(longer.bytes) = c.received + c.k + 1
  <2> DEFINE m == c.received + c.k
  <2>1. m \in Nat /\ place = m + 1
    BY <1>3
  <2> HIDE DEF m
  <2>2. Append(Upto(m), m + 1) = Upto(m + 1) /\ Len(Upto(m + 1)) = m + 1
    <3>1. m + 1 \in Nat
      BY <2>1
    <3>2. Len(Upto(m + 1)) = m + 1
      BY <3>1, UptoLen
    <3> QED
      BY <2>1, <3>2, UptoNext
  <2>3. row[s].status = "receiving" => longer.bytes = Upto(m + 1) /\ Len(longer.bytes) = m + 1
    BY <1>3, <2>1, <2>2 DEF m
  <2> QED
    BY <1>3, <1>4, <2>3 DEF m
<1>7. TypeOK'
  <2>1. c.k + 1 \in 0..(Size + Chunk)
    <3>1. c.n \in 0..Chunk /\ Chunk \in Nat
      BY <1>2, UploadAssumption DEF Call, UploadAssumption
    <3> QED
      <4> DEFINE k == c.k
      <4> DEFINE n == c.n
      <4>1. k \in Nat /\ n \in 0..Chunk /\ k < n /\ Size \in Nat
        BY <1>1, <1>3, <3>1
      <4> HIDE DEF k, n
      <4> QED
        BY <3>1, <4>1 DEF k
  <2>2. req' \in [Requests -> Call]
    BY <1>2, <1>4, <2>1 DEF TypeOK, Call
  <2>3. staged' \in [Sessions -> Staged] /\ \A t \in Sessions : Len(staged'[t].bytes) <= Size
    BY <1>2, <1>4, <1>5 DEF TypeOK
  <2> QED
    BY <1>2, <2>2, <2>3 DEF WriteByte, TypeOK, quiet
<1>8. Others(q, {s}) /\ Swept'
  BY <1>2, <1>4 DEF WriteByte, Others, Swept, TypeOK
<1>9. SessionOK(s)'
  <2>1. row' = row /\ acked' = acked
    BY DEF WriteByte
  <2>2. CASE staged' = [staged EXCEPT ![s] = longer]
    <3>1. staged'[s] = longer
      BY <1>2, <2>2 DEF TypeOK
    <3> QED
      BY <1>2, <1>3, <1>5, <1>6, <2>1, <3>1 DEF SessionOK
  <2>3. CASE staged' = staged /\ ~staged[s].there
    BY <1>2, <2>1, <2>3 DEF SessionOK
  <2> QED
    BY <1>4, <2>2, <2>3
<1>10. CallOK(q)'
  <2>1. /\ req'[q].at = "writing" /\ req'[q].s = s /\ req'[q].k = c.k + 1 /\ req'[q].n = c.n
        /\ req'[q].from = c.from /\ req'[q].received = c.received
    BY <1>0, <1>1, <1>2, <1>4 DEF TypeOK, Call
  <2>2. row' = row /\ acked' = acked /\ lock' = lock
    BY DEF WriteByte
  <2>3. Len(staged'[s].bytes) <= c.received + c.k + 1
    BY <1>2, <1>3, <1>4, <1>5 DEF TypeOK
  <2>4. row[s].status = "receiving" => staged'[s].bytes = Upto(c.received + c.k + 1)
    BY <1>2, <1>6 DEF TypeOK
  <2>5. c.k + 1 <= c.n /\ c.received + (c.k + 1) = c.received + c.k + 1
    BY <1>1, <1>3
  <2>6. Holding(q)'
    BY <1>3, <2>1, <2>2, <2>3, <2>4, <2>5 DEF Holding, Begins, Importing
  <2> QED
    BY <1>2, <2>1, <2>2, <2>6 DEF CallOK, Sessions
<1> QED
  BY <1>7, <1>8, <1>9, <1>10, Together

LEMMA WriteFailsOK == ASSUME IInv, NEW q \in Requests, WriteFails(q) PROVE IInv'
<1>0. PICK s \in Sessions : s = req[q].s
  BY OfCall DEF WriteFails
<1> DEFINE c == req[q]
<1> DEFINE cut == SubSeq(staged[s].bytes, 1, c.received)
<1>1. Locked(q) /\ c.at = "writing" /\ Done(q)
  BY DEF WriteFails, Locked
<1>2. /\ TypeOK /\ Swept /\ c \in Call /\ row[s].status # "none" /\ staged[s] \in Staged
      /\ SessionOK(s) /\ lock[s] = q /\ Holding(q) /\ acked[s] \in 0..Size
  BY <1>0, <1>1, Held
<1>3. /\ c.k \in Nat /\ c.received \in 0..Size /\ Size \in Nat
      /\ row[s].status = "receiving" =>
           staged[s].there /\ staged[s].bytes = Upto(c.received + c.k) /\ acked[s] <= c.received
  BY <1>0, <1>1, <1>2, UploadAssumption
  DEF Holding, Call, UploadAssumption, Begins, SessionOK
<1>4. \/ /\ staged[s].there /\ Len(staged[s].bytes) >= c.received
         /\ staged' = [staged EXCEPT ![s].bytes = cut]
      \/ staged' = staged
  BY <1>0 DEF WriteFails, Cut
<1>5. TypeOK'
  <2>1. spent' \in [failures : 0..MaxFailures, crashes : 0..MaxCrashes, lapses : 0..MaxLapses]
    BY <1>2, Spending DEF WriteFails
  <2>2. staged' \in [Sessions -> Staged] /\ \A t \in Sessions : Len(staged'[t].bytes) <= Size
    <3>1. CASE staged' = staged
      BY <1>2, <3>1 DEF TypeOK
    <3>2. CASE Len(staged[s].bytes) >= c.received /\ staged' = [staged EXCEPT ![s].bytes = cut]
      <4>1. cut \in Seq(1..Size) /\ Len(cut) = c.received
        BY <1>2, <1>3, <3>2 DEF Staged
      <4> QED
        <5>1. [staged[s] EXCEPT !.bytes = cut] \in Staged
          BY <1>2, <4>1 DEF Staged
        <5>2. staged' = [staged EXCEPT ![s] = [staged[s] EXCEPT !.bytes = cut]]
          BY <3>2
        <5>3. [staged[s] EXCEPT !.bytes = cut].bytes = cut
          BY <1>2 DEF Staged
        <5>4. staged'[s].bytes = cut
          BY <1>2, <5>2, <5>3 DEF TypeOK
        <5>5. \A t \in Sessions \ {s} : staged'[t] = staged[t]
          BY <5>2
        <5>6. staged' \in [Sessions -> Staged]
          BY <1>2, <5>1, <5>2 DEF TypeOK
        <5>7. Len(cut) <= Size
          BY <1>3, <4>1
        <5> QED
          BY <1>2, <5>4, <5>5, <5>6, <5>7 DEF TypeOK
    <3> QED
      BY <1>4, <3>1, <3>2
  <2> QED
    BY <1>1, <1>2, <2>1, <2>2, DoneOK DEF WriteFails, TypeOK, quiet
<1>6. Others(q, {s}) /\ Swept' /\ CallOK(q)'
  BY <1>1, <1>2, <1>4, DoneOK DEF WriteFails, Others, Swept, TypeOK
<1>7. SessionOK(s)'
  <2>1. row' = row /\ acked' = acked
    BY DEF WriteFails
  <2>2. CASE staged' = staged
    BY <1>2, <2>1, <2>2 DEF SessionOK
  <2>3. CASE staged[s].there /\ staged' = [staged EXCEPT ![s].bytes = cut]
    <3>1. staged'[s].there /\ staged'[s].bytes = cut
      BY <1>2, <2>3 DEF TypeOK, Staged
    <3>2. row[s].status = "receiving" => cut = Upto(c.received) /\ Len(cut) = c.received
      <4>1. c.received \in Nat /\ c.received + c.k \in Nat /\ c.received \in 0..(c.received + c.k)
        BY <1>3
      <4> QED
        BY <1>3, <4>1, UptoCut, UptoLen
    <3> QED
      BY <1>2, <1>3, <2>1, <3>1, <3>2 DEF SessionOK
  <2> QED
    BY <1>4, <2>2, <2>3
<1> QED
  BY <1>5, <1>6, <1>7, Together

LEMMA EndWriteOK == ASSUME IInv, NEW q \in Requests, EndWrite(q) PROVE IInv'
<1>0. PICK s \in Sessions : s = req[q].s
  BY OfCall DEF EndWrite
<1> DEFINE c == req[q]
<1> DEFINE size == c.received + c.n
<1>1. Locked(q) /\ c.at = "writing" /\ Done(q) /\ c.k = c.n
  BY DEF EndWrite, Locked
<1>2. /\ TypeOK /\ Swept /\ c \in Call /\ row[s].status # "none" /\ row[s] \in Row
      /\ SessionOK(s) /\ lock[s] = q /\ Holding(q)
  BY <1>0, <1>1, Held
<1>3. /\ size \in 0..Size
      /\ row[s].status = "receiving" => staged[s].there /\ staged[s].bytes = Upto(size)
  BY <1>0, <1>1, <1>2, UploadAssumption
  DEF Holding, Call, UploadAssumption, Begins, SessionOK
<1>4. /\ row' = [row EXCEPT ![s] = [row[s] EXCEPT !.received = size, !.late = FALSE]]
      /\ acked' = [acked EXCEPT ![s] = size] /\ staged' = staged
  BY <1>0 DEF EndWrite
<1>5. TypeOK'
  <2>1. [row[s] EXCEPT !.received = size, !.late = FALSE] \in Row
    BY <1>2, <1>3 DEF Row
  <2>2. row' \in [Sessions -> Row] /\ acked' \in [Sessions -> 0..Size]
    BY <1>2, <1>3, <1>4, <2>1 DEF TypeOK
  <2> QED
    BY <1>1, <1>2, <2>2, DoneOK DEF EndWrite, TypeOK, quiet
<1>6. row'[s].status = row[s].status /\ \A t \in Sessions \ {s} : row'[t] = row[t]
  BY <1>2, <1>4 DEF TypeOK, Row
<1>7. Others(q, {s}) /\ Swept' /\ CallOK(q)'
  <2>1. Others(q, {s}) /\ CallOK(q)'
    <3>1. \A t \in Sessions \ {s} : acked'[t] = acked[t]
      BY <1>2, <1>4 DEF TypeOK
    <3> QED
      BY <1>1, <1>2, <1>4, <1>6, <3>1, DoneOK DEF Others
  <2>2. sweep.at # 0 => sweep.at \in Sessions
    BY <1>2, UploadAssumption DEF TypeOK, Sessions, UploadAssumption
  <2> QED
    BY <1>2, <1>6, <2>1, <2>2 DEF EndWrite, Swept, TypeOK
<1>8. SessionOK(s)'
  <2>1. acked'[s] = size
    BY <1>2, <1>4 DEF TypeOK
  <2> QED
    BY <1>2, <1>3, <1>4, <1>6, <2>1, UptoSeq DEF SessionOK
<1> QED
  BY <1>5, <1>7, <1>8, Together

-----------------------------------------------------------------------------
(* A call goes on to another step, with its session as it is.               *)
LEMMA Moved ==
  ASSUME IInv, NEW q \in Requests, Locked(q), NEW s \in Sessions, s = req[q].s,
         NEW at \in {"checked", "marked"} \cup Importing, Go(q, at), UNCHANGED <<staged, lock>>,
         row'[s].status # "none",
         at \in {"checked", "marked"} => Begins(s, Size),
         at \in Importing => req[q].data = Upto(Size)
  PROVE  CallOK(q)' /\ req' \in [Requests -> Call] /\ \A p \in Requests \ {q} : req'[p] = req[p]
<1>1. TypeOK /\ req[q] \in Call /\ lock[s] = q
  BY Held
<1>2. req' \in [Requests -> Call] /\ \A p \in Requests \ {q} : req'[p] = req[p]
  BY <1>1 DEF Go, TypeOK, Call, Importing
<1>3. req'[q].at = at /\ req'[q].s = s /\ req'[q].data = req[q].data
  BY <1>1 DEF Go, TypeOK, Call
<1>4. Holding(q)'
  BY <1>3 DEF Holding, Begins, Importing
<1> QED
  BY <1>1, <1>2, <1>3, <1>4 DEF CallOK, Importing, Sessions

(* The call ends; nothing else changes, or its session has failed.          *)
LEMMA EndedQuietly ==
  ASSUME IInv, NEW q \in Requests, Done(q), UNCHANGED <<row, staged, acked, sweep, finishing>>
  PROVE  /\ Others(q, {}) /\ Swept' /\ CallOK(q)'
         /\ req' \in [Requests -> Call] /\ lock' \in [Sessions -> Requests \cup {Nobody}]
  BY DoneOK DEF IInv, TypeOK, Others, Swept

LEMMA EndedFailing ==
  ASSUME IInv, NEW q \in Requests, Done(q), Locked(q), NEW s \in Sessions, s = req[q].s,
         Fails(s),
         staged' = staged \/ staged' = [staged EXCEPT ![s] = Gone],
         UNCHANGED <<acked, sweep, finishing>>
  PROVE  /\ Others(q, {s}) /\ Swept' /\ SessionOK(s)' /\ CallOK(q)'
         /\ row' \in [Sessions -> Row] /\ staged' \in [Sessions -> Staged]
         /\ \A t \in Sessions : Len(staged'[t].bytes) <= Size
         /\ req' \in [Requests -> Call] /\ lock' \in [Sessions -> Requests \cup {Nobody}]
<1>1. PICK r \in Row : row' = [row EXCEPT ![s] = r] /\ r.status = "failed"
  BY FailedRow
<1> QED
  BY <1>1, Held, Ended

LEMMA CheckOK == ASSUME IInv, NEW q \in Requests, Check(q) PROVE IInv'
<1>0. PICK s \in Sessions : s = req[q].s
  BY OfCall DEF Check
<1>1. Locked(q) /\ req[q].at = "ready"
  BY DEF Check, Locked
<1>2. TypeOK /\ Swept /\ SessionOK(s) /\ Holding(q) /\ row[s].status # "none"
  BY <1>0, <1>1, Held
<1>3. CASE Done(q) /\ UNCHANGED <<row, staged>>
  <2>1. Others(q, {}) /\ Swept' /\ CallOK(q)' /\ TypeOK'
    BY <1>2, <1>3, EndedQuietly DEF Check, TypeOK, quiet
  <2> QED
    BY <2>1, Together
<1>4. CASE Fails(s) /\ Remove(s) /\ Done(q)
  <2>1. Others(q, {s}) /\ Swept' /\ SessionOK(s)' /\ CallOK(q)' /\ TypeOK'
    BY <1>0, <1>1, <1>2, <1>4, EndedFailing DEF Check, TypeOK, quiet, Remove
  <2> QED
    BY <2>1, Together
<1>5. CASE /\ StillReceiving(q) /\ req[q].received = Size /\ There(s)
           /\ Go(q, "checked") /\ UNCHANGED <<row, staged, lock>>
  <2>1. Begins(s, Size)
    BY <1>0, <1>1, <1>2, <1>5 DEF Holding, StillReceiving
  <2>2. CallOK(q)' /\ req' \in [Requests -> Call] /\ \A p \in Requests \ {q} : req'[p] = req[p]
    BY <1>0, <1>1, <1>2, <1>5, <2>1, Moved DEF Importing
  <2>3. Others(q, {}) /\ Swept' /\ TypeOK'
    BY <1>2, <1>5, <2>2 DEF Check, TypeOK, quiet, Others, Swept
  <2> QED
    BY <2>2, <2>3, Together
<1> QED
  BY <1>0, <1>3, <1>4, <1>5 DEF Check

LEMMA MarkOK == ASSUME IInv, NEW q \in Requests, Mark(q) PROVE IInv'
<1>0. PICK s \in Sessions : s = req[q].s
  BY OfCall DEF Mark
<1>1. Locked(q) /\ req[q].at = "checked"
  BY DEF Mark, Locked
<1>2. /\ TypeOK /\ Swept /\ SessionOK(s) /\ Holding(q) /\ row[s] \in Row /\ lock[s] = q
      /\ row[s].status # "none"
  BY <1>0, <1>1, Held
<1> DEFINE r == [row[s] EXCEPT !.status = "processing"]
<1>3. row' = [row EXCEPT ![s] = r] /\ r \in Row /\ r.status = "processing"
  <2>1. r \in Row /\ r.status = "processing"
    BY <1>2 DEF Row, Status
  <2> QED
    BY <1>0, <2>1 DEF Mark
<1>4. row' \in [Sessions -> Row] /\ row'[s].status = "processing"
      /\ \A t \in Sessions \ {s} : row'[t] = row[t]
  BY <1>2, <1>3 DEF TypeOK
<1>5. CallOK(q)' /\ req' \in [Requests -> Call] /\ \A p \in Requests \ {q} : req'[p] = req[p]
  <2>1. Begins(s, Size)
    BY <1>0, <1>1, <1>2 DEF Holding
  <2> QED
    BY <1>0, <1>1, <1>4, <2>1, Moved DEF Mark, Importing
<1>6. Others(q, {s}) /\ TypeOK'
  BY <1>2, <1>4, <1>5 DEF Mark, TypeOK, quiet, Others
<1>7. Swept' /\ SessionOK(s)'
  <2>1. sweep.at # 0 => sweep.at \in Sessions
    BY <1>2, UploadAssumption DEF TypeOK, Sessions, UploadAssumption
  <2> QED
    BY <1>2, <1>4, <2>1 DEF Mark, Swept, TypeOK, SessionOK
<1> QED
  BY <1>5, <1>6, <1>7, Together

LEMMA CopyOK == ASSUME IInv, NEW q \in Requests, Copy(q) PROVE IInv'
<1>0. PICK s \in Sessions : s = req[q].s
  BY OfCall DEF Copy
<1>1. Locked(q) /\ req[q].at = "marked"
  BY DEF Copy, Locked
<1>2. /\ TypeOK /\ Swept /\ SessionOK(s) /\ Holding(q) /\ row[s].status # "none" /\ lock[s] = q
      /\ req[q] \in Call /\ staged[s] \in Staged
  BY <1>0, <1>1, Held
<1>3. CASE Fails(s) /\ Done(q)
  <2>1. Others(q, {s}) /\ Swept' /\ SessionOK(s)' /\ CallOK(q)' /\ TypeOK'
    BY <1>0, <1>1, <1>2, <1>3, EndedFailing DEF Copy, TypeOK, quiet
  <2> QED
    BY <2>1, Together
<1>4. CASE /\ There(s) /\ req' = [req EXCEPT ![q].at = "copied", ![q].data = staged[s].bytes]
           /\ UNCHANGED <<row, lock>>
  <2>1. staged[s].bytes = Upto(Size) /\ staged[s].bytes \in Seq(1..Size)
    BY <1>0, <1>1, <1>2, <1>4 DEF Holding, Begins, There, Staged
  <2>2. req' \in [Requests -> Call] /\ \A p \in Requests \ {q} : req'[p] = req[p]
    BY <1>2, <1>4, <2>1 DEF TypeOK, Call
  <2>3. req'[q].at = "copied" /\ req'[q].s = s /\ req'[q].data = Upto(Size)
    BY <1>0, <1>2, <1>4, <2>1 DEF TypeOK, Call
  <2>4. CallOK(q)'
    <3>1. Holding(q)'
      BY <2>3 DEF Holding, Importing
    <3> QED
      BY <1>2, <1>4, <2>3, <3>1 DEF CallOK, Sessions
  <2>5. Others(q, {}) /\ Swept' /\ TypeOK'
    BY <1>2, <1>4, <2>2 DEF Copy, TypeOK, quiet, Others, Swept
  <2> QED
    BY <2>4, <2>5, Together
<1> QED
  BY <1>0, <1>3, <1>4 DEF Copy

LEMMA LookOK == ASSUME IInv, NEW q \in Requests, Look(q) PROVE IInv'
<1>0. PICK s \in Sessions : s = req[q].s
  BY OfCall DEF Look
<1>1. Locked(q) /\ req[q].at = "copied"
  BY DEF Look, Locked, Importing
<1>2. TypeOK /\ Swept /\ SessionOK(s) /\ Holding(q) /\ row[s].status # "none"
  BY <1>0, <1>1, Held
<1>3. CASE Fails(s) /\ Done(q)
  <2>1. Others(q, {s}) /\ Swept' /\ SessionOK(s)' /\ CallOK(q)' /\ TypeOK'
    BY <1>0, <1>1, <1>2, <1>3, EndedFailing DEF Look, TypeOK, quiet
  <2> QED
    BY <2>1, Together
<1>4. CASE Go(q, "looked") /\ UNCHANGED <<row, lock>>
  <2>1. CallOK(q)' /\ req' \in [Requests -> Call] /\ \A p \in Requests \ {q} : req'[p] = req[p]
    BY <1>0, <1>1, <1>2, <1>4, Moved DEF Look, Holding, Importing
  <2>2. Others(q, {}) /\ Swept' /\ TypeOK'
    BY <1>2, <1>4, <2>1 DEF Look, TypeOK, quiet, Others, Swept
  <2> QED
    BY <2>1, <2>2, Together
<1> QED
  BY <1>0, <1>3, <1>4 DEF Look

LEMMA PlaceOK == ASSUME IInv, NEW q \in Requests, Place(q) PROVE IInv'
<1>0. PICK s \in Sessions : s = req[q].s
  BY OfCall DEF Place
<1>1. Locked(q) /\ req[q].at = "looked"
  BY DEF Place, Locked, Importing
<1>2. TypeOK /\ Swept /\ SessionOK(s) /\ Holding(q) /\ row[s].status # "none"
  BY <1>0, <1>1, Held
<1>3. CallOK(q)' /\ req' \in [Requests -> Call] /\ \A p \in Requests \ {q} : req'[p] = req[p]
  BY <1>0, <1>1, <1>2, Moved DEF Place, Holding, Importing
<1>4. disk' \subseteq Sessions
  BY <1>0, <1>2 DEF Place, TypeOK
<1>5. Others(q, {}) /\ Swept' /\ TypeOK'
  BY <1>2, <1>3, <1>4 DEF Place, TypeOK, quiet, Others, Swept
<1> QED
  BY <1>3, <1>5, Together

LEMMA EnrollOK == ASSUME IInv, NEW q \in Requests, Enroll(q) PROVE IInv'
<1>0. PICK s \in Sessions : s = req[q].s
  BY OfCall DEF Enroll
<1>1. Locked(q) /\ req[q].at = "placed"
  BY DEF Enroll, Locked, Importing
<1>2. /\ TypeOK /\ Swept /\ SessionOK(s) /\ Holding(q) /\ row[s] \in Row /\ lock[s] = q
      /\ row[s].status # "none"
  BY <1>0, <1>1, Held
<1>3. booked' \subseteq Sessions
  BY <1>0, <1>2 DEF Enroll, TypeOK
<1>4. CASE /\ Done(q) /\ row' = [row EXCEPT ![s].result = TRUE] /\ finishing' = finishing \cup {s}
  <2>1. /\ row' \in [Sessions -> Row] /\ row'[s].status = row[s].status /\ row'[s].key = row[s].key
        /\ \A t \in Sessions \ {s} : row'[t] = row[t]
    BY <1>2, <1>4 DEF TypeOK, Row
  <2>2. /\ req' \in [Requests -> Call] /\ lock' \in [Sessions -> Requests \cup {Nobody}]
        /\ CallOK(q)' /\ Others(q, {s})
    BY <1>2, <1>4, <2>1, DoneOK DEF Enroll, Others
  <2>3. TypeOK'
    BY <1>2, <1>3, <1>4, <2>1, <2>2 DEF Enroll, TypeOK, quiet
  <2>4. sweep.at # 0 => sweep.at \in Sessions
    BY <1>2, UploadAssumption DEF TypeOK, Sessions, UploadAssumption
  <2>5. Swept' /\ SessionOK(s)'
    BY <1>2, <1>4, <2>1, <2>4 DEF Enroll, Swept, SessionOK, TypeOK
  <2> QED
    BY <2>2, <2>3, <2>5, Together
<1>5. CASE Fails(s) /\ Done(q) /\ UNCHANGED finishing
  <2>1. Others(q, {s}) /\ Swept' /\ SessionOK(s)' /\ CallOK(q)' /\ TypeOK'
    BY <1>0, <1>1, <1>2, <1>3, <1>5, EndedFailing DEF Enroll, TypeOK, quiet
  <2> QED
    BY <2>1, Together
<1>6. CASE Go(q, "booked") /\ UNCHANGED <<row, finishing, lock>>
  <2>1. CallOK(q)' /\ req' \in [Requests -> Call] /\ \A p \in Requests \ {q} : req'[p] = req[p]
    BY <1>0, <1>1, <1>2, <1>6, Moved DEF Enroll, Holding, Importing
  <2>2. Others(q, {}) /\ Swept' /\ TypeOK'
    BY <1>2, <1>3, <1>6, <2>1 DEF Enroll, TypeOK, quiet, Others, Swept
  <2> QED
    BY <2>1, <2>2, Together
<1> QED
  BY <1>0, <1>4, <1>5, <1>6 DEF Enroll

(* A completed session has no file.                                         *)
LEMMA CompletedRow ==
  ASSUME IInv, NEW s \in Sessions, Completes(s)
  PROVE  /\ \E r \in Row : row' = [row EXCEPT ![s] = r] /\ r.status = "completed"
         /\ staged' = [staged EXCEPT ![s] = Gone]
<1> DEFINE r == [row[s] EXCEPT !.status = "completed", !.result = TRUE]
<1>1. row[s] \in Row
  BY DEF IInv, TypeOK
<1>2. r \in Row /\ r.status = "completed"
  BY <1>1 DEF Row, Status
<1>3. row' = [row EXCEPT ![s] = r]
  BY DEF Completes
<1> QED
  BY <1>2, <1>3 DEF Completes, Remove

LEMMA FinishOK == ASSUME IInv, NEW q \in Requests, Finish(q) PROVE IInv'
<1>0. PICK s \in Sessions : s = req[q].s
  BY OfCall DEF Finish
<1>1. Locked(q) /\ Done(q) /\ Completes(s)
  BY <1>0 DEF Finish, Locked, Importing
<1>2. TypeOK /\ row[s].status # "none"
  BY <1>0, <1>1, Held
<1>3. PICK r \in Row : row' = [row EXCEPT ![s] = r] /\ r.status = "completed"
  BY <1>1, CompletedRow
<1>4. staged' = [staged EXCEPT ![s] = Gone]
  BY <1>1, CompletedRow
<1>5. /\ Others(q, {s}) /\ Swept' /\ SessionOK(s)' /\ CallOK(q)'
      /\ row' \in [Sessions -> Row] /\ staged' \in [Sessions -> Staged]
      /\ \A t \in Sessions : Len(staged'[t].bytes) <= Size
      /\ req' \in [Requests -> Call] /\ lock' \in [Sessions -> Requests \cup {Nobody}]
  BY <1>1, <1>2, <1>3, <1>4, Ended DEF Finish
<1>6. TypeOK'
  BY <1>2, <1>5 DEF Finish, TypeOK, quiet
<1> QED
  BY <1>5, <1>6, Together

LEMMA ImportFailsOK == ASSUME IInv, NEW q \in Requests, ImportFails(q) PROVE IInv'
<1>0. PICK s \in Sessions : s = req[q].s
  BY OfCall DEF ImportFails
<1>1. Locked(q) /\ Done(q) /\ Fails(s)
  BY <1>0 DEF ImportFails, Locked, Importing
<1>2. TypeOK /\ disk' \subseteq Sessions
      /\ spent' \in [failures : 0..MaxFailures, crashes : 0..MaxCrashes, lapses : 0..MaxLapses]
  BY Spending DEF ImportFails, TypeOK, IInv
<1>3. Others(q, {s}) /\ Swept' /\ SessionOK(s)' /\ CallOK(q)' /\ TypeOK'
  BY <1>0, <1>1, <1>2, EndedFailing DEF ImportFails, TypeOK, quiet
<1> QED
  BY <1>3, Together

LEMMA CancelOK == ASSUME IInv, NEW q \in Requests, Cancel(q) PROVE IInv'
<1>1. CASE UNCHANGED <<row, staged>>
  <2>1. Others(q, {}) /\ Swept' /\ CallOK(q)' /\ TypeOK'
    BY <1>1, EndedQuietly DEF Cancel, TypeOK, IInv, quiet
  <2> QED
    BY <2>1, Together
<1>2. PICK s \in Sessions : s = req[q].s
  BY OfCall DEF Cancel
<1>3. CASE row' = [row EXCEPT ![s].status = "cancelled"] /\ Remove(s)
  <2>1. TypeOK /\ row[s] \in Row /\ row[s].status # "none"
    BY <1>2, OfCall DEF Cancel, IInv
  <2>2. PICK r \in Row : row' = [row EXCEPT ![s] = r] /\ r.status = "cancelled"
    <3>1. [row[s] EXCEPT !.status = "cancelled"] \in Row
      BY <2>1 DEF Row, Status
    <3>2. [row[s] EXCEPT !.status = "cancelled"].status = "cancelled"
      BY <2>1 DEF Row
    <3> QED
      BY <1>3, <3>1, <3>2
  <2>3. /\ Others(q, {s}) /\ Swept' /\ SessionOK(s)' /\ CallOK(q)'
        /\ row' \in [Sessions -> Row] /\ staged' \in [Sessions -> Staged]
        /\ \A t \in Sessions : Len(staged'[t].bytes) <= Size
        /\ req' \in [Requests -> Call] /\ lock' \in [Sessions -> Requests \cup {Nobody}]
    BY <1>3, <2>1, <2>2, Ended DEF Cancel, Remove
  <2>4. TypeOK'
    BY <2>1, <2>3 DEF Cancel, TypeOK, quiet
  <2> QED
    BY <2>3, <2>4, Together
<1> QED
  BY <1>1, <1>2, <1>3 DEF Cancel

-----------------------------------------------------------------------------
(* What happens to a session that no call asks for: its row becomes r, and  *)
(* its file may be removed.                                                 *)
LEMMA Alone ==
  ASSUME IInv, NEW s \in Sessions, row[s].status # "none",
         NEW r \in Row, row' = [row EXCEPT ![s] = r], r.status # "none",
         r.status = "receiving" => row[s].status = "receiving" /\ staged' = staged,
         staged' = staged \/ staged' = [staged EXCEPT ![s] = Gone],
         UNCHANGED <<acked, req, lock>>
  PROVE  /\ Others(Nobody, {s}) /\ SessionOK(s)'
         /\ row' \in [Sessions -> Row] /\ staged' \in [Sessions -> Staged]
         /\ \A t \in Sessions : Len(staged'[t].bytes) <= Size
         /\ row'[s] = r /\ \A t \in Sessions \ {s} : row'[t] = row[t]
<1>1. TypeOK /\ SessionOK(s)
  BY DEF IInv
<1>2. Gone \in Staged /\ Len(Gone.bytes) = 0
  BY DEF Gone, Staged
<1>3. row' \in [Sessions -> Row] /\ row'[s] = r /\ \A t \in Sessions \ {s} : row'[t] = row[t]
  BY <1>1 DEF TypeOK
<1>4. /\ staged' \in [Sessions -> Staged] /\ \A t \in Sessions : Len(staged'[t].bytes) <= Size
      /\ \A t \in Sessions \ {s} : staged'[t] = staged[t]
      /\ staged'[s] = staged[s] \/ staged'[s] = Gone
  <2>1. CASE staged' = staged
    BY <1>1, <2>1 DEF TypeOK
  <2>2. CASE staged' = [staged EXCEPT ![s] = Gone]
    BY <1>1, <1>2, <2>2, UploadAssumption DEF TypeOK, UploadAssumption
  <2> QED
    BY <2>1, <2>2
<1>5. Calm(s)
  BY <1>1, <1>3, <1>4 DEF Calm, TypeOK
<1>6. Others(Nobody, {s})
  BY <1>3, <1>4, <1>5 DEF Others
<1>7. SessionOK(s)'
  BY <1>1, <1>3, <1>5 DEF SessionOK, Calm, Gone
<1> QED
  BY <1>3, <1>4, <1>6, <1>7

LEMMA FinishBookOK == ASSUME IInv, NEW s \in Sessions, FinishBook(s) PROVE IInv'
<1>1. TypeOK /\ Swept /\ row[s].status # "none" /\ Nobody \notin Requests
  BY UploadAssumption DEF IInv, FinishBook, Swept, UploadAssumption
<1>2. PICK r \in Row : row' = [row EXCEPT ![s] = r] /\ r.status = "completed"
  BY CompletedRow DEF FinishBook
<1>3. staged' = [staged EXCEPT ![s] = Gone]
  BY CompletedRow DEF FinishBook
<1>4. /\ Others(Nobody, {s}) /\ SessionOK(s)'
      /\ row' \in [Sessions -> Row] /\ staged' \in [Sessions -> Staged]
      /\ \A t \in Sessions : Len(staged'[t].bytes) <= Size
      /\ row'[s] = r /\ \A t \in Sessions \ {s} : row'[t] = row[t]
  BY <1>1, <1>2, <1>3, Alone DEF FinishBook
<1>5. TypeOK'
  BY <1>1, <1>4 DEF FinishBook, TypeOK, quiet
<1>6. Swept'
  <2>1. sweep.at # 0 => sweep.at \in Sessions
    BY <1>1, UploadAssumption DEF TypeOK, Sessions, UploadAssumption
  <2> QED
    BY <1>1, <1>2, <1>4, <2>1 DEF FinishBook, Swept, TypeOK
<1> QED
  BY <1>1, <1>4, <1>5, <1>6, Together

LEMMA BookFailsOK == ASSUME IInv, NEW s \in Sessions, BookFails(s) PROVE IInv'
<1>1. TypeOK /\ Swept /\ row[s].status # "none" /\ Nobody \notin Requests
  BY UploadAssumption DEF IInv, BookFails, Swept, UploadAssumption
<1>2. PICK r \in Row : row' = [row EXCEPT ![s] = r] /\ r.status = "failed"
  BY FailedRow DEF BookFails
<1>3. /\ Others(Nobody, {s}) /\ SessionOK(s)'
      /\ row' \in [Sessions -> Row] /\ staged' \in [Sessions -> Staged]
      /\ \A t \in Sessions : Len(staged'[t].bytes) <= Size
      /\ row'[s] = r /\ \A t \in Sessions \ {s} : row'[t] = row[t]
  BY <1>1, <1>2, Alone DEF BookFails
<1>4. spent' \in [failures : 0..MaxFailures, crashes : 0..MaxCrashes, lapses : 0..MaxLapses]
  BY <1>1, Spending DEF BookFails
<1>5. TypeOK'
  BY <1>1, <1>3, <1>4 DEF BookFails, TypeOK, quiet
<1>6. Swept'
  <2>1. sweep.at # 0 => sweep.at \in Sessions
    BY <1>1, UploadAssumption DEF TypeOK, Sessions, UploadAssumption
  <2> QED
    BY <1>1, <1>2, <1>3, <2>1 DEF BookFails, Swept, TypeOK
<1> QED
  BY <1>1, <1>3, <1>5, <1>6, Together

LEMMA LapseOK == ASSUME IInv, NEW s \in Sessions, Lapse(s) PROVE IInv'
<1>1. TypeOK /\ Swept /\ row[s].status # "none" /\ Nobody \notin Requests /\ row[s] \in Row
  BY UploadAssumption DEF IInv, TypeOK, Lapse, UploadAssumption
<1> DEFINE r == [row[s] EXCEPT !.late = TRUE]
<1>2. r \in Row /\ r.status = row[s].status /\ row' = [row EXCEPT ![s] = r]
  <2>1. r \in Row /\ r.status = row[s].status
    BY <1>1 DEF Row
  <2> QED
    BY <2>1 DEF Lapse
<1> HIDE DEF r
<1>3. /\ Others(Nobody, {s}) /\ SessionOK(s)'
      /\ row' \in [Sessions -> Row] /\ staged' \in [Sessions -> Staged]
      /\ \A t \in Sessions : Len(staged'[t].bytes) <= Size
      /\ row'[s] = r /\ \A t \in Sessions \ {s} : row'[t] = row[t]
  BY <1>1, <1>2, Alone DEF Lapse
<1>4. spent' \in [failures : 0..MaxFailures, crashes : 0..MaxCrashes, lapses : 0..MaxLapses]
  BY <1>1, Spending DEF Lapse
<1>5. TypeOK'
  BY <1>1, <1>3, <1>4 DEF Lapse, TypeOK, quiet
<1>6. Swept'
  <2>1. sweep.at # 0 => sweep.at \in Sessions
    BY <1>1, UploadAssumption DEF TypeOK, Sessions, UploadAssumption
  <2> QED
    BY <1>1, <1>2, <1>3, <2>1 DEF Lapse, Swept, TypeOK
<1> QED
  BY <1>1, <1>3, <1>5, <1>6, Together

LEMMA SweepListOK == ASSUME IInv, SweepList PROVE IInv'
<1>1. TypeOK /\ Swept /\ Nobody \notin Requests
  BY UploadAssumption DEF IInv, UploadAssumption
<1>2. TypeOK' /\ Swept' /\ Others(Nobody, {})
  BY <1>1, UploadAssumption DEF SweepList, Lapsed, TypeOK, Swept, Others, quiet, UploadAssumption
<1> QED
  BY <1>1, <1>2, Together

LEMMA SweepMarkOK == ASSUME IInv, NEW s \in Sessions, SweepMark(s) PROVE IInv'
<1>1. TypeOK /\ Swept /\ row[s].status # "none" /\ Nobody \notin Requests /\ row[s] \in Row
  BY UploadAssumption DEF IInv, TypeOK, Swept, SweepMark, UploadAssumption
<1>2. PICK r \in Row : row' = [row EXCEPT ![s] = r] /\ r.status = "expired"
  <2>1. [row[s] EXCEPT !.status = "expired"] \in Row /\ [row[s] EXCEPT !.status = "expired"].status = "expired"
    BY <1>1 DEF Row, Status
  <2> QED
    BY <2>1 DEF SweepMark
<1>3. /\ Others(Nobody, {s}) /\ SessionOK(s)'
      /\ row' \in [Sessions -> Row] /\ staged' \in [Sessions -> Staged]
      /\ \A t \in Sessions : Len(staged'[t].bytes) <= Size
      /\ row'[s] = r /\ \A t \in Sessions \ {s} : row'[t] = row[t]
  BY <1>1, <1>2, Alone DEF SweepMark
<1>4. sweep' \in [todo : SUBSET Sessions, at : 0..MaxSessions] /\ sweep'.at = s /\ sweep'.todo \subseteq sweep.todo
  BY <1>1, UploadAssumption DEF SweepMark, TypeOK, Sessions, UploadAssumption
<1>5. TypeOK'
  BY <1>1, <1>3, <1>4 DEF SweepMark, TypeOK, quiet
<1>6. Swept'
  BY <1>1, <1>2, <1>3, <1>4 DEF SweepMark, Swept, TypeOK
<1> QED
  BY <1>1, <1>3, <1>5, <1>6, Together

LEMMA SweepRemoveOK == ASSUME IInv, SweepRemove PROVE IInv'
<1>1. TypeOK /\ Swept /\ Nobody \notin Requests
  BY UploadAssumption DEF IInv, UploadAssumption
<1>2. PICK s \in Sessions : s = sweep.at
  BY <1>1, UploadAssumption DEF SweepRemove, TypeOK, Sessions, UploadAssumption
<1>3. row[s].status \notin {"none", "receiving"} /\ row[s] \in Row /\ row' = [row EXCEPT ![s] = row[s]]
  BY <1>1, <1>2, UploadAssumption DEF SweepRemove, Swept, TypeOK, Sessions, UploadAssumption
<1>4. /\ Others(Nobody, {s}) /\ SessionOK(s)' /\ staged' \in [Sessions -> Staged]
      /\ \A t \in Sessions : Len(staged'[t].bytes) <= Size
  BY <1>2, <1>3, Alone DEF SweepRemove, Remove
<1>5. sweep' \in [todo : SUBSET Sessions, at : 0..MaxSessions] /\ sweep'.at = 0 /\ sweep'.todo = sweep.todo
  <2>1. 0 \in 0..MaxSessions
    BY UploadAssumption DEF UploadAssumption
  <2>2. sweep \in [todo : SUBSET Sessions, at : 0..MaxSessions] /\ sweep' = [sweep EXCEPT !.at = 0]
    BY <1>1 DEF SweepRemove, TypeOK
  <2> QED
    BY <2>1, <2>2
<1>6. TypeOK' /\ Swept'
  BY <1>1, <1>4, <1>5 DEF SweepRemove, TypeOK, quiet, Swept
<1> QED
  BY <1>1, <1>4, <1>6, Together

LEMMA RestartOK == ASSUME IInv, Restart PROVE IInv'
<1>1. TypeOK /\ Swept
  BY DEF IInv
<1>2. ASSUME NEW s \in Sessions
      PROVE  /\ row'[s] \in Row
             /\ row'[s].status = "receiving" => row[s].status = "receiving" /\ staged'[s] = staged[s]
             /\ row'[s].status = "none" => row'[s] = row[s]
             /\ s \in finishing' => row'[s].status # "none"
  <2>1. row[s] \in Row
    BY <1>1 DEF TypeOK
  <2>2. CASE Lapsed(s)
    <3>1. row'[s] = [row[s] EXCEPT !.status = "expired"]
      BY <2>2 DEF Restart
    <3>2. row'[s] \in Row /\ row'[s].status = "expired"
      BY <2>1, <3>1 DEF Row, Status
    <3> QED
      BY <3>2
  <2>3. CASE ~Lapsed(s) /\ row[s].status = "processing" /\ ~row[s].result
    <3>1. row'[s] = [row[s] EXCEPT !.status = "failed"]
      BY <2>3 DEF Restart
    <3>2. row'[s] \in Row /\ row'[s].status = "failed"
      BY <2>1, <3>1 DEF Row, Status
    <3> QED
      BY <3>2
  <2>4. CASE ~Lapsed(s) /\ ~(row[s].status = "processing" /\ ~row[s].result)
    <3>1. row'[s] = row[s] /\ staged'[s] = staged[s]
      BY <2>4 DEF Restart
    <3>2. s \in finishing' => row[s].status = "processing"
      BY DEF Restart, Continued
    <3> QED
      BY <2>1, <3>1, <3>2
  <2> QED
    BY <2>2, <2>3, <2>4
<1>3. \A s \in Sessions : staged'[s] = staged[s] \/ staged'[s] = Gone
  BY DEF Restart
<1>4. TypeOK'
  <2>1. row' \in [Sessions -> Row]
    BY <1>2 DEF Restart
  <2>2. Gone \in Staged /\ Len(Gone.bytes) = 0
    BY DEF Gone, Staged
  <2>3. staged' \in [Sessions -> Staged] /\ \A t \in Sessions : Len(staged'[t].bytes) <= Size
    <3>1. staged' = [s \in Sessions |-> IF Lapsed(s) THEN Gone ELSE staged[s]]
      BY DEF Restart
    <3>2. ASSUME NEW s \in Sessions
          PROVE  staged'[s] \in Staged /\ Len(staged'[s].bytes) <= Size
      <4>1. staged[s] \in Staged /\ Len(staged[s].bytes) <= Size /\ 0 <= Size
        BY <1>1, UploadAssumption DEF TypeOK, UploadAssumption
      <4> QED
        BY <1>3, <2>2, <4>1
    <3> QED
      BY <3>1, <3>2
  <2>4. spent' \in [failures : 0..MaxFailures, crashes : 0..MaxCrashes, lapses : 0..MaxLapses]
    BY <1>1, Spending DEF Restart
  <2>5. sweep' \in [todo : SUBSET Sessions, at : 0..MaxSessions]
    <3>1. 0 \in 0..MaxSessions
      BY UploadAssumption DEF UploadAssumption
    <3> QED
      BY <3>1 DEF Restart
  <2>6. req' \in [Requests -> Call] /\ lock' \in [Sessions -> Requests \cup {Nobody}]
    BY IdleType DEF Restart
  <2> QED
    BY <1>1, <2>1, <2>3, <2>4, <2>5, <2>6 DEF Restart, TypeOK, quiet
<1>5. Swept'
  BY <1>2, <1>4 DEF Restart, Swept, TypeOK
<1>6. ASSUME NEW s \in Sessions PROVE SessionOK(s)'
  <2>1. SessionOK(s) /\ acked'[s] = acked[s]
    BY DEF IInv, Restart
  <2> QED
    BY <1>2, <1>3, <2>1 DEF SessionOK, Gone
<1>7. ASSUME NEW q \in Requests PROVE CallOK(q)'
  BY IdleOK DEF Restart
<1> QED
  BY <1>4, <1>5, <1>6, <1>7 DEF IInv

-----------------------------------------------------------------------------
LEMMA InitOK == Init => IInv
<1> SUFFICES ASSUME Init
             PROVE  IInv
  OBVIOUS
<1>1. NoRow \in Row /\ NoRow.status = "none" /\ ~NoRow.key
  BY UploadAssumption DEF NoRow, Row, Status, UploadAssumption
<1>2. Gone \in Staged /\ Len(Gone.bytes) = 0 /\ 0 \in 0..Size /\ 0 \in 0..MaxSessions
  BY UploadAssumption DEF Gone, Staged, UploadAssumption
<1>3. TypeOK
  <2>1. spent \in [failures : 0..MaxFailures, crashes : 0..MaxCrashes, lapses : 0..MaxLapses]
    BY UploadAssumption DEF Init, UploadAssumption
  <2> QED
    BY <1>1, <1>2, <2>1, IdleType DEF Init, TypeOK
<1>4. Swept /\ \A s \in Sessions : SessionOK(s)
  BY <1>1 DEF Init, Swept, SessionOK, Gone
<1>5. \A q \in Requests : CallOK(q)
  BY DEF Init, CallOK, Idle, Locked, Importing
<1> QED
  BY <1>3, <1>4, <1>5 DEF IInv

LEMMA NextOK == IInv /\ [Next]_vars => IInv'
<1> SUFFICES ASSUME IInv, [Next]_vars
             PROVE  IInv'
  OBVIOUS
<1>1. ASSUME NEW q \in Requests, Step(q)
      PROVE  IInv'
  BY <1>1, ReleaseKeyOK, InsertOK, CorrectOK, BeginWriteOK, WriteByteOK, EndWriteOK, CheckOK,
     MarkOK, CopyOK, LookOK, PlaceOK, EnrollOK, FinishOK DEF Step
<1>2. ASSUME NEW q \in Requests,
             \/ Find(q) \/ Arrive(q) \/ Stall(q) \/ Enter(q) \/ Cancel(q)
             \/ WriteFails(q) \/ ImportFails(q)
      PROVE  IInv'
  BY <1>2, FindOK, ArriveOK, StallOK, EnterOK, CancelOK, WriteFailsOK, ImportFailsOK
<1>3. ASSUME NEW q \in Requests, NEW s \in Sessions,
             \/ \E n \in 1..Chunk : Upload(q, s, n)
             \/ \E op \in {"get", "complete", "cancel"} : Ask(q, s, op)
      PROVE  IInv'
  BY <1>3, UploadOK, AskOK
<1>4. ASSUME NEW s \in Sessions, FinishBook(s) \/ BookFails(s) \/ Lapse(s) \/ SweepMark(s)
      PROVE  IInv'
  BY <1>4, FinishBookOK, BookFailsOK, LapseOK, SweepMarkOK
<1>5. CASE SweepList \/ SweepRemove \/ Restart
  BY <1>5, SweepListOK, SweepRemoveOK, RestartOK
<1>6. CASE UNCHANGED vars
  <2>1. \A q \in Requests : CallOK(q)' <=> CallOK(q)
    BY <1>6 DEF vars, CallOK, Locked, Holding, Begins
  <2>2. \A s \in Sessions : SessionOK(s)' <=> SessionOK(s)
    BY <1>6 DEF vars, SessionOK
  <2> QED
    BY <1>6, <2>1, <2>2 DEF vars, IInv, TypeOK, Swept
<1> QED
  BY <1>1, <1>2, <1>3, <1>4, <1>5, <1>6 DEF Next

LEMMA Always == Spec => []IInv
  BY InitOK, NextOK, PTL DEF Spec

(* The types of sessions, files and calls; the file of a session is never   *)
(* larger than the upload.                                                  *)
THEOREM TypeCorrect == Spec => []TypeOK
<1>1. IInv => TypeOK
  BY DEF IInv
<1> QED
  BY <1>1, Always, PTL

(* What a session has received is the start of the file (appendChunk).      *)
THEOREM InOrderCorrect == Spec => []InOrder
<1>1. IInv => InOrder
  BY DEF IInv, InOrder, SessionOK
<1> QED
  BY <1>1, Always, PTL

(* What is imported is the whole file (complete), the sweep notwithstanding. *)
THEOREM WholeFileCorrect == Spec => []WholeFile
<1>1. IInv => WholeFile
  BY DEF IInv, WholeFile, CallOK, Holding, Locked, Importing
<1> QED
  BY <1>1, Always, PTL

(* What a chunk was answered with stays received (appendChunk).             *)
THEOREM NothingAckedLostCorrect == Spec => []NothingAckedLost
<1>1. IInv => NothingAckedLost
  BY DEF IInv, NothingAckedLost, SessionOK, Receiving
<1> QED
  BY <1>1, Always, PTL

-----------------------------------------------------------------------------
(* Adding the file, once.  The lock keeps a session that somebody means to  *)
(* import from being sent, completed or cancelled by somebody else, and the *)
(* key keeps a second session from being made.  A session past its date     *)
(* loses both: what is said without lapses is in Unlapsed.                  *)

Hopes(q) ==
  \/ req[q].at \in {"writing", "checked"}
  \/ Locked(q) /\ req[q].at \in {"wrong", "ready"} /\ req[q].status = "receiving"
Carries(q) == req[q].at \in {"marked"} \cup Importing

(* Whoever has a lock is at work under it.                                  *)
LocksOK ==
  /\ \A s \in Sessions, q \in Requests : lock[s] = q => req[q].s = s /\ Locked(q)
  /\ \A q \in Requests : req[q].op = "none" => req[q].at = "idle"

KeyOK == \A s, t \in Keyed : s = t

NotYet(q) ==
  /\ Hopes(q) \/ (Carries(q) /\ req[q].at # "booked") => req[q].s \notin booked
  /\ Carries(q) => row[req[q].s].status \notin {"none", "receiving"}
BookedOK ==
  /\ \A s \in booked : row[s].status \notin {"none", "receiving"}
  /\ \A q \in Requests : NotYet(q)
  /\ OnePlace => \A s, t \in booked : s = t

(* What a call knows of its session, and of the only place there is.        *)
Knows(q) ==
  /\ req[q].at = "found" => row[req[q].s].status \in {"failed", "cancelled"}
  /\ Hopes(q) => row[req[q].s].status = "receiving"
  /\ Carries(q) => row[req[q].s].status = "processing" /\ req[q].s \notin finishing
  /\ OnePlace /\ req[q].at = "looked" => disk = {}
  /\ OnePlace /\ req[q].at \in {"looked", "placed"} => booked = {}
  /\ req[q].at = "placed" => req[q].s \in disk

Tidy(s) ==
  /\ ~row[s].late /\ row[s].status # "expired"
  /\ row[s].status \in {"receiving", "processing", "completed"} => row[s].key
  /\ s \in finishing => row[s].status = "processing"

Unlapsed ==
  /\ sweep = [todo |-> {}, at |-> 0]
  /\ \A s \in Sessions : Tidy(s)
  /\ \A q \in Requests : Knows(q)
  /\ booked \subseteq disk

NoFaults == spent = [failures |-> 0, crashes |-> 0, lapses |-> 0]
Once ==
  ~OnePlace /\ NoFaults => \A s \in booked : row[s].status \in {"processing", "completed"}

AInv ==
  /\ IInv /\ LocksOK /\ KeyOK /\ BookedOK /\ ImportCarried
  /\ spent.lapses = 0 => Unlapsed
  /\ Once

(* A call that is somewhere is on a session.                                *)
LEMMA OnSession ==
  ASSUME IInv, NEW q \in Requests, req[q].at \notin {"idle", "free"}
  PROVE  req[q].s \in Sessions
  BY OfCall

(* While q has the lock nobody else means to import, or to release the key. *)
LEMMA AloneAtIt ==
  ASSUME AInv, NEW q \in Requests, Locked(q), NEW p \in Requests, p # q, req[p].s = req[q].s
  PROVE  /\ ~Locked(p) /\ ~Hopes(p) /\ ~Carries(p)
         /\ Unlapsed /\ (Hopes(q) \/ Carries(q)) => req[p].at # "found"
  BY DEF AInv, IInv, CallOK, Hopes, Carries, Locked, Unlapsed, Knows

(* Only one session at a time is being imported, so only one call is.       *)
LEMMA OneImport ==
  ASSUME AInv, Unlapsed, NEW q \in Requests, NEW p \in Requests, Carries(p), Carries(q)
  PROVE  p = q
  <1>1. Locked(p) /\ Locked(q) /\ req[p].s \in Sessions /\ req[q].s \in Sessions
    BY OnSession DEF AInv, Carries, Locked, Importing
  <1>2. req[p].s \in Keyed /\ req[q].s \in Keyed
    BY <1>1 DEF Unlapsed, Knows, Tidy, Keyed
  <1>3. req[p].s = req[q].s
    BY <1>2 DEF AInv, KeyOK
  <1> QED
    BY <1>1, <1>3, AloneAtIt

(* The calls but q, and the locks they have.                                *)
OthersWait(q) ==
  /\ \A p \in Requests \ {q} : req'[p] = req[p]
  /\ \A s \in Sessions, p \in Requests \ {q} : lock'[s] = p <=> lock[s] = p

LEMMA DoneLocks ==
  ASSUME AInv, NEW q \in Requests, Done(q)
  PROVE  /\ LocksOK' /\ OthersWait(q) /\ req'[q] = Idle
         /\ ~Hopes(q)' /\ ~Carries(q)' /\ ~Locked(q)' /\ Knows(q)' /\ NotYet(q)'
  <1>1. req'[q] = Idle /\ (\A p \in Requests \ {q} : req'[p] = req[p]) /\ Nobody \notin Requests
    BY UploadAssumption DEF AInv, IInv, TypeOK, Done, UploadAssumption
  <1>2. \A s \in Sessions : lock'[s] = IF lock[s] = q THEN Nobody ELSE lock[s]
    BY DEF Done
  <1>3. ~Hopes(q)' /\ ~Carries(q)' /\ ~Locked(q)' /\ Knows(q)' /\ NotYet(q)'
    BY <1>1 DEF Idle, Hopes, Carries, Locked, Importing, Knows, NotYet
  <1>4. OthersWait(q)
    BY <1>1, <1>2 DEF OthersWait
  <1>5. LocksOK'
    <2>1. \A p \in Requests : req'[p].op = "none" => req'[p].at = "idle"
      BY <1>1 DEF AInv, LocksOK, Idle
    <2>2. ASSUME NEW s \in Sessions, NEW p \in Requests, lock'[s] = p
          PROVE  req'[p].s = s /\ Locked(p)'
      <3>1. p # q /\ lock[s] = p
        BY <1>1, <1>2, <2>2
      <3> QED
        BY <3>1, <1>1 DEF AInv, LocksOK, Locked
    <2> QED
      BY <2>1, <2>2 DEF LocksOK
  <1> QED
    BY <1>1, <1>3, <1>4, <1>5

(* A call goes on, and keeps its lock if it has one.                        *)
LEMMA GoLocks ==
  ASSUME AInv, NEW q \in Requests, lock' = lock, \A p \in Requests \ {q} : req'[p] = req[p],
         Locked(q) => Locked(q)' /\ req'[q].s = req[q].s, req'[q].op # "none"
  PROVE  LocksOK' /\ OthersWait(q)
  <1>1. \A p \in Requests \ {q} : Locked(p)' <=> Locked(p)
    BY DEF Locked
  <1> QED
    BY <1>1 DEF AInv, LocksOK, OthersWait

(* Steps that change nothing of what is added, and of sessions only the     *)
(* size and the key.                                                        *)
LEMMA QuietStep ==
  ASSUME AInv, IInv', NEW q \in Requests, OthersWait(q), LocksOK',
         UNCHANGED <<target, finishing, sweep, disk, booked>>,
         spent'.lapses = spent.lapses, NoFaults' => NoFaults,
         \A t \in Sessions : row'[t].status = row[t].status /\ (row'[t].key => row[t].key),
         Unlapsed => Knows(q)' /\ \A t \in Sessions : Tidy(t)',
         Carries(q) => Carries(q)' /\ lock' = lock,
         NotYet(q)'
  PROVE  AInv'
  <1>1. KeyOK'
    BY DEF AInv, KeyOK, Keyed
  <1>2. ASSUME NEW p \in Requests \ {q}
        PROVE  NotYet(p)' /\ (Knows(p) => Knows(p)') /\ (Carries(p) <=> Carries(p)')
    <2>1. req'[p] = req[p] /\ NotYet(p)
      BY DEF OthersWait, AInv, BookedOK
    <2>2. (Hopes(p) <=> Hopes(p)') /\ (Carries(p) <=> Carries(p)')
      BY <2>1 DEF Hopes, Carries, Locked
    <2>3. Hopes(p) \/ Carries(p) \/ req[p].at = "found" => req[p].s \in Sessions
      BY OnSession DEF AInv, Hopes, Carries, Importing
    <2> QED
      BY <2>1, <2>2, <2>3 DEF NotYet, Knows, OnePlace
  <1>3. \A s \in booked : s \in Sessions
    BY DEF AInv, IInv, TypeOK
  <1>4. BookedOK'
    BY <1>2, <1>3 DEF AInv, BookedOK, OnePlace
  <1>5. ImportCarried'
    <2> SUFFICES ASSUME NEW s \in Sessions, row'[s].status = "processing", s \notin finishing
                 PROVE  lock'[s] \in Requests /\ Carries(lock[s])' /\ lock'[s] = lock[s]
      BY UploadAssumption DEF ImportCarried, Carries, Importing, UploadAssumption
    <2>1. PICK p \in Requests : lock[s] = p /\ Carries(p)
      BY DEF AInv, IInv, TypeOK, ImportCarried, Carries, Importing
    <2> QED
      BY <2>1, <1>2 DEF OthersWait, Carries
  <1>6. spent'.lapses = 0 => Unlapsed'
    BY <1>2 DEF AInv, Unlapsed
  <1>7. Once'
    BY <1>3 DEF AInv, Once, OnePlace
  <1> QED
    BY <1>1, <1>4, <1>5, <1>6, <1>7 DEF AInv

LEMMA QuietCall ==
  ASSUME AInv, IInv', NEW q \in Requests, OthersWait(q), LocksOK',
         UNCHANGED <<target, row, finishing, sweep, disk, booked>>,
         spent'.lapses = spent.lapses, NoFaults' => NoFaults,
         Unlapsed => Knows(q)', Carries(q) => Carries(q)' /\ lock' = lock,
         NotYet(q)'
  PROVE  AInv'
  <1>1. Unlapsed => \A t \in Sessions : Tidy(t)'
    BY DEF Unlapsed, Tidy
  <1> QED
    BY <1>1, QuietStep

(* A call that is not at work has no lock, and knows nothing yet.           *)
LEMMA Unconcerned ==
  ASSUME NEW q, req'[q].at \in {"idle", "free", "body", "waiting"}
  PROVE  ~Locked(q)' /\ ~Hopes(q)' /\ ~Carries(q)' /\ Knows(q)' /\ NotYet(q)'
  BY DEF Locked, Hopes, Carries, Importing, Knows, NotYet

LEMMA NotAtWork ==
  ASSUME AInv, NEW q \in Requests,
         req[q].op = "none" \/ req[q].at \in {"idle", "found", "free", "body", "waiting"}
  PROVE  ~Locked(q) /\ ~Carries(q)
  BY DEF AInv, LocksOK, Locked, Carries, Importing

LEMMA FindAdds == ASSUME AInv, NEW q \in Requests, Find(q) PROVE AInv'
  <1>1. PICK s \in {0} \cup Keyed :
          /\ s = 0 \/ ~Resumable(s)
          /\ req' = [req EXCEPT ![q] =
               [Idle EXCEPT !.op = "create", !.at = IF s = 0 THEN "free" ELSE "found", !.s = s]]
    BY DEF Find
  <1>2. /\ UNCHANGED <<target, row, lock, finishing, sweep, disk, booked, spent>>
        /\ req[q].op = "none" /\ req \in [Requests -> Call]
    BY DEF Find, quiet, AInv, IInv, TypeOK
  <1>3. /\ req'[q].op = "create" /\ req'[q].at = (IF s = 0 THEN "free" ELSE "found")
        /\ req'[q].s = s /\ \A p \in Requests \ {q} : req'[p] = req[p]
    BY <1>1, <1>2 DEF Idle
  <1>4. ~Locked(q)' /\ ~Hopes(q)' /\ ~Carries(q)' /\ NotYet(q)'
    BY <1>3 DEF Locked, Hopes, Carries, Importing, NotYet
  <1>5. ASSUME Unlapsed PROVE Knows(q)'
    <2>1. ASSUME s # 0 PROVE row[s].status \in {"failed", "cancelled"}
      <3>1. s \in Sessions /\ row[s] \in Row /\ Tidy(s) /\ row[s].status # "none" /\ ~Resumable(s)
        BY <1>1, <1>5, <2>1 DEF Keyed, AInv, IInv, TypeOK, SessionOK, Unlapsed
      <3> QED
        BY <3>1 DEF Resumable, Tidy, Row, Status
    <2> QED
      BY <1>2, <1>3, <1>4, <2>1 DEF Knows
  <1>6. LocksOK' /\ OthersWait(q) /\ ~Carries(q)
    BY <1>2, <1>3, GoLocks, NotAtWork
  <1>7. IInv'
    BY FindOK DEF AInv
  <1> QED
    BY <1>2, <1>4, <1>5, <1>6, <1>7, QuietCall DEF NoFaults

LEMMA ReleaseKeyAdds == ASSUME AInv, NEW q \in Requests, ReleaseKey(q) PROVE AInv'
  <1>0. PICK s \in Sessions : s = req[q].s
    BY OnSession DEF ReleaseKey, AInv
  <1>1. /\ UNCHANGED <<target, lock, finishing, sweep, disk, booked, spent>> /\ req[q].at = "found"
        /\ row' = [row EXCEPT ![s].key = FALSE] /\ req' = [req EXCEPT ![q].at = "free"]
    BY <1>0 DEF ReleaseKey, quiet, Go
  <1>2. req \in [Requests -> Call] /\ row \in [Sessions -> Row]
    BY DEF AInv, IInv, TypeOK
  <1>3. /\ req'[q].at = "free" /\ req'[q].op = req[q].op
        /\ \A p \in Requests \ {q} : req'[p] = req[p]
    BY <1>1, <1>2 DEF Call
  <1>4. /\ \A t \in Sessions : row'[t].status = row[t].status /\ row'[t].late = row[t].late
                               /\ (row'[t].key => row[t].key)
        /\ \A t \in Sessions \ {s} : row'[t] = row[t]
    BY <1>1, <1>2 DEF Row
  <1>5. ASSUME Unlapsed, NEW t \in Sessions PROVE Tidy(t)'
    <2>1. row[s].status \in {"failed", "cancelled"} /\ Tidy(t)
      BY <1>0, <1>1, <1>5 DEF Unlapsed, Knows
    <2> QED
      BY <1>1, <1>4, <2>1 DEF Tidy
  <1>6. ~Locked(q) /\ ~Carries(q) /\ req'[q].op # "none"
    BY <1>1, <1>3, NotAtWork DEF AInv, LocksOK
  <1>7. LocksOK' /\ OthersWait(q)
    BY <1>1, <1>3, <1>6, GoLocks
  <1>8. IInv'
    BY ReleaseKeyOK DEF AInv
  <1> QED
    BY <1>1, <1>3, <1>4, <1>5, <1>6, <1>7, <1>8, Unconcerned, QuietStep DEF NoFaults

LEMMA UploadAdds ==
  ASSUME AInv, NEW q \in Requests, NEW s \in Sessions, NEW n \in 1..Chunk, Upload(q, s, n)
  PROVE  AInv'
  <1>1. /\ UNCHANGED <<target, row, lock, finishing, sweep, disk, booked, spent>>
        /\ req[q].op = "none" /\ req'[q].op = "append" /\ req'[q].at = "body"
        /\ \A p \in Requests \ {q} : req'[p] = req[p]
    BY DEF Upload, quiet, AInv, IInv, TypeOK, Idle
  <1>2. IInv' /\ ~Carries(q)
    BY <1>1, UploadOK, NotAtWork DEF AInv
  <1>3. LocksOK' /\ OthersWait(q)
    BY <1>1, GoLocks, NotAtWork
  <1> QED
    BY <1>1, <1>2, <1>3, Unconcerned, QuietCall DEF NoFaults

LEMMA AskAdds ==
  ASSUME AInv, NEW q \in Requests, NEW s \in Sessions, NEW op \in {"get", "complete", "cancel"},
         Ask(q, s, op)
  PROVE  AInv'
  <1>1. /\ UNCHANGED <<target, row, lock, finishing, sweep, disk, booked, spent>>
        /\ req[q].op = "none" /\ req'[q].op = op /\ req'[q].at = "waiting"
        /\ \A p \in Requests \ {q} : req'[p] = req[p]
    BY DEF Ask, quiet, AInv, IInv, TypeOK, Idle
  <1>2. IInv' /\ ~Carries(q)
    BY <1>1, AskOK, NotAtWork DEF AInv
  <1>3. LocksOK' /\ OthersWait(q)
    BY <1>1, GoLocks, NotAtWork
  <1> QED
    BY <1>1, <1>2, <1>3, Unconcerned, QuietCall DEF NoFaults

LEMMA ArriveAdds == ASSUME AInv, NEW q \in Requests, Arrive(q) PROVE AInv'
  <1>1. /\ UNCHANGED <<target, row, lock, finishing, sweep, disk, booked, spent>>
        /\ req[q].at = "body" /\ req'[q].op = req[q].op /\ req'[q].at = "waiting"
        /\ \A p \in Requests \ {q} : req'[p] = req[p]
    BY DEF Arrive, Go, quiet, AInv, IInv, TypeOK, Call
  <1>2. IInv' /\ ~Carries(q) /\ ~Locked(q) /\ req[q].op # "none"
    BY <1>1, ArriveOK, NotAtWork DEF AInv, LocksOK
  <1>3. LocksOK' /\ OthersWait(q)
    BY <1>1, <1>2, GoLocks
  <1> QED
    BY <1>1, <1>2, <1>3, Unconcerned, QuietCall DEF NoFaults

(* A call that ends and leaves the sessions as they are.                    *)
LEMMA DoneQuietly ==
  ASSUME AInv, IInv', NEW q \in Requests, Done(q), ~Carries(q),
         UNCHANGED <<target, row, finishing, sweep, disk, booked>>,
         spent'.lapses = spent.lapses, NoFaults' => NoFaults
  PROVE  AInv'
  BY DoneLocks, QuietCall

LEMMA StallAdds == ASSUME AInv, NEW q \in Requests, Stall(q) PROVE AInv'
  <1>1. IInv' /\ ~Carries(q)
    BY StallOK, NotAtWork DEF AInv, Stall
  <1> QED
    BY <1>1, DoneQuietly DEF Stall, quiet, NoFaults

-----------------------------------------------------------------------------
LEMMA EnterAdds == ASSUME AInv, NEW q \in Requests, Enter(q) PROVE AInv'
  <1> DEFINE size == Len(staged[req[q].s].bytes)
             wrong == row[req[q].s].status = "receiving" /\ size # row[req[q].s].received
  <1>1. /\ UNCHANGED <<target, row, finishing, sweep, disk, booked, spent>>
        /\ req[q].at = "waiting" /\ req[q].op \in {"append", "complete", "get"}
        /\ req[q].op = "get" \/ MayEnter(q)
    BY DEF Enter, quiet
  <1>2. IInv' /\ ~Carries(q) /\ ~Locked(q)
    BY <1>1, EnterOK, NotAtWork DEF AInv
  <1>3. CASE Done(q)
    BY <1>1, <1>2, <1>3, DoneQuietly DEF NoFaults
  <1>4. ASSUME ~(req[q].op = "get" /\ ~wrong),
               req' = [req EXCEPT ![q].at = IF wrong THEN "wrong" ELSE "ready",
                                  ![q].k = IF wrong THEN size ELSE 0,
                                  ![q].status = row[req[q].s].status,
                                  ![q].received = row[req[q].s].received],
               lock' = IF req[q].op = "get" THEN lock ELSE [lock EXCEPT ![req[q].s] = q]
        PROVE  AInv'
    <2>0. PICK s \in Sessions : s = req[q].s
      BY <1>1, OnSession DEF AInv
    <2>1. /\ req'[q].op = req[q].op /\ req'[q].s = s /\ req'[q].status = row[s].status
          /\ req'[q].at \in {"wrong", "ready"} /\ (req[q].op = "get" => req'[q].at = "wrong")
          /\ \A p \in Requests \ {q} : req'[p] = req[p]
      <3> DEFINE new == [req[q] EXCEPT !.at = IF wrong THEN "wrong" ELSE "ready",
                                       !.k = IF wrong THEN size ELSE 0,
                                       !.status = row[s].status, !.received = row[s].received]
      <3> HIDE DEF wrong, size
      <3>1. req \in [Requests -> Call]
        BY DEF AInv, IInv, TypeOK
      <3>2. req' = [req EXCEPT ![q] = new]
        BY <1>4, <2>0, <3>1
      <3>3. /\ new.op = req[q].op /\ new.s = req[q].s /\ new.status = row[s].status
            /\ new.at = (IF wrong THEN "wrong" ELSE "ready")
        BY <3>1 DEF Call
      <3> HIDE DEF new
      <3> QED
        BY <1>4, <2>0, <3>1, <3>2, <3>3
    <2>2. ~Carries(q)' /\ (Hopes(q)' => row[s].status = "receiving")
      BY <2>1 DEF Carries, Hopes, Importing
    <2>3. Knows(q)' /\ NotYet(q)'
      BY <1>1, <2>1, <2>2 DEF Knows, NotYet, AInv, BookedOK
    <2>4. CASE req[q].op = "get"
      <3>1. LocksOK' /\ OthersWait(q)
        BY <1>1, <1>2, <1>4, <2>1, <2>4, GoLocks
      <3> QED
        BY <1>1, <1>2, <2>3, <3>1, QuietCall DEF NoFaults
    <2>5. CASE req[q].op # "get"
      <3>1. /\ Locked(q)' /\ lock[s] = Nobody
            /\ \A t \in Sessions : lock'[t] = IF t = s THEN q ELSE lock[t]
        BY <1>1, <1>4, <2>0, <2>1, <2>5 DEF Locked, MayEnter, AInv, IInv, TypeOK
      <3>2. OthersWait(q)
        BY <2>1, <3>1, UploadAssumption DEF OthersWait, UploadAssumption
      <3>3. LocksOK'
        <4>1. \A p \in Requests : req'[p].op = "none" => req'[p].at = "idle"
          BY <1>1, <2>1 DEF AInv, LocksOK
        <4>2. ASSUME NEW t \in Sessions, NEW p \in Requests, lock'[t] = p
              PROVE  req'[p].s = t /\ Locked(p)'
          <5>1. CASE p = q
            <6>1. t = s
              BY <1>2, <3>1, <4>2, <5>1 DEF AInv, LocksOK
            <6> QED
              BY <5>1, <6>1, <2>1, <3>1
          <5>2. CASE p # q
            BY <2>1, <3>2, <4>2, <5>2 DEF OthersWait, AInv, LocksOK, Locked
          <5> QED
            BY <5>1, <5>2
        <4> QED
          BY <4>1, <4>2 DEF LocksOK
      <3> QED
        BY <1>1, <1>2, <2>3, <3>2, <3>3, QuietCall DEF NoFaults
    <2> QED
      BY <2>4, <2>5
  <1> QED
    BY <1>3, <1>4 DEF Enter

(* The size of a session is of no concern here.                             *)
LEMMA Resized ==
  ASSUME AInv, NEW s \in Sessions, NEW n,
         \/ row' = [row EXCEPT ![s].received = n]
         \/ row' = [row EXCEPT ![s].received = n, ![s].late = FALSE],
         finishing' = finishing
  PROVE  /\ \A t \in Sessions : row'[t].status = row[t].status /\ (row'[t].key => row[t].key)
         /\ Unlapsed => \A t \in Sessions : Tidy(t)'
  <1>1. \A t \in Sessions : /\ row'[t].status = row[t].status /\ row'[t].key = row[t].key
                            /\ row'[t].late = row[t].late \/ ~row'[t].late
    <2>1. row \in [Sessions -> Row]
      BY DEF AInv, IInv, TypeOK
    <2>2. CASE row' = [row EXCEPT ![s].received = n]
      BY <2>1, <2>2 DEF Row
    <2>3. CASE row' = [row EXCEPT ![s].received = n, ![s].late = FALSE]
      <3> DEFINE new == [row[s] EXCEPT !.received = n, !.late = FALSE]
      <3>1. row' = [row EXCEPT ![s] = new]
        BY <2>1, <2>3
      <3>2. new.status = row[s].status /\ new.key = row[s].key /\ ~new.late
        BY <2>1 DEF Row
      <3> HIDE DEF new
      <3> QED
        BY <2>1, <3>1, <3>2
    <2> QED
      BY <2>2, <2>3
  <1> QED
    BY <1>1 DEF Unlapsed, Tidy

LEMMA CorrectAdds == ASSUME AInv, NEW q \in Requests, Correct(q) PROVE AInv'
  <1>0. PICK s \in Sessions : s = req[q].s
    BY OnSession DEF AInv, Correct
  <1>1. /\ UNCHANGED <<target, finishing, sweep, disk, booked, spent>>
        /\ req[q].at = "wrong" /\ row' = [row EXCEPT ![s].received = req[q].k]
    BY <1>0 DEF Correct, quiet
  <1>2. IInv' /\ ~Carries(q)
    BY <1>1, CorrectOK DEF AInv, Carries, Importing
  <1>3. CASE Done(q)
    BY <1>1, <1>2, <1>3, DoneLocks, Resized, QuietStep DEF NoFaults
  <1>4. ASSUME req[q].op # "get", lock' = lock,
               req' = [req EXCEPT ![q].at = "ready", ![q].received = req[q].k, ![q].k = 0,
                                  ![q].status = row[req[q].s].status]
        PROVE  AInv'
    <2>1. /\ req'[q].op = req[q].op /\ req'[q].s = s /\ req'[q].status = row[s].status
          /\ req'[q].at = "ready" /\ \A p \in Requests \ {q} : req'[p] = req[p]
      BY <1>0, <1>4 DEF AInv, IInv, TypeOK, Call
    <2>2. /\ ~Carries(q)' /\ Locked(q)' /\ req'[q].op # "none"
          /\ Hopes(q)' => row[s].status = "receiving"
      BY <1>1, <2>1 DEF Carries, Hopes, Locked, Importing, AInv, LocksOK
    <2>3. row'[s].status = row[s].status
      BY <1>1, Resized
    <2>4. Knows(q)' /\ NotYet(q)'
      BY <1>1, <2>1, <2>2, <2>3 DEF Knows, NotYet, AInv, BookedOK
    <2>5. LocksOK' /\ OthersWait(q)
      BY <1>0, <1>4, <2>1, <2>2, GoLocks
    <2> QED
      BY <1>1, <1>2, <2>4, <2>5, Resized, QuietStep DEF NoFaults
  <1> QED
    BY <1>3, <1>4 DEF Correct

(* A call goes on under its lock, hoping as before.                         *)
LEMMA StillAt ==
  ASSUME AInv, IInv', NEW q \in Requests, ~Carries(q), Hopes(q), lock' = lock,
         \A p \in Requests \ {q} : req'[p] = req[p],
         req'[q].at \in {"writing", "checked"}, req'[q].s = req[q].s, req'[q].op = req[q].op,
         UNCHANGED <<target, row, finishing, sweep, disk, booked, spent>>
  PROVE  AInv'
  <1>1. /\ Locked(q)' /\ Hopes(q)' /\ ~Carries(q)' /\ req'[q].op # "none"
    BY DEF Locked, Hopes, Carries, Importing, AInv, LocksOK
  <1>2. LocksOK' /\ OthersWait(q)
    BY <1>1, GoLocks
  <1>3. NotYet(q)' /\ (Unlapsed => Knows(q)')
    BY DEF NotYet, Knows, Carries, Importing, AInv, BookedOK, Unlapsed, Hopes
  <1> QED
    BY <1>2, <1>3, QuietCall DEF NoFaults

LEMMA WriteByteAdds == ASSUME AInv, NEW q \in Requests, WriteByte(q) PROVE AInv'
  <1>1. /\ UNCHANGED <<target, row, lock, finishing, sweep, disk, booked, spent>>
        /\ req[q].at = "writing" /\ req'[q].at = req[q].at /\ req'[q].s = req[q].s
        /\ req'[q].op = req[q].op /\ \A p \in Requests \ {q} : req'[p] = req[p]
    BY DEF WriteByte, quiet, AInv, IInv, TypeOK, Call
  <1>2. IInv' /\ ~Carries(q) /\ Hopes(q)
    BY <1>1, WriteByteOK DEF AInv, Carries, Hopes, Importing
  <1> QED
    BY <1>1, <1>2, StillAt

LEMMA Failing ==
  ASSUME AInv, NEW what \in {"failures", "crashes"}, NEW most, Spend(what, most)
  PROVE  spent'.lapses = spent.lapses /\ ~NoFaults'
  <1>1. /\ spent \in [failures : 0..MaxFailures, crashes : 0..MaxCrashes, lapses : 0..MaxLapses]
        /\ MaxFailures \in Nat /\ MaxCrashes \in Nat
    BY UploadAssumption DEF AInv, IInv, TypeOK, UploadAssumption
  <1>2. spent' = [spent EXCEPT ![what] = spent[what] + 1]
    BY DEF Spend
  <1>3. CASE what = "failures"
    <2>1. spent'.lapses = spent.lapses /\ spent'.failures = spent.failures + 1
      BY <1>1, <1>2, <1>3
    <2> QED
      BY <1>1, <2>1 DEF NoFaults
  <1>4. CASE what = "crashes"
    <2>1. spent'.lapses = spent.lapses /\ spent'.crashes = spent.crashes + 1
      BY <1>1, <1>2, <1>4
    <2> QED
      BY <1>1, <2>1 DEF NoFaults
  <1> QED
    BY <1>3, <1>4

LEMMA WriteFailsAdds == ASSUME AInv, NEW q \in Requests, WriteFails(q) PROVE AInv'
  <1>1. spent'.lapses = spent.lapses /\ ~NoFaults'
    BY Failing DEF WriteFails
  <1>2. IInv' /\ ~Carries(q)
    BY WriteFailsOK DEF AInv, WriteFails, Carries, Importing
  <1> QED
    BY <1>1, <1>2, DoneQuietly DEF WriteFails, quiet

LEMMA EndWriteAdds == ASSUME AInv, NEW q \in Requests, EndWrite(q) PROVE AInv'
  <1>0. PICK s \in Sessions : s = req[q].s
    BY OnSession DEF AInv, EndWrite
  <1>1. /\ UNCHANGED <<target, finishing, sweep, disk, booked, spent>> /\ Done(q)
        /\ row' = [row EXCEPT ![s].received = req[q].received + req[q].n, ![s].late = FALSE]
    BY <1>0 DEF EndWrite, quiet
  <1>2. IInv' /\ ~Carries(q)
    BY EndWriteOK DEF AInv, EndWrite, Carries, Importing
  <1> QED
    BY <1>1, <1>2, DoneLocks, Resized, QuietStep DEF NoFaults

-----------------------------------------------------------------------------
(* A step that takes session s further: of call q, or of Nobody.            *)
Away(p, s) ==
  req[p].s = s => /\ Unlapsed \/ s \in booked' \ booked => ~Hopes(p) /\ ~Carries(p)
                  /\ Unlapsed /\ req[p].at = "found" => row'[s].status \in {"failed", "cancelled"}

Further(q, s) ==
  /\ \A t \in Sessions \ {s} : row'[t] = row[t]
  /\ row'[s].key = row[s].key /\ row'[s].late = row[s].late
  /\ row'[s].status \notin {"none", "receiving"}
  /\ Unlapsed => row'[s].status # "expired"
  /\ Unlapsed /\ row'[s].status \in {"processing", "completed"} =>
       row[s].status \in {"receiving", "processing"}
  /\ finishing' \ finishing \subseteq {s} /\ finishing \ finishing' \subseteq {s}
  /\ Unlapsed /\ s \in finishing' => row'[s].status = "processing"
  /\ booked' \ booked \subseteq {s} /\ (OnePlace => booked' = booked \/ booked = {})
  /\ \A p \in Requests \ {q} : Away(p, s)
  /\ q \in Requests => req[q].s = s

LEMMA FurtherStep ==
  ASSUME AInv, IInv', NEW q, NEW s \in Sessions, Further(q, s), OthersWait(q), LocksOK',
         UNCHANGED <<target, sweep>>, spent'.lapses = spent.lapses, NoFaults' => NoFaults,
         q \in Requests => NotYet(q)' /\ (Unlapsed => Knows(q)'),
         row'[s].status = "processing" =>
           s \in finishing' \/ (q \in Requests /\ lock'[s] = q /\ Carries(q)'),
         Unlapsed => /\ booked' \subseteq disk'
                     /\ (disk' = disk /\ booked' \subseteq booked)
                          \/ (q \in Requests /\ Carries(q)),
         ~OnePlace /\ NoFaults' /\ s \in booked' => row'[s].status \in {"processing", "completed"}
  PROVE  AInv'
  <1>1. KeyOK'
    BY DEF Further, AInv, KeyOK, Keyed
  <1>2. ASSUME NEW p \in Requests \ {q}
        PROVE  req'[p] = req[p] /\ (Hopes(p) <=> Hopes(p)') /\ (Carries(p) <=> Carries(p)')
    BY DEF OthersWait, Hopes, Carries, Locked
  <1>3. BookedOK'
    <2>1. \A t \in booked' : t = s \/ (t \in Sessions /\ t \in booked)
      BY DEF Further, AInv, IInv, TypeOK
    <2>2. \A t \in booked' : row'[t].status \notin {"none", "receiving"}
      BY <2>1 DEF Further, AInv, BookedOK
    <2>3. ASSUME NEW p \in Requests, p # q PROVE NotYet(p)'
      <3>1. Carries(p) => req[p].s \in Sessions
        BY OnSession DEF AInv, Carries, Importing
      <3> QED
        BY <1>2, <2>1, <2>3, <3>1 DEF NotYet, Further, Away, AInv, BookedOK
    <2>4. OnePlace' => \A t, u \in booked' : t = u
      BY <2>1 DEF Further, AInv, BookedOK, OnePlace
    <2> QED
      BY <2>2, <2>3, <2>4 DEF BookedOK
  <1>4. ImportCarried'
    <2> SUFFICES ASSUME NEW t \in Sessions, row'[t].status = "processing", t \notin finishing'
                 PROVE  \E p \in Requests : lock'[t] = p /\ Carries(p)'
      BY UploadAssumption DEF ImportCarried, Carries, Importing, UploadAssumption
    <2>1. CASE t = s
      BY <2>1
    <2>2. CASE t # s
      <3>1. PICK p \in Requests : lock[t] = p /\ Carries(p)
        BY <2>2 DEF Further, AInv, IInv, TypeOK, ImportCarried, Carries, Importing
      <3>2. p # q
        BY <2>2, <3>1 DEF Further, AInv, LocksOK
      <3> QED
        BY <3>1, <3>2, <1>2 DEF OthersWait
    <2> QED
      BY <2>1, <2>2
  <1>5. ASSUME Unlapsed PROVE Unlapsed'
    <2>1. ASSUME NEW t \in Sessions PROVE Tidy(t)'
      BY <1>5 DEF Further, Unlapsed, Tidy
    <2>2. ASSUME NEW p \in Requests, p # q PROVE Knows(p)'
      <3>1. Knows(p) /\ req'[p] = req[p] /\ Away(p, s)
        BY <1>5, <2>2, <1>2 DEF Unlapsed, Further
      <3>2. Hopes(p) \/ Carries(p) \/ req[p].at = "found" => req[p].s \in Sessions
        BY OnSession DEF AInv, Hopes, Carries, Importing
      <3>3. req[p].at \in {"looked", "placed"} => disk' = disk /\ booked' \subseteq booked
        BY <1>5, <2>2, OneImport DEF Carries, Importing
      <3> QED
        BY <1>2, <1>5, <2>2, <3>1, <3>2, <3>3 DEF Knows, Further, Away, OnePlace, Carries, Importing
    <2> QED
      BY <1>5, <2>1, <2>2 DEF Unlapsed
  <1>6. Once'
    BY DEF Once, OnePlace, AInv, Further, IInv, TypeOK
  <1> QED
    BY <1>1, <1>3, <1>4, <1>5, <1>6 DEF AInv

LEMMA RowTurns ==
  ASSUME AInv, NEW s \in Sessions, NEW st,
         \/ row' = [row EXCEPT ![s].status = st]
         \/ row' = [row EXCEPT ![s].status = st, ![s].result = TRUE]
  PROVE  /\ row'[s].status = st /\ row'[s].key = row[s].key /\ row'[s].late = row[s].late
         /\ \A t \in Sessions \ {s} : row'[t] = row[t]
  <1>1. row \in [Sessions -> Row]
    BY DEF AInv, IInv, TypeOK
  <1>2. CASE row' = [row EXCEPT ![s].status = st]
    BY <1>1, <1>2 DEF Row
  <1>3. CASE row' = [row EXCEPT ![s].status = st, ![s].result = TRUE]
    <2> DEFINE new == [row[s] EXCEPT !.status = st, !.result = TRUE]
    <2>1. row' = [row EXCEPT ![s] = new]
      BY <1>1, <1>3
    <2>2. new.status = st /\ new.key = row[s].key /\ new.late = row[s].late
      BY <1>1 DEF Row
    <2> HIDE DEF new
    <2> QED
      BY <1>1, <2>1, <2>2
  <1> QED
    BY <1>2, <1>3

(* A call gives up on the session it wanted to import.                      *)
LEMMA FailsDone ==
  ASSUME AInv, IInv', NEW q \in Requests, Hopes(q) \/ Carries(q), Fails(req[q].s), Done(q),
         UNCHANGED <<target, sweep, finishing, booked>>,
         spent'.lapses = spent.lapses, NoFaults' => NoFaults,
         disk' = disk \/ Carries(q), Unlapsed => booked \subseteq disk',
         req[q].at = "booked" => ~NoFaults'
  PROVE  AInv'
  <1>1. Locked(q)
    BY DEF Hopes, Carries, Locked, Importing
  <1>2. PICK s \in Sessions : s = req[q].s
    BY <1>1, OnSession DEF AInv, Locked, Importing
  <1>3. /\ row'[s].status = "failed" /\ row'[s].key = row[s].key /\ row'[s].late = row[s].late
        /\ \A t \in Sessions \ {s} : row'[t] = row[t]
    BY <1>2, RowTurns DEF Fails
  <1>4. \A p \in Requests \ {q} : Away(p, s)
    BY <1>1, <1>2, <1>3, AloneAtIt DEF Away
  <1>5. /\ NotYet(q) /\ ~Carries(q)' /\ NotYet(q)' /\ Knows(q)' /\ OthersWait(q) /\ LocksOK'
    BY DoneLocks DEF AInv, BookedOK
  <1>6. Unlapsed => s \notin finishing
    BY <1>2 DEF Unlapsed, Knows, Tidy
  <1>7. Further(q, s)
    BY <1>2, <1>3, <1>4, <1>6 DEF Further
  <1>8. s \in booked /\ NoFaults' => FALSE
    BY <1>2, <1>5 DEF NotYet
  <1> QED
    BY <1>3, <1>5, <1>7, <1>8, FurtherStep

LEMMA BeginWriteAdds == ASSUME AInv, NEW q \in Requests, BeginWrite(q) PROVE AInv'
  <1>1. /\ UNCHANGED <<target, finishing, sweep, disk, booked, spent>> /\ req[q].at = "ready"
    BY DEF BeginWrite, quiet
  <1>2. IInv' /\ ~Carries(q) /\ Locked(q)
    BY <1>1, BeginWriteOK DEF AInv, Carries, Locked, Importing
  <1>3. StillReceiving(q) => Hopes(q)
    BY <1>1, <1>2 DEF StillReceiving, Hopes
  <1>4. CASE Done(q) /\ UNCHANGED row
    BY <1>1, <1>2, <1>4, DoneQuietly DEF NoFaults
  <1>5. CASE StillReceiving(q) /\ Fails(req[q].s) /\ Done(q)
    BY <1>1, <1>2, <1>3, <1>5, FailsDone DEF NoFaults, Unlapsed
  <1>6. CASE StillReceiving(q) /\ Go(q, "writing") /\ UNCHANGED <<row, lock>>
    <2>1. /\ req'[q].at = "writing" /\ req'[q].s = req[q].s /\ req'[q].op = req[q].op
          /\ \A p \in Requests \ {q} : req'[p] = req[p]
      BY <1>6 DEF Go, AInv, IInv, TypeOK, Call
    <2> QED
      BY <1>1, <1>2, <1>3, <1>6, <2>1, StillAt
  <1> QED
    BY <1>4, <1>5, <1>6 DEF BeginWrite

LEMMA CheckAdds == ASSUME AInv, NEW q \in Requests, Check(q) PROVE AInv'
  <1>1. /\ UNCHANGED <<target, finishing, sweep, disk, booked, spent>> /\ req[q].at = "ready"
    BY DEF Check, quiet
  <1>2. IInv' /\ ~Carries(q) /\ Locked(q)
    BY <1>1, CheckOK DEF AInv, Carries, Locked, Importing
  <1>3. StillReceiving(q) => Hopes(q)
    BY <1>1, <1>2 DEF StillReceiving, Hopes
  <1>4. CASE Done(q) /\ UNCHANGED row
    BY <1>1, <1>2, <1>4, DoneQuietly DEF NoFaults
  <1>5. CASE StillReceiving(q) /\ Fails(req[q].s) /\ Done(q)
    BY <1>1, <1>2, <1>3, <1>5, FailsDone DEF NoFaults, Unlapsed
  <1>6. CASE StillReceiving(q) /\ Go(q, "checked") /\ UNCHANGED <<row, lock>>
    <2>1. /\ req'[q].at = "checked" /\ req'[q].s = req[q].s /\ req'[q].op = req[q].op
          /\ \A p \in Requests \ {q} : req'[p] = req[p]
      BY <1>6 DEF Go, AInv, IInv, TypeOK, Call
    <2> QED
      BY <1>1, <1>2, <1>3, <1>6, <2>1, StillAt
  <1> QED
    BY <1>4, <1>5, <1>6 DEF Check

(* A call that goes on with its import.                                     *)
LEMMA GoesOn ==
  ASSUME AInv, NEW q \in Requests, Locked(q), lock' = lock,
         \A p \in Requests \ {q} : req'[p] = req[p],
         req'[q].at \in {"marked"} \cup Importing, req'[q].s = req[q].s, req'[q].op = req[q].op
  PROVE  LocksOK' /\ OthersWait(q) /\ Carries(q)' /\ ~Hopes(q)' /\ lock'[req[q].s] = q
  <1>1. Locked(q)' /\ Carries(q)' /\ ~Hopes(q)'
    BY DEF Locked, Carries, Hopes, Importing
  <1>2. req'[q].op # "none" /\ lock'[req[q].s] = q
    BY DEF AInv, IInv, CallOK, LocksOK, Locked, Importing
  <1> QED
    BY <1>1, <1>2, GoLocks

LEMMA MarkAdds == ASSUME AInv, NEW q \in Requests, Mark(q) PROVE AInv'
  <1>0. PICK s \in Sessions : s = req[q].s
    BY OnSession DEF AInv, Mark
  <1>1. /\ UNCHANGED <<target, lock, finishing, sweep, disk, booked, spent>> /\ req[q].at = "checked"
        /\ row' = [row EXCEPT ![s].status = "processing"]
        /\ req'[q].at = "marked" /\ req'[q].s = s /\ req'[q].op = req[q].op
        /\ \A p \in Requests \ {q} : req'[p] = req[p]
    BY <1>0 DEF Mark, Go, quiet, AInv, IInv, TypeOK, Call
  <1>2. IInv' /\ Hopes(q) /\ Locked(q)
    BY <1>1, MarkOK DEF AInv, Hopes, Locked
  <1>3. LocksOK' /\ OthersWait(q) /\ Carries(q)' /\ ~Hopes(q)' /\ lock'[s] = q
    BY <1>0, <1>1, <1>2, GoesOn
  <1>4. /\ row'[s].status = "processing" /\ row'[s].key = row[s].key /\ row'[s].late = row[s].late
        /\ \A t \in Sessions \ {s} : row'[t] = row[t]
    BY <1>1, RowTurns
  <1>5. \A p \in Requests \ {q} : Away(p, s)
    BY <1>0, <1>2, AloneAtIt DEF Away
  <1>6. s \notin booked /\ (Unlapsed => row[s].status = "receiving" /\ s \notin finishing)
    BY <1>0, <1>2 DEF AInv, BookedOK, NotYet, Unlapsed, Knows, Tidy
  <1>7. Further(q, s)
    BY <1>0, <1>1, <1>4, <1>5, <1>6 DEF Further
  <1>8. NotYet(q)' /\ (Unlapsed => Knows(q)')
    BY <1>1, <1>3, <1>4, <1>6 DEF NotYet, Knows
  <1> QED
    BY <1>1, <1>2, <1>3, <1>4, <1>6, <1>7, <1>8, FurtherStep DEF NoFaults, Unlapsed

LEMMA CopyAdds == ASSUME AInv, NEW q \in Requests, Copy(q) PROVE AInv'
  <1>1. /\ UNCHANGED <<target, finishing, sweep, disk, booked, spent>> /\ req[q].at = "marked"
    BY DEF Copy, quiet
  <1>2. IInv' /\ Carries(q) /\ Locked(q) /\ NotYet(q)
    BY <1>1, CopyOK DEF AInv, Carries, Locked, Importing, BookedOK
  <1>3. CASE Fails(req[q].s) /\ Done(q)
    BY <1>1, <1>2, <1>3, FailsDone DEF NoFaults, Unlapsed
  <1>4. CASE /\ req' = [req EXCEPT ![q].at = "copied", ![q].data = staged[req[q].s].bytes]
             /\ UNCHANGED <<row, lock>>
    <2>1. /\ req'[q].at = "copied" /\ req'[q].s = req[q].s /\ req'[q].op = req[q].op
          /\ \A p \in Requests \ {q} : req'[p] = req[p]
      BY <1>4 DEF AInv, IInv, TypeOK, Call
    <2>2. LocksOK' /\ OthersWait(q) /\ Carries(q)' /\ ~Hopes(q)'
      BY <1>2, <1>4, <2>1, GoesOn DEF Importing
    <2>3. NotYet(q)' /\ (Unlapsed => Knows(q)')
      BY <1>1, <1>2, <1>4, <2>1, <2>2 DEF NotYet, Knows, Unlapsed
    <2> QED
      BY <1>1, <1>2, <1>4, <2>2, <2>3, QuietCall DEF NoFaults
  <1> QED
    BY <1>3, <1>4 DEF Copy

LEMMA LookAdds == ASSUME AInv, NEW q \in Requests, Look(q) PROVE AInv'
  <1>1. /\ UNCHANGED <<target, finishing, sweep, disk, booked, spent>> /\ req[q].at = "copied"
    BY DEF Look, quiet
  <1>2. IInv' /\ Carries(q) /\ Locked(q) /\ NotYet(q)
    BY <1>1, LookOK DEF AInv, Carries, Locked, Importing, BookedOK
  <1>3. CASE Fails(req[q].s) /\ Done(q)
    BY <1>1, <1>2, <1>3, FailsDone DEF NoFaults, Unlapsed
  <1>4. CASE ~Taken /\ Go(q, "looked") /\ UNCHANGED <<row, lock>>
    <2>1. /\ req'[q].at = "looked" /\ req'[q].s = req[q].s /\ req'[q].op = req[q].op
          /\ \A p \in Requests \ {q} : req'[p] = req[p]
      BY <1>4 DEF Go, AInv, IInv, TypeOK, Call
    <2>2. LocksOK' /\ OthersWait(q) /\ Carries(q)' /\ ~Hopes(q)'
      BY <1>2, <1>4, <2>1, GoesOn DEF Importing
    <2>3. NotYet(q)' /\ (Unlapsed => Knows(q)')
      BY <1>1, <1>2, <1>4, <2>1, <2>2 DEF NotYet, Knows, Unlapsed, Taken, OnePlace
    <2> QED
      BY <1>1, <1>2, <1>4, <2>2, <2>3, QuietCall DEF NoFaults
  <1> QED
    BY <1>3, <1>4 DEF Look

(* A call that goes on with its import, and leaves the rows.                *)
LEMMA FurtherOn ==
  ASSUME AInv, NEW q \in Requests, Carries(q), row' = row, finishing' = finishing,
         booked' \ booked \subseteq {req[q].s}, OnePlace => booked' = booked \/ booked = {}
  PROVE  req[q].s \in Sessions /\ Further(q, req[q].s)
  <1>1. Locked(q) /\ req[q].s \in Sessions /\ NotYet(q)
    BY OnSession DEF AInv, Carries, Locked, Importing, BookedOK
  <1>2. \A p \in Requests \ {q} : Away(p, req[q].s)
    BY <1>1, AloneAtIt DEF Away
  <1> QED
    BY <1>1, <1>2 DEF Further, NotYet, Unlapsed, Knows

LEMMA PlaceAdds == ASSUME AInv, NEW q \in Requests, Place(q) PROVE AInv'
  <1>1. /\ UNCHANGED <<target, row, lock, finishing, sweep, booked, spent>> /\ req[q].at = "looked"
        /\ disk' = (IF OnePlace THEN {} ELSE disk) \cup {req[q].s}
        /\ req'[q].at = "placed" /\ req'[q].s = req[q].s /\ req'[q].op = req[q].op
        /\ \A p \in Requests \ {q} : req'[p] = req[p]
    BY DEF Place, Go, quiet, AInv, IInv, TypeOK, Call
  <1>2. IInv' /\ Carries(q) /\ Locked(q) /\ NotYet(q)
    BY <1>1, PlaceOK DEF AInv, Carries, Locked, Importing, BookedOK
  <1>3. LocksOK' /\ OthersWait(q) /\ Carries(q)' /\ ~Hopes(q)' /\ lock'[req[q].s] = q
    BY <1>1, <1>2, GoesOn DEF Importing
  <1>4. req[q].s \in Sessions /\ Further(q, req[q].s)
    BY <1>1, <1>2, FurtherOn
  <1>5. NotYet(q)' /\ (Unlapsed => Knows(q)')
    BY <1>1, <1>2, <1>3 DEF NotYet, Knows, Unlapsed, OnePlace
  <1>6. Unlapsed => booked' \subseteq disk'
    BY <1>1, <1>2 DEF Unlapsed, Knows
  <1>7. req[q].s \notin booked'
    BY <1>1, <1>2 DEF NotYet
  <1> QED
    BY <1>1, <1>2, <1>3, <1>4, <1>5, <1>6, <1>7, FurtherStep DEF NoFaults

LEMMA EnrollAdds == ASSUME AInv, NEW q \in Requests, Enroll(q) PROVE AInv'
  <1>0. PICK s \in Sessions : s = req[q].s
    BY OnSession DEF AInv, Enroll
  <1>1. /\ UNCHANGED <<target, sweep, disk, spent>> /\ req[q].at = "placed"
        /\ booked' = IF Entered THEN booked ELSE booked \cup {s}
    BY <1>0 DEF Enroll, quiet
  <1>2. IInv' /\ Carries(q) /\ Locked(q) /\ NotYet(q) /\ s \notin booked
    BY <1>0, <1>1, EnrollOK DEF AInv, Carries, Locked, Importing, BookedOK, NotYet
  <1>3. /\ booked' \ booked \subseteq {s} /\ (OnePlace => booked' = booked \/ booked = {})
        /\ Unlapsed => booked' \subseteq disk'
    BY <1>0, <1>1 DEF Entered, Unlapsed, Knows
  <1>4. Unlapsed => row[s].status = "processing" /\ s \notin finishing
    BY <1>0, <1>2 DEF Unlapsed, Knows
  <1>5. CASE /\ target = "library" /\ Done(q)
             /\ row' = [row EXCEPT ![s].result = TRUE] /\ finishing' = finishing \cup {s}
    <2>1. /\ row'[s].status = row[s].status /\ row'[s].key = row[s].key /\ row'[s].late = row[s].late
          /\ \A t \in Sessions \ {s} : row'[t] = row[t]
      BY <1>5 DEF AInv, IInv, TypeOK, Row
    <2>2. \A p \in Requests \ {q} : Away(p, s)
      BY <1>0, <1>2, AloneAtIt DEF Away
    <2>3. Further(q, s)
      BY <1>0, <1>2, <1>3, <1>4, <1>5, <2>1, <2>2 DEF Further, NotYet
    <2> QED
      BY <1>1, <1>2, <1>3, <1>5, <2>3, DoneLocks, FurtherStep DEF NoFaults, OnePlace
  <1>6. CASE Entered /\ Fails(s) /\ Done(q) /\ UNCHANGED finishing
    BY <1>0, <1>1, <1>2, <1>6, FailsDone DEF NoFaults, Unlapsed
  <1>7. CASE Go(q, "booked") /\ UNCHANGED <<row, finishing, lock>>
    <2>1. /\ req'[q].at = "booked" /\ req'[q].s = req[q].s /\ req'[q].op = req[q].op
          /\ \A p \in Requests \ {q} : req'[p] = req[p]
      BY <1>7 DEF Go, AInv, IInv, TypeOK, Call
    <2>2. LocksOK' /\ OthersWait(q) /\ Carries(q)' /\ ~Hopes(q)' /\ lock'[s] = q
      BY <1>0, <1>2, <1>7, <2>1, GoesOn DEF Importing
    <2>3. Further(q, s)
      BY <1>0, <1>2, <1>3, <1>7, FurtherOn
    <2>4. NotYet(q)' /\ (Unlapsed => Knows(q)')
      BY <1>0, <1>2, <1>4, <1>7, <2>1, <2>2 DEF NotYet, Knows
    <2>5. NoFaults => row'[s].status = "processing"
      BY <1>4, <1>7 DEF NoFaults, AInv
    <2> QED
      BY <1>1, <1>2, <1>3, <2>2, <2>3, <2>4, <2>5, FurtherStep DEF NoFaults
  <1> QED
    BY <1>0, <1>5, <1>6, <1>7 DEF Enroll

LEMMA FinishAdds == ASSUME AInv, NEW q \in Requests, Finish(q) PROVE AInv'
  <1>0. PICK s \in Sessions : s = req[q].s
    BY OnSession DEF AInv, Finish
  <1>1. /\ UNCHANGED <<target, finishing, sweep, disk, booked, spent>> /\ req[q].at = "booked"
        /\ row' = [row EXCEPT ![s].status = "completed", ![s].result = TRUE] /\ Done(q)
    BY <1>0 DEF Finish, Completes, quiet
  <1>2. IInv' /\ Carries(q) /\ Locked(q)
    BY <1>1, FinishOK DEF AInv, Carries, Locked, Importing
  <1>3. /\ row'[s].status = "completed" /\ row'[s].key = row[s].key /\ row'[s].late = row[s].late
        /\ \A t \in Sessions \ {s} : row'[t] = row[t]
    BY <1>1, RowTurns
  <1>4. \A p \in Requests \ {q} : Away(p, s)
    BY <1>0, <1>2, AloneAtIt DEF Away
  <1>5. Unlapsed => row[s].status = "processing" /\ s \notin finishing
    BY <1>0, <1>2 DEF Unlapsed, Knows
  <1>6. Further(q, s)
    BY <1>0, <1>1, <1>3, <1>4, <1>5 DEF Further
  <1> QED
    BY <1>1, <1>2, <1>3, <1>6, DoneLocks, FurtherStep DEF NoFaults, Unlapsed

LEMMA ImportFailsAdds == ASSUME AInv, NEW q \in Requests, ImportFails(q) PROVE AInv'
  <1>1. spent'.lapses = spent.lapses /\ ~NoFaults'
    BY Failing DEF ImportFails
  <1>2. IInv' /\ Carries(q) /\ NotYet(q)
    BY ImportFailsOK DEF AInv, ImportFails, Carries, Importing, BookedOK
  <1>3. ASSUME Unlapsed PROVE booked \subseteq disk'
    <2>1. Discards(q) => req[q].at = "placed" /\ (OnePlace => booked = {})
      BY <1>3 DEF Discards, Unlapsed, Knows
    <2> QED
      BY <1>2, <1>3, <2>1 DEF ImportFails, Unlapsed, NotYet, Carries
  <1> QED
    BY <1>1, <1>2, <1>3, FailsDone DEF ImportFails, quiet

-----------------------------------------------------------------------------
(* A new session is nobody's yet.                                           *)
LEMMA InsertAdds == ASSUME AInv, NEW q \in Requests, Insert(q) PROVE AInv'
  <1>1. /\ UNCHANGED <<target, finishing, sweep, disk, booked, spent>> /\ Done(q) /\ req[q].at = "free"
    BY DEF Insert, quiet
  <1>2. IInv' /\ ~Carries(q)
    BY <1>1, InsertOK, NotAtWork DEF AInv
  <1>3. CASE row' = row
    BY <1>1, <1>2, <1>3, DoneQuietly DEF NoFaults
  <1>4. ASSUME NEW s \in Fresh, Keyed = {},
               row' = [row EXCEPT ![s] = [NoRow EXCEPT !.status = "receiving", !.key = TRUE]]
        PROVE  AInv'
    <2>1. s \in Sessions /\ row[s].status = "none" /\ s \notin finishing /\ s \notin booked
      BY DEF Fresh, AInv, IInv, Swept, BookedOK
    <2>2. /\ row'[s].status = "receiving" /\ row'[s].key /\ ~row'[s].late
          /\ \A t \in Sessions \ {s} : row'[t] = row[t]
      BY <1>4, <2>1 DEF NoRow, AInv, IInv, TypeOK
    <2>3. LocksOK' /\ OthersWait(q) /\ Knows(q)' /\ NotYet(q)'
      BY <1>1, DoneLocks
    <2>4. ASSUME NEW p \in Requests \ {q}
          PROVE  /\ req'[p] = req[p] /\ (Hopes(p) <=> Hopes(p)') /\ (Carries(p) <=> Carries(p)')
                 /\ Hopes(p) \/ Carries(p) \/ req[p].at = "found" =>
                      req[p].s \in Sessions /\ req[p].s # s
      <3>1. req'[p] = req[p] /\ (Hopes(p) <=> Hopes(p)') /\ (Carries(p) <=> Carries(p)')
        BY <2>3 DEF OthersWait, Hopes, Carries, Locked
      <3>2. Hopes(p) \/ Carries(p) \/ req[p].at = "found" => req[p].at \notin {"idle", "free"}
        BY DEF Hopes, Carries, Importing
      <3> QED
        BY <2>1, <3>1, <3>2, OfCall DEF AInv
    <2>5. KeyOK'
      BY <1>4, <2>1, <2>2 DEF KeyOK, Keyed
    <2>6. BookedOK'
      <3>1. \A p \in Requests \ {q} : NotYet(p)'
        BY <1>1, <2>2, <2>4 DEF NotYet, AInv, BookedOK
      <3>2. \A t \in booked : t \in Sessions /\ t # s
        BY <2>1 DEF AInv, IInv, TypeOK
      <3> QED
        BY <1>1, <2>2, <2>3, <3>1, <3>2 DEF AInv, BookedOK, OnePlace
    <2>7. ImportCarried'
      <3> SUFFICES ASSUME NEW t \in Sessions, row'[t].status = "processing", t \notin finishing'
                   PROVE  \E p \in Requests : lock'[t] = p /\ Carries(p)'
        BY UploadAssumption DEF ImportCarried, Carries, Importing, UploadAssumption
      <3>1. PICK p \in Requests : lock[t] = p /\ Carries(p)
        BY <1>1, <2>2 DEF AInv, IInv, TypeOK, ImportCarried, Carries, Importing
      <3> QED
        BY <1>2, <2>3, <2>4, <3>1 DEF OthersWait
    <2>8. ASSUME Unlapsed PROVE Unlapsed'
      <3>1. \A t \in Sessions : Tidy(t)'
        BY <1>1, <2>1, <2>2, <2>8 DEF Unlapsed, Tidy
      <3>2. \A p \in Requests \ {q} : Knows(p)'
        BY <1>1, <2>2, <2>4, <2>8 DEF Unlapsed, Knows, OnePlace, Carries, Importing
      <3> QED
        BY <1>1, <2>3, <2>8, <3>1, <3>2 DEF Unlapsed
    <2>9. Once'
      <3>1. \A t \in booked : t \in Sessions /\ t # s
        BY <2>1 DEF AInv, IInv, TypeOK
      <3> QED
        BY <1>1, <2>2, <3>1 DEF AInv, Once, OnePlace, NoFaults
    <2> QED
      BY <1>1, <1>2, <2>3, <2>5, <2>6, <2>7, <2>8, <2>9 DEF AInv
  <1> QED
    BY <1>3, <1>4 DEF Insert

LEMMA CancelAdds == ASSUME AInv, NEW q \in Requests, Cancel(q) PROVE AInv'
  <1>0. PICK s \in Sessions : s = req[q].s
    BY OnSession DEF AInv, Cancel
  <1>1. /\ UNCHANGED <<target, finishing, sweep, disk, booked, spent>> /\ Done(q)
        /\ req[q].at = "waiting" /\ lock[s] = Nobody
    BY <1>0 DEF Cancel, quiet, MayEnter
  <1>2. IInv' /\ ~Carries(q)
    BY <1>1, CancelOK, NotAtWork DEF AInv
  <1>3. CASE row' = row
    BY <1>1, <1>2, <1>3, DoneQuietly DEF NoFaults
  <1>4. CASE /\ row[s].status \notin {"processing", "completed"}
             /\ row' = [row EXCEPT ![s].status = "cancelled"]
    <2>1. /\ row'[s].status = "cancelled" /\ row'[s].key = row[s].key /\ row'[s].late = row[s].late
          /\ \A t \in Sessions \ {s} : row'[t] = row[t]
      BY <1>4, RowTurns
    <2>2. ASSUME NEW p \in Requests, req[p].s = s PROVE ~Hopes(p) /\ ~Carries(p)
      BY <1>1, <2>2, UploadAssumption
      DEF AInv, IInv, CallOK, Hopes, Carries, Locked, Importing, UploadAssumption
    <2>3. Unlapsed => s \notin finishing
      BY <1>4 DEF Unlapsed, Tidy
    <2>4. Further(q, s)
      BY <1>0, <1>1, <2>1, <2>2, <2>3 DEF Further, Away
    <2>5. s \in booked => ~(~OnePlace /\ NoFaults)
      BY <1>4 DEF AInv, Once
    <2> QED
      BY <1>1, <1>2, <2>1, <2>4, <2>5, DoneLocks, FurtherStep DEF NoFaults, Unlapsed, OnePlace
  <1> QED
    BY <1>0, <1>3, <1>4 DEF Cancel

(* The background takes a book further, with no call and no lock.           *)
LEMMA NobodyLocks ==
  ASSUME AInv, UNCHANGED <<req, lock>>
  PROVE  LocksOK' /\ OthersWait(Nobody)
  BY DEF AInv, LocksOK, Locked, Importing, OthersWait

LEMMA FinishBookAdds == ASSUME AInv, NEW s \in Sessions, FinishBook(s) PROVE AInv'
  <1>1. /\ UNCHANGED <<target, req, lock, sweep, disk, booked, spent>>
        /\ s \in finishing /\ finishing' = finishing \ {s}
        /\ row' = [row EXCEPT ![s].status = "completed", ![s].result = TRUE]
    BY DEF FinishBook, Completes, quiet
  <1>2. IInv' /\ LocksOK' /\ OthersWait(Nobody) /\ Nobody \notin Requests
    BY <1>1, FinishBookOK, NobodyLocks, UploadAssumption DEF AInv, UploadAssumption
  <1>3. /\ row'[s].status = "completed" /\ row'[s].key = row[s].key /\ row'[s].late = row[s].late
        /\ \A t \in Sessions \ {s} : row'[t] = row[t]
    BY <1>1, RowTurns
  <1>4. Unlapsed => row[s].status = "processing"
    BY <1>1 DEF Unlapsed, Tidy
  <1>5. \A p \in Requests : Away(p, s)
    BY <1>1, <1>4 DEF Away, Unlapsed, Knows
  <1>6. Further(Nobody, s)
    BY <1>1, <1>2, <1>3, <1>4, <1>5 DEF Further
  <1> QED
    BY <1>1, <1>2, <1>3, <1>6, FurtherStep DEF NoFaults, Unlapsed

LEMMA BookFailsAdds == ASSUME AInv, NEW s \in Sessions, BookFails(s) PROVE AInv'
  <1>1. /\ UNCHANGED <<target, req, lock, sweep, disk, booked>>
        /\ s \in finishing /\ finishing' = finishing \ {s}
        /\ row' = [row EXCEPT ![s].status = "failed"]
    BY DEF BookFails, Fails, quiet
  <1>2. IInv' /\ LocksOK' /\ OthersWait(Nobody) /\ Nobody \notin Requests
    BY <1>1, BookFailsOK, NobodyLocks, UploadAssumption DEF AInv, UploadAssumption
  <1>3. /\ row'[s].status = "failed" /\ row'[s].key = row[s].key /\ row'[s].late = row[s].late
        /\ \A t \in Sessions \ {s} : row'[t] = row[t]
    BY <1>1, RowTurns
  <1>4. Unlapsed => row[s].status = "processing"
    BY <1>1 DEF Unlapsed, Tidy
  <1>5. \A p \in Requests : Away(p, s)
    BY <1>1, <1>4 DEF Away, Unlapsed, Knows
  <1>6. Further(Nobody, s)
    BY <1>1, <1>2, <1>3, <1>4, <1>5 DEF Further
  <1>7. spent'.lapses = spent.lapses /\ ~NoFaults'
    BY Failing DEF BookFails
  <1> QED
    BY <1>1, <1>2, <1>3, <1>6, <1>7, FurtherStep DEF Unlapsed

-----------------------------------------------------------------------------
(* Once a session is past its date there is less to keep.                   *)
LEMMA AfterLapse ==
  ASSUME AInv, IInv', spent'.lapses # 0, UNCHANGED <<target, req, lock, finishing, booked>>,
         \A t \in Sessions :
           /\ row'[t].key => row[t].key
           /\ row'[t].status \in {"none", "receiving"} => row[t].status \in {"none", "receiving"}
           /\ row'[t].status = "processing" => row[t].status = "processing"
  PROVE  AInv'
  <1>1. \A p \in Requests : /\ (Hopes(p) <=> Hopes(p)') /\ (Carries(p) <=> Carries(p)')
                            /\ Carries(p) => req[p].s \in Sessions
    BY OnSession DEF AInv, Hopes, Carries, Locked, Importing
  <1>2. LocksOK' /\ KeyOK'
    BY NobodyLocks DEF AInv, KeyOK, Keyed
  <1>3. BookedOK'
    <2>1. \A t \in booked : t \in Sessions
      BY DEF AInv, IInv, TypeOK
    <2> QED
      BY <1>1, <2>1 DEF AInv, BookedOK, NotYet, OnePlace
  <1>4. ImportCarried'
    BY DEF AInv, ImportCarried
  <1> QED
    BY <1>2, <1>3, <1>4 DEF AInv, Once, NoFaults

LEMMA LapseAdds == ASSUME AInv, NEW s \in Sessions, Lapse(s) PROVE AInv'
  <1>1. /\ UNCHANGED <<target, req, lock, finishing, booked>>
        /\ row' = [row EXCEPT ![s].late = TRUE] /\ spent' = [spent EXCEPT !["lapses"] = spent["lapses"] + 1]
    BY DEF Lapse, Spend, quiet
  <1>2. IInv' /\ row \in [Sessions -> Row] /\ spent.lapses \in 0..MaxLapses /\ MaxLapses \in Nat
    BY LapseOK, UploadAssumption DEF AInv, IInv, TypeOK, UploadAssumption
  <1>3. spent'.lapses = spent.lapses + 1
    BY <1>1 DEF AInv, IInv, TypeOK
  <1>4. \A t \in Sessions : row'[t].key = row[t].key /\ row'[t].status = row[t].status
    BY <1>1, <1>2 DEF Row
  <1> QED
    BY <1>1, <1>2, <1>3, <1>4, AfterLapse

(* The sweep has nothing to do before.                                      *)
LEMMA SweepListAdds == ASSUME AInv, SweepList PROVE AInv'
  <1>1. ~Unlapsed
    BY DEF SweepList, Lapsed, Unlapsed, Tidy
  <1>2. IInv' /\ spent'.lapses # 0
    BY <1>1, SweepListOK DEF AInv, SweepList
  <1> QED
    BY <1>2, AfterLapse DEF SweepList, quiet

LEMMA SweepMarkAdds == ASSUME AInv, NEW s \in Sessions, SweepMark(s) PROVE AInv'
  <1>1. ~Unlapsed
    BY DEF SweepMark, Unlapsed
  <1>2. IInv' /\ spent'.lapses # 0 /\ UNCHANGED <<target, req, lock, finishing, booked>>
    BY <1>1, SweepMarkOK DEF AInv, SweepMark, quiet
  <1>3. /\ row'[s].status = "expired" /\ row'[s].key = row[s].key
        /\ \A t \in Sessions \ {s} : row'[t] = row[t]
    BY RowTurns DEF SweepMark
  <1> QED
    BY <1>2, <1>3, AfterLapse

LEMMA SweepRemoveAdds == ASSUME AInv, SweepRemove PROVE AInv'
  <1>1. ~Unlapsed
    BY DEF SweepRemove, Unlapsed
  <1>2. IInv' /\ spent'.lapses # 0
    BY <1>1, SweepRemoveOK DEF AInv, SweepRemove
  <1> QED
    BY <1>2, AfterLapse DEF SweepRemove, quiet

(* What a restart finds being imported has its book, and goes on.           *)
LEMMA RestartAdds == ASSUME AInv, Restart PROVE AInv'
  <1>1. spent'.lapses = spent.lapses /\ ~NoFaults'
    BY Failing DEF Restart
  <1>2. /\ IInv' /\ UNCHANGED <<target, disk, booked>> /\ sweep' = [todo |-> {}, at |-> 0]
        /\ \A q \in Requests : req'[q] = Idle /\ \A s \in Sessions : lock'[s] = Nobody
    BY RestartOK DEF AInv, Restart, quiet
  <1>3. ASSUME NEW s \in Sessions
        PROVE  /\ row'[s].key = row[s].key /\ row'[s].late = row[s].late
               /\ row'[s].status = (IF Lapsed(s) THEN "expired"
                                    ELSE IF row[s].status = "processing" /\ ~row[s].result
                                    THEN "failed" ELSE row[s].status)
    <2>1. row[s] \in Row
      BY DEF AInv, IInv, TypeOK
    <2>2. row'[s] = IF Lapsed(s) THEN [row[s] EXCEPT !.status = "expired"]
                    ELSE IF row[s].status = "processing" /\ ~row[s].result
                         THEN [row[s] EXCEPT !.status = "failed"] ELSE row[s]
      BY DEF Restart
    <2> QED
      BY <2>1, <2>2 DEF Row
  <1>4. \A s \in Sessions : row'[s].status = "processing" <=> s \in finishing'
    BY <1>3 DEF Restart, Continued, Lapsed
  <1>5. ASSUME NEW q \in Requests
        PROVE  ~Hopes(q)' /\ ~Carries(q)' /\ ~Locked(q)' /\ Knows(q)' /\ NotYet(q)'
    BY <1>2, Unconcerned DEF Idle
  <1>6. LocksOK'
    BY <1>2, UploadAssumption DEF LocksOK, Idle, UploadAssumption
  <1>7. KeyOK'
    BY <1>3 DEF AInv, KeyOK, Keyed
  <1>8. BookedOK'
    <2>1. \A t \in booked : t \in Sessions
      BY DEF AInv, IInv, TypeOK
    <2> QED
      BY <1>2, <1>3, <1>5, <2>1 DEF AInv, BookedOK, OnePlace, Lapsed
  <1>9. ImportCarried'
    BY <1>4 DEF ImportCarried
  <1>10. ASSUME Unlapsed PROVE Unlapsed'
    <2>1. \A t \in Sessions : Tidy(t)'
      BY <1>3, <1>4, <1>10 DEF Unlapsed, Tidy, Lapsed
    <2> QED
      BY <1>2, <1>5, <1>10, <2>1 DEF Unlapsed
  <1> QED
    BY <1>1, <1>2, <1>6, <1>7, <1>8, <1>9, <1>10 DEF AInv, Once

-----------------------------------------------------------------------------
LEMMA InitAdds == Init => AInv
  <1> SUFFICES ASSUME Init PROVE AInv
    OBVIOUS
  <1>1. IInv
    BY InitOK
  <1>2. /\ \A q \in Requests : req[q] = Idle
        /\ \A s \in Sessions : lock[s] = Nobody /\ row[s] = NoRow
    BY DEF Init
  <1>3. LocksOK
    BY <1>2, UploadAssumption DEF LocksOK, Idle, UploadAssumption
  <1>4. KeyOK /\ ImportCarried
    BY <1>2 DEF KeyOK, Keyed, ImportCarried, NoRow
  <1>5. BookedOK /\ Once
    BY <1>2 DEF Init, BookedOK, NotYet, Hopes, Carries, Importing, Locked, Idle, Once
  <1>6. Unlapsed
    BY <1>2 DEF Init, Unlapsed, Tidy, Knows, Hopes, Carries, Importing, Locked, Idle, NoRow
  <1> QED
    BY <1>1, <1>3, <1>4, <1>5, <1>6 DEF AInv

LEMMA StandingAdds == ASSUME AInv, UNCHANGED vars PROVE AInv'
  <1>1. IInv'
    BY NextOK DEF AInv
  <1>2. UNCHANGED <<target, row, lock, req, finishing, sweep, disk, booked, spent>>
    BY DEF vars, quiet
  <1>3. \A p \in Requests : /\ (Hopes(p) <=> Hopes(p)') /\ (Carries(p) <=> Carries(p)')
                            /\ (Knows(p) <=> Knows(p)') /\ (NotYet(p) <=> NotYet(p)')
    BY <1>2 DEF Hopes, Carries, Locked, Importing, Knows, NotYet, OnePlace
  <1>4. LocksOK' /\ KeyOK' /\ ImportCarried' /\ Once'
    BY <1>2, NobodyLocks DEF AInv, KeyOK, Keyed, ImportCarried, Once, NoFaults, OnePlace
  <1>5. BookedOK' /\ (Unlapsed => Unlapsed')
    BY <1>2, <1>3 DEF AInv, BookedOK, OnePlace, Unlapsed, Tidy
  <1> QED
    BY <1>1, <1>2, <1>4, <1>5 DEF AInv

LEMMA NextAdds == AInv /\ [Next]_vars => AInv'
  <1> SUFFICES ASSUME AInv, [Next]_vars PROVE AInv'
    OBVIOUS
  <1>1. ASSUME NEW q \in Requests, Step(q) PROVE AInv'
    BY <1>1, ReleaseKeyAdds, InsertAdds, CorrectAdds, BeginWriteAdds, WriteByteAdds, EndWriteAdds,
       CheckAdds, MarkAdds, CopyAdds, LookAdds, PlaceAdds, EnrollAdds, FinishAdds DEF Step
  <1>2. ASSUME NEW q \in Requests,
               \/ Find(q) \/ Arrive(q) \/ Stall(q) \/ Enter(q) \/ Cancel(q)
               \/ WriteFails(q) \/ ImportFails(q)
        PROVE  AInv'
    BY <1>2, FindAdds, ArriveAdds, StallAdds, EnterAdds, CancelAdds, WriteFailsAdds, ImportFailsAdds
  <1>3. ASSUME NEW q \in Requests, NEW s \in Sessions,
               \/ \E n \in 1..Chunk : Upload(q, s, n)
               \/ \E op \in {"get", "complete", "cancel"} : Ask(q, s, op)
        PROVE  AInv'
    BY <1>3, UploadAdds, AskAdds
  <1>4. ASSUME NEW s \in Sessions, FinishBook(s) \/ BookFails(s) \/ Lapse(s) \/ SweepMark(s)
        PROVE  AInv'
    BY <1>4, FinishBookAdds, BookFailsAdds, LapseAdds, SweepMarkAdds
  <1>5. CASE SweepList \/ SweepRemove \/ Restart
    BY <1>5, SweepListAdds, SweepRemoveAdds, RestartAdds
  <1> QED
    BY <1>1, <1>2, <1>3, <1>4, <1>5, StandingAdds DEF Next

LEMMA AddsAlways == Spec => []AInv
  BY InitAdds, NextAdds, PTL DEF Spec

(* A file is entered for one session, however often answers are lost and    *)
(* the upload is started over (create, complete); in the Dock, as long as   *)
(* nothing has failed, restarted or lapsed.                                 *)
THEOREM AddedOnceCorrect == Spec => []AddedOnce
  <1>1. ASSUME AInv PROVE AddedOnce
    <2>1. CASE OnePlace
      BY <1>1, <2>1 DEF AddedOnce, AInv, BookedOK, OnePlace
    <2>2. CASE ~OnePlace
      <3> SUFFICES ASSUME NoFaults, NEW s \in booked, NEW t \in booked PROVE s = t
        BY <2>2 DEF AddedOnce, OnePlace, NoFaults
      <3>1. Unlapsed /\ s \in Sessions /\ t \in Sessions
        BY <1>1 DEF AInv, NoFaults, IInv, TypeOK
      <3>2. s \in Keyed /\ t \in Keyed
        BY <1>1, <2>2, <3>1 DEF AInv, Once, Unlapsed, Tidy, Keyed
      <3> QED
        BY <1>1, <3>2 DEF AInv, KeyOK
    <2> QED
      BY <2>1, <2>2
  <1> QED
    BY <1>1, AddsAlways, PTL

(* What has been entered keeps its file, whatever fails afterwards          *)
(* (complete), as long as no session has been swept.                        *)
THEOREM FileKeptCorrect == Spec => []FileKept
  <1>1. AInv => FileKept
    BY DEF AInv, FileKept, Unlapsed
  <1> QED
    BY <1>1, AddsAlways, PTL

(* An import that has begun is in the hands of the call that has the lock,  *)
(* or of the background, also after a restart (onApplicationBootstrap).   *)
THEOREM ImportCarriedCorrect == Spec => []ImportCarried
  <1>1. AInv => ImportCarried
    BY DEF AInv
  <1> QED
    BY <1>1, AddsAlways, PTL

(* What a step of a call may do to a session that is cancelled.             *)
Stays(s) == row'[s].status = "cancelled" /\ (s \in booked' => s \in booked)

LEMMA CallLeaves ==
  ASSUME AInv, Unlapsed, NEW s \in Sessions, row[s].status = "cancelled", NEW q \in Requests,
         \/ Mark(q) \/ Copy(q) \/ Look(q) \/ Enroll(q) \/ Finish(q) \/ ImportFails(q)
         \/ BeginWrite(q) \/ Check(q)
  PROVE  Stays(s)
  <1>1. /\ req[q].s = s => ~Hopes(q) /\ ~Carries(q)
        /\ req[q].s \in Sessions /\ row \in [Sessions -> Row]
    BY OnSession DEF AInv, IInv, TypeOK, Unlapsed, Knows, Mark, Copy, Look, Enroll, Finish, ImportFails,
       BeginWrite, Check
  <1>2. Mark(q) => Hopes(q)
    BY DEF Mark, Hopes
  <1>3. Copy(q) \/ Look(q) \/ Enroll(q) \/ Finish(q) \/ ImportFails(q) => Carries(q)
    BY DEF Copy, Look, Enroll, Finish, ImportFails, Carries, Importing
  <1>4. CASE req[q].s # s
    <2>1. Mark(q) \/ Copy(q) \/ Look(q) \/ ImportFails(q) \/ BeginWrite(q) \/ Check(q) => Stays(s)
      BY <1>1, <1>4 DEF Mark, Copy, Look, ImportFails, BeginWrite, Check, Fails, Stays
    <2>2. Enroll(q) \/ Finish(q) => Stays(s)
      <3>1. Enroll(q) => row'[s] = row[s] /\ (s \in booked' => s \in booked)
        BY <1>1, <1>4 DEF Enroll, Fails
      <3>2. Finish(q) => row'[s] = row[s] /\ booked' = booked
        BY <1>1, <1>4 DEF Finish, Completes
      <3> QED
        BY <3>1, <3>2 DEF Stays
    <2> QED
      BY <2>1, <2>2
  <1>5. CASE req[q].s = s /\ (BeginWrite(q) \/ Check(q))
    <2>1. ~StillReceiving(q)
      BY <1>1, <1>5 DEF BeginWrite, Check, StillReceiving, Hopes, Locked
    <2> QED
      BY <1>5, <2>1 DEF BeginWrite, Check, Stays
  <1> QED
    BY <1>1, <1>2, <1>3, <1>4, <1>5

LEMMA CallKeeps ==
  ASSUME AInv, NEW s \in Sessions, row[s].status = "cancelled", NEW q \in Requests,
         \/ ReleaseKey(q) \/ Insert(q) \/ Correct(q) \/ WriteByte(q) \/ EndWrite(q) \/ Place(q)
         \/ Find(q) \/ Arrive(q) \/ Stall(q) \/ Enter(q) \/ Cancel(q) \/ WriteFails(q)
  PROVE  Stays(s)
  <1>1. row \in [Sessions -> Row]
    BY DEF AInv, IInv, TypeOK
  <1>2. CASE \/ WriteByte(q) \/ Place(q) \/ Find(q) \/ Arrive(q) \/ Stall(q) \/ Enter(q) \/ WriteFails(q)
    BY <1>2 DEF WriteByte, Place, Find, Arrive, Stall, Enter, WriteFails, Stays
  <1>3. CASE ReleaseKey(q)
    BY <1>1, <1>3 DEF ReleaseKey, Stays, Row
  <1>4. CASE Insert(q)
    BY <1>1, <1>4 DEF Insert, Fresh, Stays
  <1>5. CASE Correct(q) \/ EndWrite(q)
    <2>1. /\ UNCHANGED <<finishing, booked>> /\ req[q].s \in Sessions
          /\ \/ row' = [row EXCEPT ![req[q].s].received = req[q].k]
             \/ row' = [row EXCEPT ![req[q].s].received = req[q].received + req[q].n,
                                   ![req[q].s].late = FALSE]
      BY <1>5, OnSession DEF Correct, EndWrite, AInv
    <2> QED
      BY <2>1, Resized DEF Stays
  <1>6. CASE Cancel(q)
    <2>1. req[q].s \in Sessions
      BY <1>6, OnSession DEF Cancel, AInv
    <2> QED
      BY <1>1, <1>6, <2>1 DEF Cancel, Stays, Row
  <1> QED
    BY <1>2, <1>3, <1>4, <1>5, <1>6

LEMMA BackgroundLeaves ==
  ASSUME AInv, Unlapsed, NEW s \in Sessions, row[s].status = "cancelled",
         \/ \E t \in Sessions : FinishBook(t) \/ BookFails(t) \/ Lapse(t) \/ SweepMark(t)
         \/ SweepList \/ SweepRemove \/ Restart
  PROVE  Stays(s)
  <1>1. row \in [Sessions -> Row] /\ s \notin finishing /\ sweep.todo = {}
    BY DEF AInv, IInv, TypeOK, Unlapsed, Tidy
  <1>2. ASSUME NEW t \in Sessions, FinishBook(t) \/ BookFails(t) PROVE Stays(s)
    <2>1. booked' = booked /\ t # s
      BY <1>1, <1>2 DEF FinishBook, BookFails
    <2>2. FinishBook(t) => row'[s] = row[s]
      BY <1>1, <2>1 DEF FinishBook, Completes
    <2>3. BookFails(t) => row'[s] = row[s]
      BY <1>1, <2>1 DEF BookFails, Fails
    <2> QED
      BY <1>2, <2>1, <2>2, <2>3 DEF Stays
  <1>3. ASSUME NEW t \in Sessions, Lapse(t) PROVE Stays(s)
    BY <1>1, <1>3 DEF Lapse, Stays, Row
  <1>4. CASE SweepList \/ SweepRemove \/ \E t \in Sessions : SweepMark(t)
    BY <1>1, <1>4 DEF SweepList, SweepRemove, SweepMark, Stays
  <1>5. CASE Restart
    BY <1>5 DEF Restart, Lapsed, Stays
  <1> QED
    BY <1>2, <1>3, <1>4, <1>5

(* No step changes a cancelled session, or adds its file, as long as no     *)
(* session is past its date (cancel).                                       *)
THEOREM CancelHoldsCorrect == Spec => CancelHolds
  <1>1. ASSUME AInv, [Next]_vars
        PROVE  \A s \in Sessions : row[s].status = "cancelled" /\ spent.lapses = 0 =>
                 row'[s].status = "cancelled" /\ (s \in booked' => s \in booked)
    <2> SUFFICES ASSUME NEW s \in Sessions, row[s].status = "cancelled", spent.lapses = 0
                 PROVE  row'[s].status = "cancelled" /\ (s \in booked' => s \in booked)
      OBVIOUS
    <2>1. Unlapsed
      BY <1>1 DEF AInv
    <2>2. ASSUME NEW q \in Requests, NEW t \in Sessions,
                 \/ \E n \in 1..Chunk : Upload(q, t, n)
                 \/ \E op \in {"get", "complete", "cancel"} : Ask(q, t, op)
          PROVE  Stays(s)
      BY <2>2 DEF Upload, Ask, Stays
    <2>3. CASE UNCHANGED vars
      BY <2>3 DEF vars, Stays
    <2> QED
      BY <1>1, <2>1, <2>2, <2>3, CallLeaves, CallKeeps, BackgroundLeaves DEF Next, Step, Stays
  <1> QED
    BY <1>1, AddsAlways, PTL DEF Spec, CancelHolds
=============================================================================
