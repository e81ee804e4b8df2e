------------------------- MODULE PublicationsProofs -------------------------
(***************************************************************************)
(* What holds of Publications for every number of publications and jobs,   *)
(* and of changes, faults and stops: the file is explained by the rows, a  *)
(* publication under way is for the current revision, the bytes that were  *)
(* replaced last can be read, what a fault leaves behind can be finished   *)
(* or taken back, and nothing is installed for a job that has stopped.     *)
(***************************************************************************)
EXTENDS Publications, WellFoundedInduction, TLAPS

DirRow == [staged : {Absent} \cup Contents, backup : {Absent} \cup Contents]
RevRow == [sha : {Absent} \cup Contents, storage : {"none", "backup", "kept"}]
States == {"unused", "staged", "dropped", "prepared", "filesystem_published",
           "database_committed", "cleanup_complete", "failed"}
PubRow == [state : States, by : Jobs \cup {Writer}, expected : Revs, prev : Contents,
           next : Contents, review : {"none", "content", "metadata"}, settled : BOOLEAN]
JobRow == [state : {"active", "content_review", "metadata_review", "stopped", "done"},
           receipt : Revs]

TargetOK == target \in Contents
DirsOK == dirs \in [Pubs -> DirRow]
KeptType == kept \in [Revs -> {Absent} \cup Contents]
RevsOK == revs \in [Revs -> RevRow]
RowOK == row \in Revs /\ revs[row].sha # Absent
PubOK == pub \in [Pubs -> PubRow]
BookOK == book \in [pub : {0} \cup Pubs, as : {"none", "owner", "recovery"}]
TxType == tx \in [pub : {0} \cup Pubs,
                  step : {"none", "checked", "renamed", "retained", "removed", "pruned"}]
JobOK == job \in [Jobs -> JobRow]
SpentOK == spent \in [outside : 0..MaxOutside, observed : 0..MaxOutside, faults : Nat, stops : Nat]

LEMMA TypeParts ==
  TypeOK <=> /\ TargetOK /\ DirsOK /\ KeptType /\ RevsOK /\ RowOK
             /\ PubOK /\ BookOK /\ TxType /\ JobOK /\ SpentOK
  BY DEF TypeOK, TargetOK, DirsOK, KeptType, RevsOK, RowOK, PubOK, BookOK, TxType, JobOK,
         SpentOK, DirRow, RevRow, PubRow, JobRow, States

LEMMA TypePartsNext ==
  ASSUME TargetOK', DirsOK', KeptType', RevsOK', RowOK', PubOK', BookOK', TxType', JobOK',
         SpentOK'
  PROVE  TypeOK'
  BY DEF TypeOK, TargetOK, DirsOK, KeptType, RevsOK, RowOK, PubOK, BookOK, TxType, JobOK,
         SpentOK, DirRow, RevRow, PubRow, JobRow, States

LEMMA Numbers ==
  /\ N \in Nat /\ N > 0 /\ MaxOutside \in Nat
  /\ \A p \in Pubs : p \in Nat /\ p \in Revs /\ Fresh(p) \in Contents /\ p # 0
  /\ 0 \in Revs /\ 1 \in Contents /\ Absent \notin Contents
  /\ \A k \in 0..MaxOutside : k < MaxOutside =>
       N + 2 + k \in Contents /\ IsForeign(N + 2 + k) /\ N + 1 + k \in Revs /\ N + 1 + k \notin Pubs
  BY PublicationsAssumption
  DEF PublicationsAssumption, Pubs, Revs, Fresh, Contents, Absent, IsForeign

-----------------------------------------------------------------------------
(* The inductive invariant. *)

(* A transaction holds the book, and its publication stays as it found it.  *)
TxOK ==
  /\ tx = NoTx \/ (tx.pub \in Pubs /\ tx.step # "none" /\ book.pub = tx.pub)
  /\ tx.step \in {"checked", "renamed"} => pub[tx.pub].state = "prepared"
  /\ tx.step = "checked" =>
       /\ dirs[tx.pub] = [staged |-> pub[tx.pub].next, backup |-> pub[tx.pub].prev]
       /\ Doing(tx.pub) = "active" /\ pub[tx.pub].review = "none"
  /\ tx.step = "renamed" => target = pub[tx.pub].next \/ IsForeign(target)
  /\ tx.step \in {"retained", "removed", "pruned"} => pub[tx.pub].state = "database_committed"

OneActive == \A p, q \in Pubs : Active(p) /\ Active(q) => p = q

(* The revisions there are; one comes only once.                            *)
Known(r) == r = 0 \/ (r \in Pubs /\ Committed(r)) \/ r \in (N + 1)..(N + spent.observed)
KnownOK ==
  /\ Known(row)
  /\ \A p \in Pubs : Known(pub[p].expected) /\ revs[pub[p].expected].sha = pub[p].prev

(* What a publication has prepared is in its directory or in place.         *)
BackupOK == \A p \in Pubs :
  /\ pub[p].state = "staged" \/ Active(p) => dirs[p].backup = pub[p].prev
  /\ pub[p].state = "staged" => dirs[p].staged = pub[p].next
  /\ Active(p) => dirs[p].staged = pub[p].next \/ target = pub[p].next \/ IsForeign(target)
  /\ pub[p].state = "filesystem_published" => target = pub[p].next \/ IsForeign(target)

(* A job publishes once.                                                    *)
OwnOK == \A p, q \in Pubs : p # q /\ Owned(p) /\ pub[p].by = pub[q].by /\ Committed(q) =>
  ~Active(p) /\ ~Committed(p) /\ (pub[p].state = "staged" => pub[p].expected # row)

(* The bytes replaced last are where the rows say, also halfway through a   *)
(* clean-up.                                                                *)
Last(p) == Committed(p) /\ \A q \in Pubs : Committed(q) => q <= p
Cleaning(p) == tx.pub = p /\ tx.step \in {"retained", "removed", "pruned"}
KeptOK == \A p \in Pubs : Last(p) /\ Owned(p) =>
  /\ revs[pub[p].expected].storage # "none"
  /\ CopyOf(p)
  /\ Cleaning(p) => kept[pub[p].expected] = pub[p].prev

Inv ==
  /\ TypeOK /\ TxOK /\ OneActive /\ StillExpected /\ KnownOK
  /\ BackupOK /\ RowExplained /\ OwnOK /\ KeptOK

(* A set of numbers has a least one. *)
LEMMA LeastOf ==
  ASSUME NEW T, T \subseteq Nat, T # {}
  PROVE  \E n \in T : \A m \in T : n <= m
  <1> DEFINE R == {mn \in Nat \X Nat : mn[1] < mn[2]}
  <1>1. \E n \in T : \A m \in T : ~(<<m, n>> \in R)
    <2>1. IsWellFoundedOn(R, Nat)
      BY NatLessThanWellFounded, Zenon DEF OpToRel
    <2> HIDE DEF R
    <2> QED
      BY <2>1, WFMin
  <1>2. ASSUME NEW m \in Nat, NEW n \in Nat, <<m, n>> \notin R
        PROVE  n <= m
    BY <1>2
  <1> HIDE DEF R
  <1> QED
    BY <1>1, <1>2

(* The latest committed publication exists once there is any. *)
LEMMA LatestIs ==
  ASSUME NEW p \in Pubs, Committed(p)
  PROVE  Latest \in Pubs /\ Last(Latest)
  <1> DEFINE T == {N - q : q \in {x \in Pubs : Committed(x)}}
  <1>1. T \subseteq Nat /\ T # {}
    BY Numbers DEF Pubs
  <1>2. \E n \in T : \A m \in T : n <= m
    <2> HIDE DEF T
    <2> QED
      BY <1>1, LeastOf
  <1>3. PICK q \in Pubs : Committed(q) /\ \A m \in T : N - q <= m
    BY <1>2
  <1>4. ASSUME NEW r \in Pubs, Committed(r)
        PROVE  r <= q
    <2>1. N - q <= N - r
      BY <1>3, <1>4
    <2> QED
      BY <2>1, Numbers
  <1>5. \E l \in Pubs : Committed(l) /\ \A r \in Pubs : Committed(r) => r <= l
    BY <1>3, <1>4
  <1> QED
    BY <1>5 DEF Latest, Last

LEMMA LastIsLatest ==
  ASSUME NEW p \in Pubs
  PROVE  Committed(p) /\ p = Latest <=> Last(p)
  BY LatestIs, Numbers DEF Last

LEMMA InitInv == Init => Inv
  <1> SUFFICES ASSUME Init PROVE Inv
    OBVIOUS
  <1>1. TypeOK
    BY Numbers DEF Init, TypeOK, Empty, Unused, Nobody, NoTx
  <1>2. TxOK /\ OneActive /\ StillExpected
    BY DEF Init, TxOK, NoTx, OneActive, StillExpected, Active, Unused
  <1>3. KnownOK
    BY Numbers DEF Init, KnownOK, Known, Unused
  <1>4. BackupOK /\ RowExplained
    BY Numbers DEF Init, BackupOK, Active, Unused, RowExplained
  <1>5. OwnOK /\ KeptOK
    BY DEF Init, OwnOK, KeptOK, Last, Committed, Unused
  <1> QED
    BY <1>1, <1>2, <1>3, <1>4, <1>5 DEF Inv

-----------------------------------------------------------------------------
(* What the steps have in common. *)

LEMMA InvParts ==
  ASSUME Inv
  PROVE  /\ TargetOK /\ DirsOK /\ KeptType /\ RevsOK /\ RowOK
         /\ PubOK /\ BookOK /\ TxType /\ JobOK /\ SpentOK
  BY TypeParts DEF Inv

(* Of a publication only the state, the review and its being settled change. *)
Kin(q) == /\ pub'[q].by = pub[q].by /\ pub'[q].expected = pub[q].expected
          /\ pub'[q].prev = pub[q].prev /\ pub'[q].next = pub[q].next

LEMMA Moves ==
  ASSUME PubOK, NEW p \in Pubs, NEW s \in States, To(p, s)
  PROVE  /\ PubOK' /\ pub'[p].state = s /\ pub'[p].review = pub[p].review
         /\ \A q \in Pubs : Kin(q) /\ (q # p => pub'[q] = pub[q])
  BY DEF PubOK, PubRow, To, Kin

(* A step that leaves the file, the rows and the states of the publications. *)
LEMMA Steady ==
  ASSUME Inv, UNCHANGED <<target, dirs, row, revs>>, spent'.observed = spent.observed,
         \A q \in Pubs : Kin(q) /\ pub'[q].state = pub[q].state
  PROVE  OneActive' /\ StillExpected' /\ KnownOK' /\ BackupOK' /\ RowExplained' /\ OwnOK'
  <1>1. OneActive' /\ StillExpected' /\ RowExplained'
    BY DEF Inv, OneActive, StillExpected, RowExplained, Active, Kin
  <1>2. KnownOK'
    BY DEF Inv, KnownOK, Known, Committed, Kin
  <1>3. BackupOK'
    BY DEF Inv, BackupOK, Active, Kin
  <1>4. OwnOK'
    BY DEF Inv, OwnOK, Owned, Active, Committed, Kin
  <1> QED
    BY <1>1, <1>2, <1>3, <1>4

(* The bytes kept stay where they are unless a clean-up moves them. *)
LEMMA KeptStays ==
  ASSUME Inv, UNCHANGED <<dirs, kept, revs>>, tx' = tx \/ tx'.step \in {"none", "checked", "renamed"},
         \A q \in Pubs : Kin(q) /\ (Committed(q)' <=> Committed(q))
                         /\ (pub[q].state = "database_committed" =>
                               pub'[q].state = "database_committed")
  PROVE  KeptOK'
  <1>1. \A q \in Pubs : Last(q)' <=> Last(q)
    BY DEF Last
  <1> QED
    BY <1>1 DEF Inv, KeptOK, Owned, CopyOf, Cleaning, Kin

LEMMA TxFree == tx' = NoTx => TxOK' /\ TxType'
  BY Numbers DEF NoTx, TxOK, TxType

-----------------------------------------------------------------------------
(* Steps that change the holder of the book or of the file only. *)

LEMMA Held ==
  ASSUME Inv, UNCHANGED <<files, row, revs, pub, job>>, BookOK', TxType', TxOK', SpentOK',
         spent'.observed = spent.observed,
         tx' = tx \/ tx'.step \in {"none", "checked", "renamed"}
  PROVE  Inv'
  <1>1. TypeOK'
    BY InvParts, TypePartsNext DEF files, TargetOK, DirsOK, KeptType, RevsOK, RowOK, PubOK, JobOK
  <1>2. OneActive' /\ StillExpected' /\ KnownOK' /\ BackupOK' /\ RowExplained' /\ OwnOK'
    BY Steady DEF files, Kin
  <1>3. KeptOK'
    BY KeptStays DEF files, Kin, Committed
  <1> QED
    BY <1>1, <1>2, <1>3 DEF Inv

LEMMA ResumeInv ==
  ASSUME Inv, NEW p \in Pubs, NEW as \in {"owner", "recovery"}, Resume(p, as)
  PROVE  Inv'
  <1>1. tx = NoTx
    BY Numbers DEF Resume, Inv, TxOK, Nobody
  <1>2. BookOK'
    BY DEF Resume, BookOK
  <1>3. tx' = NoTx /\ UNCHANGED <<files, row, revs, pub, job, spent>>
    BY <1>1 DEF Resume
  <1> QED
    BY <1>2, <1>3, <1>1, TxFree, Held, InvParts DEF SpentOK

LEMMA GiveUpInv == ASSUME Inv, NEW p \in Pubs, GiveUp(p) PROVE Inv'
  <1>1. tx' = NoTx /\ tx' = tx /\ UNCHANGED <<files, row, revs, pub, job, spent>>
    BY DEF GiveUp, Idle
  <1>2. BookOK'
    BY DEF GiveUp, BookOK, Nobody
  <1> QED
    BY <1>1, <1>2, TxFree, Held, InvParts DEF SpentOK

LEMMA PublishInv == ASSUME Inv, NEW p \in Pubs, Publish(p) PROVE Inv'
  <1>1. UNCHANGED <<files, row, revs, pub, book, job, spent>>
    BY DEF Publish
  <1>2. TxType' /\ BookOK' /\ SpentOK' /\ tx'.step \in {"checked", "renamed"}
    BY InvParts DEF Publish, TxType, BookOK, SpentOK
  <1>3. TxOK'
    <2>1. CASE target = pub[p].next
      <3>1. tx' = [pub |-> p, step |-> "renamed"] /\ book.pub = p /\ pub[p].state = "prepared"
        BY <2>1 DEF Publish, Begins, MayPublish
      <3> QED
        BY <3>1, <2>1, <1>1 DEF TxOK, files
    <2>2. CASE target # pub[p].next
      <3>1. Doing(p) = "active" /\ pub[p].review = "none"
        BY <2>2 DEF Publish, Begins, MayPublish, Allowed
      <3>2. Doing(p)' = "active"
        BY <3>1, <1>1 DEF Doing, Owned
      <3>3. /\ tx' = [pub |-> p, step |-> "checked"] /\ book.pub = p /\ pub[p].state = "prepared"
            /\ dirs[p] = [staged |-> pub[p].next, backup |-> pub[p].prev]
        BY <2>2 DEF Publish, Begins, MayPublish
      <3> QED
        BY <3>1, <3>2, <3>3, <1>1 DEF TxOK, files
    <2> QED
      BY <2>1, <2>2
  <1> QED
    BY <1>1, <1>2, <1>3, Held

LEMMA FaultInv ==
  ASSUME Fault, SpentOK
  PROVE  /\ tx' = NoTx /\ TxOK' /\ TxType' /\ BookOK' /\ SpentOK'
         /\ spent'.observed = spent.observed
  BY TxFree DEF Fault, SpentOK, BookOK, Nobody

LEMMA LoseInv == ASSUME Inv, Lose PROVE Inv'
  <1>1. tx'.step = "none" /\ TxOK' /\ TxType' /\ BookOK' /\ SpentOK'
        /\ spent'.observed = spent.observed
    BY InvParts, FaultInv DEF Lose, NoTx
  <1> QED
    BY <1>1, Held DEF Lose

-----------------------------------------------------------------------------
(* Preparing. *)

(* A transaction goes on with a publication that is not being prepared.     *)
LEMMA TxBusy ==
  ASSUME Inv, tx.pub \in Pubs
  PROVE  /\ book.pub = tx.pub /\ tx.step # "none"
         /\ pub[tx.pub].state \in {"prepared", "database_committed"}
  BY Numbers DEF Inv, TxOK, TypeOK, NoTx

LEMMA TxStays ==
  ASSUME Inv, tx' = tx, target' = target \/ IsForeign(target'),
         tx.pub \in Pubs => /\ book'.pub = book.pub /\ pub'[tx.pub] = pub[tx.pub]
                            /\ dirs'[tx.pub] = dirs[tx.pub]
                            /\ (tx.step = "checked" => Doing(tx.pub)' = "active")
  PROVE  TxOK'
  <1>1. CASE tx = NoTx
    BY <1>1, TxFree
  <1>2. CASE tx # NoTx
    <2>1. tx.pub \in Pubs
      BY <1>2 DEF Inv, TxOK
    <2> QED
      BY <2>1 DEF Inv, TxOK
  <1> QED
    BY <1>1, <1>2

LEMMA StageInv ==
  ASSUME Inv, NEW p \in Pubs, NEW by \in Jobs \cup {Writer}, NEW c \in Contents, Stage(p, by, c)
  PROVE  Inv'
  <1> DEFINE new == [Unused EXCEPT !.state = "staged", !.by = by, !.expected = row,
                                   !.prev = target, !.next = c]
             fresh == [staged |-> c, backup |-> target]
  <1>1. /\ new \in PubRow /\ new.state = "staged" /\ new.by = by /\ new.expected = row
        /\ new.prev = target /\ new.next = c
    BY InvParts, Numbers DEF Unused, PubRow, States, TargetOK, RowOK
  <1>2. /\ pub' = [pub EXCEPT ![p] = new] /\ dirs' = [dirs EXCEPT ![p] = fresh]
        /\ UNCHANGED <<target, kept, row, revs, tx, job, spent>>
        /\ pub[p].state = "unused" /\ target = revs[row].sha
    BY DEF Stage
  <1> HIDE DEF new
  <1>3. /\ PubOK' /\ pub'[p] = new /\ \A q \in Pubs : q # p => pub'[q] = pub[q]
    BY <1>1, <1>2, InvParts DEF PubOK
  <1>4. fresh \in DirRow /\ fresh.staged = c /\ fresh.backup = target
    BY InvParts DEF DirRow, TargetOK
  <1> HIDE DEF fresh
  <1>5. /\ DirsOK' /\ dirs'[p] = fresh /\ \A q \in Pubs : q # p => dirs'[q] = dirs[q]
    BY <1>2, <1>4, InvParts DEF DirsOK
  <1>6. BookOK' /\ (tx.pub \in Pubs => book' = book /\ tx.pub # p)
    <2>1. CASE by = Writer
      BY <2>1, TxBusy, Numbers DEF Stage, Nobody, BookOK
    <2>2. CASE by # Writer
      BY <2>2, <1>2, TxBusy, InvParts DEF Stage, BookOK
    <2> QED
      BY <2>1, <2>2
  <1>7. TxOK'
    BY <1>2, <1>3, <1>5, <1>6, TxBusy, TxStays DEF Inv, TxOK, Doing, Owned
  <1>8. \A q \in Pubs : /\ Active(q)' <=> Active(q)
                        /\ Committed(q)' <=> Committed(q)
                        /\ Active(q) \/ Committed(q) => q # p
    BY <1>1, <1>2, <1>3 DEF Active, Committed
  <1>9. OneActive' /\ StillExpected' /\ RowExplained'
    BY <1>2, <1>3, <1>8 DEF Inv, OneActive, StillExpected, RowExplained
  <1>10. KnownOK'
    <2>1. \A r : Known(r) => Known(r)'
      BY <1>2, <1>8 DEF Known
    <2> QED
      BY <2>1, <1>1, <1>2, <1>3 DEF Inv, KnownOK
  <1>11. BackupOK'
    BY <1>1, <1>2, <1>3, <1>4, <1>5, <1>8 DEF Inv, BackupOK, Active
  <1>12. OwnOK'
    <2> SUFFICES ASSUME NEW x \in Pubs, NEW q \in Pubs, x # q, Owned(x)',
                        pub'[x].by = pub'[q].by, Committed(q)'
                 PROVE  (~Active(x) /\ ~Committed(x) /\ (pub[x].state = "staged" => pub[x].expected # row))'
      BY DEF OwnOK
    <2>1. x # p
      <3> SUFFICES ASSUME x = p PROVE FALSE
        OBVIOUS
      <3>1. by # Writer /\ pub[q].by = by /\ Committed(q)
        BY <1>1, <1>3, <1>8 DEF Owned
      <3> QED
        BY <3>1 DEF Stage, Owns
    <2> QED
      BY <2>1, <1>2, <1>3, <1>8 DEF Inv, OwnOK, Owned
  <1>13. KeptOK'
    <2>1. \A q \in Pubs : Last(q)' <=> Last(q)
      BY <1>8 DEF Last
    <2> QED
      BY <2>1, <1>2, <1>3, <1>5, <1>8 DEF Inv, KeptOK, Owned, CopyOf, Cleaning, Last
  <1>14. TypeOK'
    BY <1>2, <1>3, <1>5, <1>6, InvParts, TypePartsNext
    DEF TargetOK, KeptType, RevsOK, RowOK, TxType, JobOK, SpentOK
  <1> QED
    BY <1>7, <1>9, <1>10, <1>11, <1>12, <1>13, <1>14 DEF Inv

LEMMA JournalInv == ASSUME Inv, NEW p \in Pubs, Journal(p) PROVE Inv'
  <1>1. PICK r \in {"none", "content", "metadata"} :
          pub' = [pub EXCEPT ![p].state = "prepared", ![p].review = r]
    BY DEF Journal
  <1>2. /\ UNCHANGED <<target, dirs, kept, row, revs, tx, book, job, spent>> /\ tx = NoTx
        /\ pub[p].state = "staged" /\ row = pub[p].expected /\ \A q \in Pubs : ~Active(q)
    BY DEF Journal, Idle, MayJournal, files
  <1>3. /\ PubOK' /\ pub'[p].state = "prepared"
        /\ \A q \in Pubs : Kin(q) /\ (q # p => pub'[q] = pub[q])
    <2> DEFINE new == [pub[p] EXCEPT !.state = "prepared", !.review = r]
    <2>1. /\ new \in PubRow /\ new.state = "prepared" /\ new.by = pub[p].by
          /\ new.expected = pub[p].expected /\ new.prev = pub[p].prev /\ new.next = pub[p].next
      BY InvParts DEF PubOK, PubRow, States
    <2>2. pub' = [pub EXCEPT ![p] = new]
      BY <1>1, InvParts DEF PubOK, PubRow
    <2> HIDE DEF new
    <2> QED
      BY <2>1, <2>2, InvParts DEF PubOK, Kin
  <1>4. \A q \in Pubs : /\ Active(q)' <=> q = p
                        /\ Committed(q)' <=> Committed(q)
                        /\ Committed(q) => q # p
    BY <1>2, <1>3 DEF Active, Committed
  <1>5. OneActive' /\ StillExpected'
    BY <1>2, <1>3, <1>4 DEF OneActive, StillExpected, Kin
  <1>6. KnownOK' /\ RowExplained'
    BY <1>2, <1>3, <1>4 DEF Inv, KnownOK, Known, RowExplained, Kin
  <1>7. BackupOK'
    BY <1>2, <1>3, <1>4 DEF Inv, BackupOK, Kin, Active
  <1>8. OwnOK'
    BY <1>2, <1>3, <1>4 DEF Inv, OwnOK, Owned, Kin
  <1>9. KeptOK'
    BY <1>2, <1>3, <1>4, KeptStays
  <1>10. TypeOK'
    BY <1>2, <1>3, InvParts, TypePartsNext
    DEF TargetOK, DirsOK, KeptType, RevsOK, RowOK, BookOK, TxType, JobOK, SpentOK
  <1> QED
    BY <1>2, TxFree, <1>5, <1>6, <1>7, <1>8, <1>9, <1>10 DEF Inv

(* The directory of what is not under way can go.                           *)
LEMMA DiscardInv == ASSUME Inv, NEW p \in Pubs, Discard(p) PROVE Inv'
  <1>1. /\ PubOK' /\ pub'[p].state = "dropped"
        /\ \A q \in Pubs : Kin(q) /\ (q # p => pub'[q] = pub[q])
    BY Moves, InvParts DEF Discard, States
  <1>2. /\ UNCHANGED <<target, kept, row, revs, tx, job, spent>> /\ pub[p].state = "staged"
    BY DEF Discard
  <1>3. /\ DirsOK' /\ \A q \in Pubs : q # p => dirs'[q] = dirs[q]
    BY InvParts DEF Discard, DirsOK, DirRow, Empty
  <1>4. BookOK' /\ (tx.pub \in Pubs => book' = book /\ tx.pub # p)
    BY <1>2, TxBusy, InvParts DEF Discard, Release, BookOK, Nobody
  <1>5. TxOK'
    BY <1>1, <1>2, <1>3, <1>4, TxStays DEF Inv, TxOK, Doing, Owned
  <1>6. \A q \in Pubs : /\ Active(q)' <=> Active(q)
                        /\ Committed(q)' <=> Committed(q)
                        /\ Active(q) \/ Committed(q) => q # p
    BY <1>1, <1>2 DEF Active, Committed
  <1>7. OneActive' /\ StillExpected' /\ RowExplained'
    BY <1>1, <1>2, <1>6 DEF Inv, OneActive, StillExpected, RowExplained, Kin
  <1>8. KnownOK'
    BY <1>1, <1>2, <1>6 DEF Inv, KnownOK, Known, Kin
  <1>9. BackupOK'
    BY <1>1, <1>2, <1>3, <1>6 DEF Inv, BackupOK, Kin, Active
  <1>10. OwnOK'
    BY <1>1, <1>2, <1>6 DEF Inv, OwnOK, Owned, Kin
  <1>11. KeptOK'
    <2>1. \A q \in Pubs : Last(q)' <=> Last(q)
      BY <1>6 DEF Last
    <2> QED
      BY <2>1, <1>1, <1>2, <1>3, <1>6 DEF Inv, KeptOK, Owned, CopyOf, Cleaning, Last
  <1>12. TypeOK'
    BY <1>1, <1>2, <1>3, <1>4, InvParts, TypePartsNext
    DEF TargetOK, KeptType, RevsOK, RowOK, TxType, JobOK, SpentOK
  <1> QED
    BY <1>5, <1>7, <1>8, <1>9, <1>10, <1>11, <1>12 DEF Inv

-----------------------------------------------------------------------------
(* Installing. *)

LEMMA RenameInv == ASSUME Inv, Rename PROVE Inv'
  <1> DEFINE p == tx.pub
  <1>1. /\ UNCHANGED <<kept, row, revs, pub, book, job, spent>>
        /\ target' = dirs[p].staged /\ tx' = [tx EXCEPT !.step = "renamed"] /\ tx.step = "checked"
        /\ dirs' = [dirs EXCEPT ![p].staged = Absent]
    BY DEF Rename
  <1>2. /\ p \in Pubs /\ pub[p].state = "prepared" /\ book.pub = p
        /\ dirs[p].staged = pub[p].next
    BY <1>1 DEF Inv, TxOK, NoTx
  <1>3. /\ tx'.pub = p /\ tx'.step = "renamed" /\ TxType'
    BY <1>1, InvParts DEF TxType
  <1>4. /\ DirsOK' /\ \A q \in Pubs : /\ dirs'[q].backup = dirs[q].backup
                                      /\ q # p => dirs'[q] = dirs[q]
    BY <1>1, <1>2, InvParts DEF DirsOK, DirRow
  <1>5. target' = pub[p].next /\ TargetOK'
    BY <1>1, <1>2, InvParts DEF PubOK, PubRow, TargetOK
  <1> HIDE DEF p
  <1>6. TxOK'
    BY <1>1, <1>2, <1>3, <1>5 DEF TxOK
  <1>7. \A q \in Pubs : Active(q) <=> q = p
    BY <1>2 DEF Inv, OneActive, Active
  <1>8. OneActive' /\ StillExpected' /\ KnownOK' /\ OwnOK'
    BY <1>1 DEF Inv, OneActive, StillExpected, KnownOK, Known, OwnOK, Active, Committed, Owned
  <1>9. RowExplained'
    BY <1>1, <1>2, <1>5, <1>7 DEF RowExplained, Active
  <1>10. BackupOK'
    BY <1>1, <1>2, <1>4, <1>5, <1>7 DEF Inv, BackupOK, Active
  <1>11. KeptOK'
    BY <1>1, <1>3, <1>4 DEF Inv, KeptOK, Last, Committed, Owned, CopyOf, Cleaning
  <1>12. TypeOK'
    BY <1>1, <1>3, <1>4, <1>5, InvParts, TypePartsNext
    DEF KeptType, RevsOK, RowOK, PubOK, BookOK, JobOK, SpentOK
  <1> QED
    BY <1>6, <1>8, <1>9, <1>10, <1>11, <1>12 DEF Inv

LEMMA CommitPublishInv == ASSUME Inv, CommitPublish PROVE Inv'
  <1> DEFINE p == tx.pub
  <1>1. /\ UNCHANGED <<target, dirs, kept, row, revs, book, job, spent>> /\ tx' = NoTx
        /\ tx.step = "renamed" /\ To(p, "filesystem_published")
    BY DEF CommitPublish, files
  <1>2. /\ p \in Pubs /\ pub[p].state = "prepared"
        /\ target = pub[p].next \/ IsForeign(target)
    BY <1>1 DEF Inv, TxOK, NoTx
  <1> HIDE DEF p
  <1>3. /\ PubOK' /\ pub'[p].state = "filesystem_published"
        /\ \A q \in Pubs : Kin(q) /\ (q # p => pub'[q] = pub[q])
    BY <1>1, <1>2, Moves, InvParts DEF States
  <1>4. \A q \in Pubs : /\ Active(q)' <=> Active(q)
                        /\ Committed(q)' <=> Committed(q)
                        /\ Committed(q) => q # p
    BY <1>2, <1>3 DEF Active, Committed
  <1>5. OneActive' /\ StillExpected' /\ RowExplained' /\ KnownOK'
    BY <1>1, <1>3, <1>4 DEF Inv, OneActive, StillExpected, RowExplained, KnownOK, Known, Kin
  <1>6. BackupOK'
    BY <1>1, <1>2, <1>3, <1>4 DEF Inv, BackupOK, Kin, Active
  <1>7. OwnOK'
    BY <1>1, <1>2, <1>3, <1>4 DEF Inv, OwnOK, Owned, Kin
  <1>8. KeptOK'
    BY <1>1, <1>2, <1>3, <1>4, KeptStays DEF NoTx
  <1>9. TypeOK'
    BY <1>1, <1>3, TxFree, InvParts, TypePartsNext
    DEF TargetOK, DirsOK, KeptType, RevsOK, RowOK, BookOK, JobOK, SpentOK
  <1> QED
    BY <1>1, TxFree, <1>5, <1>6, <1>7, <1>8, <1>9 DEF Inv

(* The revision that is made has not been seen before.                      *)
LEMMA CommitRevisionInv == ASSUME Inv, NEW p \in Pubs, CommitRevision(p) PROVE Inv'
  <1>1. /\ UNCHANGED <<target, dirs, kept, tx, book, job, spent>> /\ tx = NoTx
        /\ pub[p].state = "filesystem_published" /\ row = pub[p].expected /\ target = pub[p].next
        /\ row' = p /\ To(p, "database_committed")
        /\ revs' = [revs EXCEPT ![p].sha = pub[p].next,
                                ![row].storage = IF Owned(p) THEN "backup" ELSE @]
    BY DEF CommitRevision, Begins, MayCommit, Idle, files
  <1>2. /\ PubOK' /\ pub'[p].state = "database_committed"
        /\ \A q \in Pubs : Kin(q) /\ (q # p => pub'[q] = pub[q])
    BY <1>1, Moves, InvParts DEF States
  <1>3. \A q \in Pubs : /\ Active(q) <=> q = p
                        /\ ~Active(q)'
                        /\ Committed(q)' <=> (Committed(q) \/ q = p)
                        /\ Committed(q) => q # p
    BY <1>1, <1>2 DEF Inv, OneActive, Active, Committed
  <1>4. /\ ~Known(p) /\ Known(p)' /\ row # p
        /\ \A r : Known(r) => Known(r)' /\ r # p
    <2>1. ~Known(p)
      BY <1>3, Numbers, InvParts DEF Known, Pubs, SpentOK
    <2> QED
      BY <2>1, <1>1, <1>2, <1>3 DEF Inv, KnownOK, Known
  <1>5. /\ RevsOK' /\ revs'[p].sha = pub[p].next
        /\ \A r \in Revs : /\ r # p => revs'[r].sha = revs[r].sha
                           /\ revs[r].storage # "none" => revs'[r].storage # "none"
                           /\ r = row /\ Owned(p) => revs'[r].storage # "none"
    <2> DEFINE one == [revs EXCEPT ![p].sha = pub[p].next]
    <2>1. /\ one \in [Revs -> RevRow] /\ one[p].sha = pub[p].next
          /\ \A r \in Revs : one[r].storage = revs[r].storage /\ (r # p => one[r] = revs[r])
      BY Numbers, InvParts DEF RevsOK, RevRow, PubOK, PubRow
    <2>2. revs' = [one EXCEPT ![row].storage = IF Owned(p) THEN "backup" ELSE @]
      BY <1>1
    <2> HIDE DEF one
    <2> QED
      BY <2>1, <2>2, <1>4, InvParts DEF RevsOK, RevRow, RowOK
  <1>6. OneActive' /\ StillExpected'
    BY <1>3 DEF OneActive, StillExpected
  <1>7. KnownOK'
    <2>1. Known(row)'
      BY <1>1, <1>4
    <2>2. ASSUME NEW q \in Pubs
          PROVE  Known(pub[q].expected)' /\ revs'[pub'[q].expected].sha = pub'[q].prev
      <3>1. /\ pub'[q].expected = pub[q].expected /\ pub'[q].prev = pub[q].prev
            /\ pub[q].expected \in Revs
        BY <1>2, InvParts DEF Kin, PubOK, PubRow
      <3>2. Known(pub[q].expected) /\ revs[pub[q].expected].sha = pub[q].prev
        BY DEF Inv, KnownOK
      <3>3. Known(pub[q].expected)' /\ pub[q].expected # p
        BY <3>1, <3>2, <1>4 DEF Known
      <3> QED
        BY <3>1, <3>2, <3>3, <1>5
    <2> QED
      BY <2>1, <2>2 DEF KnownOK
  <1>8. RowExplained'
    BY <1>1, <1>5 DEF RowExplained
  <1>9. BackupOK'
    BY <1>1, <1>2, <1>3 DEF Inv, BackupOK, Kin, Active
  <1>10. OwnOK'
    <2> SUFFICES ASSUME NEW x \in Pubs, NEW q \in Pubs, x # q, Owned(x)',
                        pub'[x].by = pub'[q].by, Committed(q)'
                 PROVE  (~Active(x) /\ ~Committed(x) /\ (pub[x].state = "staged" => pub[x].expected # row))'
      BY DEF OwnOK
    <2>1. Owned(x) /\ Owned(q) /\ pub[x].by = pub[q].by
      BY <1>2 DEF Owned, Kin
    <2>2. x # p
      BY <2>1, <1>3 DEF Inv, OwnOK
    <2>3. ~Committed(x)'
      BY <2>1, <2>2, <1>3 DEF Inv, OwnOK
    <2>4. pub[x].expected # row'
      BY <1>1, <1>4 DEF Inv, KnownOK
    <2> QED
      BY <2>2, <2>3, <2>4, <1>2, <1>3
  <1>11. KeptOK'
    <2> SUFFICES ASSUME NEW x \in Pubs, Last(x)', Owned(x)'
                 PROVE  (/\ revs[pub[x].expected].storage # "none"
                         /\ CopyOf(x) /\ (Cleaning(x) => kept[pub[x].expected] = pub[x].prev))'
      BY DEF KeptOK
    <2>1. ~Cleaning(x)' /\ Owned(x) /\ pub'[x].expected = pub[x].expected /\ pub[x].expected \in Revs
      BY <1>1, <1>2, InvParts DEF Cleaning, NoTx, Owned, Kin, PubOK, PubRow
    <2>2. CASE x = p
      BY <2>1, <2>2, <1>1, <1>2, <1>3, <1>5 DEF Inv, BackupOK, CopyOf, Kin
    <2>3. CASE x # p
      <3>1. Last(x)
        BY <2>3, <1>3 DEF Last
      <3> QED
        BY <3>1, <2>1, <2>3, <1>1, <1>2, <1>5 DEF Inv, KeptOK, CopyOf
    <2> QED
      BY <2>2, <2>3
  <1>12. TypeOK'
    <2>1. RowOK'
      BY <1>1, <1>5, Numbers, InvParts DEF RowOK, PubOK, PubRow
    <2> QED
      BY <2>1, <1>1, <1>2, <1>5, InvParts, TypePartsNext
      DEF TargetOK, DirsOK, KeptType, BookOK, TxType, JobOK, SpentOK
  <1> QED
    BY <1>1, TxFree, <1>6, <1>7, <1>8, <1>9, <1>10, <1>11, <1>12 DEF Inv

-----------------------------------------------------------------------------
(* Cleaning up. *)

(* Steps of a clean-up that leave the rows.                                 *)
LEMMA CleanUp ==
  ASSUME Inv, NEW p \in Pubs, pub[p].state = "database_committed", book.pub = p,
         UNCHANGED <<target, row, revs, pub, book, job, spent>>,
         tx'.pub = p, tx'.step \in {"retained", "removed", "pruned"}, TxType', KeptType', DirsOK',
         \A q \in Pubs : pub[q].state = "staged" \/ Active(q) => dirs'[q] = dirs[q],
         KeptOK'
  PROVE  Inv'
  <1>1. TxOK'
    BY Numbers DEF TxOK
  <1>2. OneActive' /\ StillExpected' /\ KnownOK' /\ RowExplained' /\ OwnOK'
    BY DEF Inv, OneActive, StillExpected, KnownOK, Known, RowExplained, OwnOK, Active, Committed,
           Owned
  <1>3. BackupOK'
    BY DEF Inv, BackupOK, Active
  <1>4. TypeOK'
    BY InvParts, TypePartsNext
    DEF TargetOK, RevsOK, RowOK, PubOK, BookOK, JobOK, SpentOK
  <1> QED
    BY <1>1, <1>2, <1>3, <1>4 DEF Inv

LEMMA RetainInv == ASSUME Inv, NEW p \in Pubs, Retain(p) PROVE Inv'
  <1>1. /\ UNCHANGED <<target, dirs, row, revs, pub, book, job, spent>>
        /\ book.pub = p /\ tx = NoTx /\ pub[p].state = "database_committed"
        /\ kept' = (IF Retains(p) THEN [kept EXCEPT ![pub[p].expected] = pub[p].prev] ELSE kept)
        /\ tx' = [pub |-> p, step |-> "retained"]
    BY DEF Retain, Begins, MayClean, Idle
  <1>2. tx'.pub = p /\ tx'.step = "retained" /\ TxType'
    BY <1>1 DEF TxType
  <1>3. pub[p].expected \in Revs /\ pub[p].prev \in Contents
    BY InvParts DEF PubOK, PubRow
  <1>4. /\ KeptType'
        /\ \A r \in Revs : kept'[r] = IF Retains(p) /\ r = pub[p].expected THEN pub[p].prev ELSE kept[r]
    BY <1>1, <1>3, InvParts DEF KeptType
  <1>5. KeptOK'
    <2> SUFFICES ASSUME NEW x \in Pubs, Last(x), Owned(x)
                 PROVE  /\ revs[pub[x].expected].storage # "none"
                        /\ CopyOf(x)' /\ (x = p => kept'[pub[x].expected] = pub[x].prev)
      BY <1>1, <1>2 DEF KeptOK, Last, Owned, Committed, Cleaning
    <2>1. /\ revs[pub[x].expected].storage # "none" /\ CopyOf(x)
          /\ pub[x].expected \in Revs
          /\ pub[x].expected = pub[p].expected => pub[x].prev = pub[p].prev
      BY InvParts DEF Inv, KeptOK, KnownOK, PubOK, PubRow
    <2>2. x = p => Retains(p)
      BY <2>1 DEF Retains
    <2> QED
      BY <2>1, <2>2, <1>1, <1>4 DEF CopyOf
  <1>6. DirsOK'
    BY <1>1, InvParts DEF DirsOK
  <1> QED
    BY <1>1, <1>2, <1>4, <1>5, <1>6, CleanUp

LEMMA RemoveDirectoryInv == ASSUME Inv, RemoveDirectory PROVE Inv'
  <1> DEFINE p == tx.pub
  <1>1. /\ UNCHANGED <<target, kept, row, revs, pub, book, job, spent>> /\ tx.step = "retained"
        /\ dirs' = [dirs EXCEPT ![p] = Empty] /\ tx' = [tx EXCEPT !.step = "removed"]
    BY DEF RemoveDirectory
  <1>2. p \in Pubs /\ pub[p].state = "database_committed" /\ book.pub = p /\ Cleaning(p)
    BY <1>1 DEF Inv, TxOK, NoTx, Cleaning
  <1>3. tx'.pub = p /\ tx'.step = "removed" /\ TxType'
    BY <1>1, InvParts DEF TxType
  <1> HIDE DEF p
  <1>4. DirsOK' /\ \A q \in Pubs : q # p => dirs'[q] = dirs[q]
    BY <1>1, InvParts DEF DirsOK, DirRow, Empty
  <1>5. KeptOK'
    <2> SUFFICES ASSUME NEW x \in Pubs, Last(x), Owned(x)
                 PROVE  /\ revs[pub[x].expected].storage # "none"
                        /\ CopyOf(x)' /\ (x = p => kept[pub[x].expected] = pub[x].prev)
      BY <1>1, <1>3 DEF KeptOK, Last, Owned, Committed, Cleaning
    <2> QED
      BY <1>1, <1>2, <1>4 DEF Inv, KeptOK, CopyOf
  <1>6. KeptType' /\ \A q \in Pubs : pub[q].state = "staged" \/ Active(q) => q # p
    BY <1>1, <1>2, InvParts DEF Active, KeptType
  <1> QED
    BY <1>1, <1>2, <1>3, <1>4, <1>5, <1>6, CleanUp

(* Old bytes are given up, but not those of the latest publication.         *)
LEMMA SparesLatest ==
  ASSUME NEW p, NEW x \in Pubs, Last(x), NEW q \in Prunes(p)
  PROVE  q \in Pubs /\ Committed(q) /\ q # x /\ pub[q].expected # pub[x].expected
  <1>1. x = Latest
    BY LastIsLatest DEF Last
  <1> QED
    BY <1>1 DEF Prunes

LEMMA PruneInv == ASSUME Inv, Prune PROVE Inv'
  <1> DEFINE p == tx.pub
  <1>1. /\ UNCHANGED <<target, row, revs, pub, book, job, spent>> /\ tx.step = "removed"
        /\ kept' = [r \in Revs |->
             IF \E q \in Prunes(p) : pub[q].expected = r /\ InLibrary(p, q) THEN Absent ELSE kept[r]]
        /\ dirs' = [q \in Pubs |->
             IF q \in Prunes(p) /\ ~InLibrary(p, q) THEN [dirs[q] EXCEPT !.backup = Absent] ELSE dirs[q]]
        /\ tx' = [tx EXCEPT !.step = "pruned"]
    BY DEF Prune
  <1>2. p \in Pubs /\ pub[p].state = "database_committed" /\ book.pub = p /\ Cleaning(p)
    BY <1>1 DEF Inv, TxOK, NoTx, Cleaning
  <1>3. tx'.pub = p /\ tx'.step = "pruned" /\ TxType'
    BY <1>1, InvParts DEF TxType
  <1> HIDE DEF p
  <1>4. DirsOK' /\ KeptType'
    BY <1>1, InvParts DEF DirsOK, DirRow, KeptType
  <1>5. \A q \in Pubs : pub[q].state = "staged" \/ Active(q) => dirs'[q] = dirs[q]
    <2>1. \A q \in Prunes(p) : Committed(q)
      BY DEF Prunes
    <2> QED
      BY <2>1, <1>1 DEF Active, Committed
  <1>6. KeptOK'
    <2> SUFFICES ASSUME NEW x \in Pubs, Last(x), Owned(x)
                 PROVE  /\ revs[pub[x].expected].storage # "none"
                        /\ CopyOf(x)' /\ (x = p => kept'[pub[x].expected] = pub[x].prev)
      BY <1>1, <1>3 DEF KeptOK, Last, Owned, Committed, Cleaning
    <2>1. dirs'[x] = dirs[x] /\ kept'[pub[x].expected] = kept[pub[x].expected]
      <3>1. pub[x].expected \in Revs
        BY InvParts DEF PubOK, PubRow
      <3>2. x \notin Prunes(p) /\ ~\E q \in Prunes(p) : pub[q].expected = pub[x].expected
        BY SparesLatest
      <3> QED
        BY <3>1, <3>2, <1>1
    <2> QED
      BY <2>1, <1>1, <1>2 DEF Inv, KeptOK, CopyOf
  <1> QED
    BY <1>1, <1>2, <1>3, <1>4, <1>5, <1>6, CleanUp

LEMMA CommitCleanupInv == ASSUME Inv, CommitCleanup PROVE Inv'
  <1> DEFINE p == tx.pub
  <1>1. /\ UNCHANGED <<target, dirs, kept, row, job, spent>> /\ tx.step = "pruned"
        /\ revs' = [r \in Revs |->
             [revs[r] EXCEPT !.storage = IF \E q \in Prunes(p) : pub[q].expected = r THEN "none"
                                         ELSE IF r = pub[p].expected /\ Retains(p) THEN "kept" ELSE @]]
        /\ To(p, "cleanup_complete") /\ tx' = NoTx /\ book' = Nobody
    BY DEF CommitCleanup, files
  <1>2. p \in Pubs /\ pub[p].state = "database_committed" /\ Cleaning(p)
    BY <1>1 DEF Inv, TxOK, NoTx, Cleaning
  <1> HIDE DEF p
  <1>3. /\ PubOK' /\ pub'[p].state = "cleanup_complete"
        /\ \A q \in Pubs : Kin(q) /\ (q # p => pub'[q] = pub[q])
    BY <1>1, <1>2, Moves, InvParts DEF States
  <1>4. \A q \in Pubs : /\ Active(q)' <=> Active(q)
                        /\ Committed(q)' <=> Committed(q)
                        /\ Active(q) \/ pub[q].state = "staged" => q # p
    BY <1>2, <1>3 DEF Active, Committed
  <1>5. /\ RevsOK' /\ \A r \in Revs :
             /\ revs'[r].sha = revs[r].sha
             /\ revs[r].storage # "none" /\ (~\E q \in Prunes(p) : pub[q].expected = r) =>
                  revs'[r].storage # "none"
    BY <1>1, InvParts DEF RevsOK, RevRow
  <1>6. row \in Revs /\ \A q \in Pubs : pub[q].expected \in Revs
    BY InvParts DEF RowOK, PubOK, PubRow
  <1>7. OneActive' /\ StillExpected' /\ RowExplained'
    BY <1>1, <1>3, <1>4, <1>5, <1>6 DEF Inv, OneActive, StillExpected, RowExplained, Kin
  <1>8. KnownOK'
    BY <1>1, <1>3, <1>4, <1>5, <1>6 DEF Inv, KnownOK, Known, Kin
  <1>9. BackupOK'
    BY <1>1, <1>3, <1>4 DEF Inv, BackupOK, Kin, Active
  <1>10. OwnOK'
    BY <1>1, <1>3, <1>4 DEF Inv, OwnOK, Owned, Kin
  <1>11. KeptOK'
    <2> SUFFICES ASSUME NEW x \in Pubs, Last(x), Owned(x)
                 PROVE  revs'[pub[x].expected].storage # "none" /\ CopyOf(x)'
      <3>1. \A x \in Pubs : Last(x)' <=> Last(x)
        BY <1>4 DEF Last
      <3> QED
        BY <3>1, <1>1, <1>3, Numbers DEF KeptOK, Owned, Kin, Cleaning, NoTx
    <2>1. revs'[pub[x].expected].storage # "none"
      BY <1>5, <1>6, SparesLatest DEF Inv, KeptOK
    <2>2. CopyOf(x)'
      BY <1>1, <1>2, <1>3 DEF Inv, KeptOK, CopyOf, Kin
    <2> QED
      BY <2>1, <2>2
  <1>12. TypeOK'
    <2>1. BookOK' /\ RowOK'
      BY <1>1, <1>5, <1>6, InvParts DEF BookOK, Nobody, RowOK
    <2> QED
      BY <2>1, <1>1, <1>3, <1>5, TxFree, InvParts, TypePartsNext
      DEF TargetOK, DirsOK, KeptType, JobOK, SpentOK
  <1> QED
    BY <1>1, TxFree, <1>7, <1>8, <1>9, <1>10, <1>11, <1>12 DEF Inv

-----------------------------------------------------------------------------
(* Cancelling and recovery. *)

LEMMA FailPublicationInv == ASSUME Inv, NEW p \in Pubs, FailPublication(p) PROVE Inv'
  <1>1. /\ UNCHANGED <<target, dirs, kept, row, revs, tx, book, job, spent>> /\ tx = NoTx
        /\ pub[p].state = "prepared" /\ target = pub[p].prev /\ To(p, "failed")
    BY DEF FailPublication, Untouched, Idle, files
  <1>2. /\ PubOK' /\ pub'[p].state = "failed"
        /\ \A q \in Pubs : Kin(q) /\ (q # p => pub'[q] = pub[q])
    BY <1>1, Moves, InvParts DEF States
  <1>3. \A q \in Pubs : /\ ~Active(q)'
                        /\ Committed(q)' <=> Committed(q)
                        /\ Active(p) /\ (Committed(q) \/ pub[q].state = "staged" => q # p)
    BY <1>1, <1>2 DEF Inv, OneActive, Active, Committed
  <1>4. OneActive' /\ StillExpected'
    BY <1>3 DEF OneActive, StillExpected
  <1>5. KnownOK'
    BY <1>1, <1>2, <1>3 DEF Inv, KnownOK, Known, Kin
  <1>6. RowExplained'
    BY <1>1, <1>3 DEF Inv, RowExplained, StillExpected, KnownOK
  <1>7. BackupOK' /\ OwnOK'
    BY <1>1, <1>2, <1>3 DEF Inv, BackupOK, OwnOK, Owned, Kin, Active
  <1>8. KeptOK'
    BY <1>1, <1>2, <1>3, KeptStays
  <1>9. TypeOK'
    BY <1>1, <1>2, InvParts, TypePartsNext
    DEF TargetOK, DirsOK, KeptType, RevsOK, RowOK, BookOK, TxType, JobOK, SpentOK
  <1> QED
    BY <1>1, TxFree, <1>4, <1>5, <1>6, <1>7, <1>8, <1>9 DEF Inv

LEMMA RemoveFailedInv == ASSUME Inv, NEW p \in Pubs, RemoveFailed(p) PROVE Inv'
  <1>1. /\ UNCHANGED <<target, kept, row, revs, pub, tx, book, job, spent>>
        /\ pub[p].state = "failed" /\ dirs' = [dirs EXCEPT ![p] = Empty]
    BY DEF RemoveFailed
  <1>2. DirsOK' /\ \A q \in Pubs : q # p => dirs'[q] = dirs[q]
    BY <1>1, InvParts DEF DirsOK, DirRow, Empty
  <1>3. \A q \in Pubs : Active(q) \/ Committed(q) \/ pub[q].state = "staged" => q # p
    BY <1>1 DEF Active, Committed
  <1>4. TxOK'
    BY <1>1, <1>2, TxBusy, TxStays DEF Inv, TxOK, Doing, Owned
  <1>5. OneActive' /\ StillExpected' /\ KnownOK' /\ RowExplained' /\ OwnOK'
    BY <1>1 DEF Inv, OneActive, StillExpected, KnownOK, Known, RowExplained, OwnOK, Active, Committed,
           Owned
  <1>6. BackupOK'
    BY <1>1, <1>2, <1>3 DEF Inv, BackupOK, Active
  <1>7. KeptOK'
    BY <1>1, <1>2, <1>3 DEF Inv, KeptOK, Last, Committed, Owned, CopyOf, Cleaning
  <1>8. TypeOK'
    BY <1>1, <1>2, InvParts, TypePartsNext
    DEF TargetOK, KeptType, RevsOK, RowOK, PubOK, BookOK, TxType, JobOK, SpentOK
  <1> QED
    BY <1>4, <1>5, <1>6, <1>7, <1>8 DEF Inv

-----------------------------------------------------------------------------
(* Jobs.  What a job does does not reach the publication another            *)
(* transaction is about to install.                                         *)

LEMMA JobStep ==
  ASSUME Inv, UNCHANGED <<files, row, revs, tx, book>>, PubOK', JobOK', SpentOK',
         spent'.observed = spent.observed,
         \A q \in Pubs : Kin(q) /\ pub'[q].state = pub[q].state,
         tx.pub \in Pubs /\ tx.step = "checked" =>
           Doing(tx.pub)' = "active" /\ pub'[tx.pub].review = "none"
  PROVE  Inv'
  <1>1. UNCHANGED <<target, dirs, kept, row, revs, tx, book>>
    BY DEF files
  <1>2. TxOK'
    <2>1. CASE tx = NoTx
      BY <2>1, <1>1, TxFree
    <2>2. CASE tx # NoTx
      <3>1. tx.pub \in Pubs
        BY <2>2 DEF Inv, TxOK
      <3> QED
        BY <3>1, <1>1 DEF Inv, TxOK, Kin
    <2> QED
      BY <2>1, <2>2
  <1>3. OneActive' /\ StillExpected' /\ KnownOK' /\ BackupOK' /\ RowExplained' /\ OwnOK'
    BY <1>1, Steady
  <1>4. KeptOK'
    BY <1>1, KeptStays DEF Committed
  <1>5. TypeOK'
    BY <1>1, InvParts, TypePartsNext
    DEF TargetOK, DirsOK, KeptType, RevsOK, RowOK, BookOK, TxType
  <1> QED
    BY <1>2, <1>3, <1>4, <1>5 DEF Inv

LEMMA TxChecked ==
  ASSUME Inv, tx.pub \in Pubs, tx.step = "checked"
  PROVE  /\ Doing(tx.pub) = "active" /\ pub[tx.pub].review = "none" /\ Active(tx.pub)
         /\ \A q \in Pubs : pub[q].by = pub[tx.pub].by /\ Owned(q) => ~Committed(q)
  <1>1. Doing(tx.pub) = "active" /\ pub[tx.pub].review = "none" /\ Active(tx.pub)
    BY DEF Inv, TxOK, Active
  <1>2. \A q \in Pubs : pub[q].by = pub[tx.pub].by /\ Owned(q) => ~Committed(q)
    BY <1>1 DEF Inv, OwnOK, Owned, Active, Committed
  <1> QED
    BY <1>1, <1>2

LEMMA AcknowledgeInv == ASSUME Inv, NEW p \in Pubs, Acknowledge(p) PROVE Inv'
  <1> DEFINE j == pub[p].by
  <1>1. /\ UNCHANGED <<files, row, revs, tx, spent, book>> /\ Owned(p)
        /\ pub' = [pub EXCEPT ![p].settled = TRUE]
        /\ job' = IF pub[p].state = "cleanup_complete"
                  THEN [job EXCEPT ![j] = [state |-> "done", receipt |-> p]] ELSE job
    BY DEF Acknowledge
  <1>2. PubOK' /\ \A q \in Pubs : Kin(q) /\ pub'[q].state = pub[q].state /\ pub'[q].review = pub[q].review
    BY <1>1, InvParts DEF PubOK, PubRow, Kin
  <1>3. j \in Jobs
    BY <1>1, InvParts DEF PubOK, PubRow, Owned
  <1>4. JobOK' /\ \A i \in Jobs : i # j \/ pub[p].state # "cleanup_complete" => job'[i] = job[i]
    <2> HIDE DEF j
    <2>1. [state |-> "done", receipt |-> p] \in JobRow
      BY Numbers DEF JobRow
    <2> QED
      BY <1>1, <2>1, InvParts DEF JobOK
  <1>5. ASSUME tx.pub \in Pubs, tx.step = "checked"
        PROVE  Doing(tx.pub)' = "active" /\ pub'[tx.pub].review = "none"
    <2>1. pub[tx.pub].by = j => pub[p].state # "cleanup_complete"
      BY <1>1, <1>5, TxChecked DEF Committed
    <2>2. pub[tx.pub].by \in Jobs \cup {Writer}
      BY <1>5, InvParts DEF PubOK, PubRow
    <2>3. tx' = tx /\ pub'[tx.pub].by = pub[tx.pub].by /\ pub'[tx.pub].review = "none"
      BY <1>1, <1>2, <1>5, TxChecked DEF Kin
    <2> HIDE DEF j
    <2>4. Owned(tx.pub) => job'[pub[tx.pub].by] = job[pub[tx.pub].by]
      BY <1>4, <2>1, <2>2 DEF Owned
    <2> QED
      BY <1>5, <2>3, <2>4, TxChecked DEF Doing, Owned
  <1>6. SpentOK' /\ spent'.observed = spent.observed
    BY <1>1, InvParts DEF SpentOK
  <1> QED
    BY <1>1, <1>2, <1>4, <1>5, <1>6, JobStep

(* Steps of a job that leave the journal and do not touch the job that is   *)
(* publishing.                                                              *)
LEMMA JobOnly ==
  ASSUME Inv, NEW j \in Jobs, UNCHANGED <<files, row, revs, pub, tx, book>>,
         NEW new \in JobRow, job' = [job EXCEPT ![j] = new], SpentOK',
         spent'.observed = spent.observed,
         tx.pub \in Pubs /\ tx.step = "checked" => pub[tx.pub].by # j
  PROVE  Inv'
  <1>1. JobOK' /\ \A i \in Jobs : i # j => job'[i] = job[i]
    BY InvParts DEF JobOK
  <1>2. PubOK' /\ \A q \in Pubs : Kin(q) /\ pub'[q].state = pub[q].state
    BY InvParts DEF PubOK, Kin
  <1>3. ASSUME tx.pub \in Pubs, tx.step = "checked"
        PROVE  Doing(tx.pub)' = "active" /\ pub'[tx.pub].review = "none"
    <2>1. pub[tx.pub].by \in Jobs \cup {Writer}
      BY <1>3, InvParts DEF PubOK, PubRow
    <2> QED
      BY <1>1, <1>3, <2>1, TxChecked DEF Doing, Owned
  <1> QED
    BY <1>1, <1>2, <1>3, JobStep

LEMMA FinishInv == ASSUME Inv, NEW j \in Jobs, Finish(j) PROVE Inv'
  <1>1. PICK p \in Pubs : /\ pub[p].by = j /\ pub[p].state = "cleanup_complete"
                          /\ job' = [job EXCEPT ![j] = [state |-> "done", receipt |-> p]]
    BY DEF Finish
  <1>2. [state |-> "done", receipt |-> p] \in JobRow
    BY Numbers DEF JobRow
  <1>3. Owned(p) /\ Committed(p)
    BY <1>1, PublicationsAssumption DEF Owned, PublicationsAssumption, Committed
  <1>4. tx.pub \in Pubs /\ tx.step = "checked" => pub[tx.pub].by # j
    BY <1>1, <1>3, TxChecked
  <1>5. UNCHANGED <<files, row, revs, pub, tx, book>> /\ SpentOK' /\ spent'.observed = spent.observed
    BY InvParts DEF Finish, SpentOK
  <1> QED
    BY <1>1, <1>2, <1>4, <1>5, JobOnly

LEMMA AskReviewInv == ASSUME Inv, NEW j \in Jobs, AskReview(j) PROVE Inv'
  <1>1. PICK p \in Pubs :
          /\ pub[p].by = j /\ pub[p].state = "prepared" /\ pub[p].review # "none"
          /\ job' = [job EXCEPT ![j].state =
                       IF pub[p].review = "content" THEN "content_review" ELSE "metadata_review"]
    BY DEF AskReview
  <1> DEFINE new == [job[j] EXCEPT !.state =
                       IF pub[p].review = "content" THEN "content_review" ELSE "metadata_review"]
  <1>2. new \in JobRow /\ job' = [job EXCEPT ![j] = new]
    BY <1>1, InvParts DEF JobOK, JobRow
  <1>3. tx.pub \in Pubs /\ tx.step = "checked" => pub[tx.pub].by # j
    BY <1>1, TxChecked DEF Inv, OneActive, Active
  <1>4. UNCHANGED <<files, row, revs, pub, tx, book>> /\ SpentOK' /\ spent'.observed = spent.observed
    BY InvParts DEF AskReview, SpentOK
  <1> QED
    BY <1>2, <1>3, <1>4, JobOnly

LEMMA StopInv == ASSUME Inv, NEW j \in Jobs, Stop(j) PROVE Inv'
  <1> DEFINE new == [job[j] EXCEPT !.state = "stopped"]
  <1>1. new \in JobRow /\ job' = [job EXCEPT ![j] = new]
    BY InvParts DEF Stop, JobOK, JobRow
  <1>2. UNCHANGED <<files, row, revs, pub, tx, book>> /\ SpentOK' /\ spent'.observed = spent.observed
        /\ Unheld(j)
    BY InvParts DEF Stop, SpentOK
  <1> HIDE DEF new
  <1> QED
    BY <1>1, <1>2, JobOnly DEF Unheld

LEMMA RetryInv == ASSUME Inv, NEW j \in Jobs, Retry(j) PROVE Inv'
  <1> DEFINE new == [job[j] EXCEPT !.state = "active"]
  <1>1. new \in JobRow /\ job' = [job EXCEPT ![j] = new]
    BY InvParts DEF Retry, JobOK, JobRow
  <1>2. UNCHANGED <<files, row, revs, pub, tx, book>> /\ Unheld(j)
        /\ spent' = [spent EXCEPT !.stops = @ + 1]
    BY DEF Retry
  <1>3. SpentOK' /\ spent'.observed = spent.observed
    BY <1>2, InvParts DEF SpentOK
  <1> HIDE DEF new
  <1> QED
    BY <1>1, <1>2, <1>3, JobOnly DEF Unheld

LEMMA ApproveInv == ASSUME Inv, NEW j \in Jobs, Approve(j) PROVE Inv'
  <1>1. /\ UNCHANGED <<files, row, revs, tx, spent, book>> /\ Unheld(j)
        /\ job' = [job EXCEPT ![j].state = "active"]
        /\ pub' = [p \in Pubs |-> IF pub[p].by = j THEN [pub[p] EXCEPT !.review = "none"] ELSE pub[p]]
    BY DEF Approve
  <1>2. /\ PubOK'
        /\ \A q \in Pubs : /\ Kin(q) /\ pub'[q].state = pub[q].state
                           /\ pub[q].by # j => pub'[q] = pub[q]
    BY <1>1, InvParts DEF PubOK, PubRow, Kin
  <1>3. JobOK' /\ \A i \in Jobs : i # j => job'[i] = job[i]
    BY <1>1, InvParts DEF JobOK, JobRow
  <1>4. ASSUME tx.pub \in Pubs, tx.step = "checked"
        PROVE  Doing(tx.pub)' = "active" /\ pub'[tx.pub].review = "none"
    <2>1. pub[tx.pub].by \in Jobs \cup {Writer} /\ pub[tx.pub].by # j
      BY <1>1, <1>4, InvParts DEF PubOK, PubRow, Unheld
    <2>2. tx' = tx /\ pub'[tx.pub] = pub[tx.pub]
      BY <1>1, <1>2, <1>4, <2>1
    <2> QED
      BY <1>3, <1>4, <2>1, <2>2, TxChecked DEF Doing, Owned
  <1>5. SpentOK' /\ spent'.observed = spent.observed
    BY <1>1, InvParts DEF SpentOK
  <1> QED
    BY <1>1, <1>2, <1>3, <1>4, <1>5, JobStep

-----------------------------------------------------------------------------
(* The surroundings. *)

LEMMA OutsideInv == ASSUME Inv, Outside PROVE Inv'
  <1> DEFINE k == spent.outside
  <1>1. /\ UNCHANGED <<dirs, kept, row, revs, pub, tx, book, job>>
        /\ target' = N + 2 + k /\ k < MaxOutside /\ spent' = [spent EXCEPT !.outside = @ + 1]
    BY DEF Outside
  <1>2. k \in 0..MaxOutside /\ k + 1 \in 0..MaxOutside
    BY <1>1, Numbers, InvParts DEF SpentOK
  <1>3. SpentOK' /\ spent'.observed = spent.observed
    BY <1>1, <1>2, InvParts DEF SpentOK
  <1> HIDE DEF k
  <1>4. TargetOK' /\ IsForeign(target')
    BY <1>1, <1>2, Numbers DEF TargetOK
  <1>5. TxOK'
    BY <1>1, <1>4, TxStays DEF Inv, TxOK, Doing, Owned
  <1>6. OneActive' /\ StillExpected' /\ KnownOK' /\ OwnOK'
    BY <1>1, <1>3 DEF Inv, OneActive, StillExpected, KnownOK, Known, OwnOK, Active, Committed, Owned
  <1>7. RowExplained'
    BY <1>4 DEF RowExplained
  <1>8. BackupOK'
    BY <1>1, <1>4 DEF Inv, BackupOK, Active
  <1>9. KeptOK'
    BY <1>1, KeptStays DEF Kin, Committed
  <1>10. TypeOK'
    BY <1>1, <1>3, <1>4, InvParts, TypePartsNext
    DEF DirsOK, KeptType, RevsOK, RowOK, PubOK, BookOK, TxType, JobOK
  <1> QED
    BY <1>5, <1>6, <1>7, <1>8, <1>9, <1>10 DEF Inv

(* The revision the scanner finds has not been seen before.                 *)
LEMMA ObserveInv == ASSUME Inv, Observe PROVE Inv'
  <1> DEFINE found == [sha |-> target, storage |-> "none"]
  <1>0. PICK r : r = N + 1 + spent.observed
    OBVIOUS
  <1>1. /\ UNCHANGED <<target, dirs, kept, pub, tx, book, job>> /\ tx = NoTx
        /\ \A p \in Pubs : ~Active(p)
        /\ spent.observed < MaxOutside /\ row' = r /\ revs' = [revs EXCEPT ![r] = found]
        /\ spent' = [spent EXCEPT !.observed = @ + 1]
    BY <1>0 DEF Observe, Idle, files
  <1>2. /\ r \in Revs /\ r \notin Pubs
        /\ spent.observed \in Nat /\ spent.observed + 1 \in 0..MaxOutside
    BY <1>0, <1>1, Numbers, InvParts DEF SpentOK
  <1>3. SpentOK' /\ spent'.observed = spent.observed + 1
    BY <1>1, <1>2, InvParts DEF SpentOK
  <1>4. ~Known(r) /\ Known(r)'
    BY <1>0, <1>2, <1>3, Numbers DEF Known, Pubs
  <1>5. \A x : Known(x) => Known(x)' /\ x # r
    BY <1>1, <1>2, <1>3, <1>4, Numbers DEF Known, Committed
  <1>6. found \in RevRow /\ found.sha = target /\ target # Absent
    BY Numbers, InvParts DEF RevRow, TargetOK
  <1> HIDE DEF found
  <1>7. /\ RevsOK' /\ revs'[r] = found /\ \A x \in Revs : x # r => revs'[x] = revs[x]
    BY <1>1, <1>2, <1>6, InvParts DEF RevsOK
  <1>8. OneActive' /\ StillExpected'
    BY <1>1 DEF OneActive, StillExpected, Active
  <1>9. \A p \in Pubs : /\ pub[p].expected \in Revs /\ pub[p].expected # r
                        /\ Known(pub[p].expected)' /\ revs'[pub[p].expected] = revs[pub[p].expected]
    <2> SUFFICES ASSUME NEW p \in Pubs
                 PROVE  /\ pub[p].expected \in Revs /\ pub[p].expected # r
                        /\ Known(pub[p].expected)' /\ revs'[pub[p].expected] = revs[pub[p].expected]
      OBVIOUS
    <2>1. pub[p].expected \in Revs /\ Known(pub[p].expected)
      BY InvParts DEF Inv, KnownOK, PubOK, PubRow
    <2>2. PICK x : x = pub[p].expected /\ x = pub'[p].expected
      BY <1>1
    <2>3. Known(x)' /\ x # r
      BY <2>1, <2>2, <1>5
    <2> QED
      BY <2>1, <2>2, <2>3, <1>7 DEF Known
  <1>10. KnownOK'
    BY <1>1, <1>4, <1>9 DEF Inv, KnownOK, Known
  <1>11. RowExplained'
    BY <1>1, <1>6, <1>7 DEF RowExplained
  <1>12. BackupOK'
    BY <1>1 DEF Inv, BackupOK, Active
  <1>13. OwnOK'
    BY <1>1, <1>9 DEF Inv, OwnOK, Owned, Active, Committed
  <1>14. KeptOK'
    BY <1>1, <1>9 DEF Inv, KeptOK, Last, Committed, Owned, CopyOf, Cleaning
  <1>15. TypeOK'
    BY <1>1, <1>2, <1>3, <1>6, <1>7, InvParts, TypePartsNext
    DEF TargetOK, DirsOK, KeptType, RowOK, PubOK, BookOK, TxType, JobOK
  <1> QED
    BY <1>1, TxFree, <1>8, <1>10, <1>11, <1>12, <1>13, <1>14, <1>15 DEF Inv

LEMMA CrashInv == ASSUME Inv, Crash PROVE Inv'
  <1>1. /\ UNCHANGED <<target, dirs, kept, row, revs, job>> /\ Fault
        /\ pub' = [p \in Pubs |->
             IF pub[p].state = "staged" THEN [pub[p] EXCEPT !.state = "dropped"] ELSE pub[p]]
    BY DEF Crash, files
  <1>2. tx' = NoTx /\ TxOK' /\ TxType' /\ BookOK' /\ SpentOK' /\ spent'.observed = spent.observed
    BY <1>1, FaultInv, InvParts
  <1>3. /\ PubOK'
        /\ \A q \in Pubs : /\ Kin(q) /\ pub'[q].state # "staged"
                           /\ pub[q].state # "staged" => pub'[q].state = pub[q].state
                           /\ pub[q].state = "staged" => pub'[q].state = "dropped"
    BY <1>1, InvParts DEF PubOK, PubRow, States, Kin
  <1>4. \A q \in Pubs : (Active(q)' <=> Active(q)) /\ (Committed(q)' <=> Committed(q))
    BY <1>3 DEF Active, Committed
  <1>5. OneActive' /\ StillExpected' /\ RowExplained'
    BY <1>1, <1>3, <1>4 DEF Inv, OneActive, StillExpected, RowExplained, Kin
  <1>6. KnownOK'
    BY <1>1, <1>2, <1>3, <1>4 DEF Inv, KnownOK, Known, Kin
  <1>7. BackupOK'
    BY <1>1, <1>3, <1>4 DEF Inv, BackupOK, Kin, Active
  <1>8. OwnOK'
    BY <1>1, <1>3, <1>4 DEF Inv, OwnOK, Owned, Kin
  <1>9. KeptOK'
    BY <1>1, <1>2, <1>3, <1>4, KeptStays DEF NoTx
  <1>10. TypeOK'
    BY <1>1, <1>2, <1>3, InvParts, TypePartsNext
    DEF TargetOK, DirsOK, KeptType, RevsOK, RowOK, JobOK
  <1> QED
    BY <1>2, <1>5, <1>6, <1>7, <1>8, <1>9, <1>10 DEF Inv

-----------------------------------------------------------------------------
(* The invariant holds, and what follows from it. *)

LEMMA EveryStep == Inv /\ [Next]_vars => Inv'
  <1> SUFFICES ASSUME Inv, [Next]_vars PROVE Inv'
    OBVIOUS
  <1>1. ASSUME NEW p \in Pubs, NEW by \in Jobs \cup {Writer}, NEW c \in Contents, Stage(p, by, c)
        PROVE  Inv'
    BY <1>1, StageInv
  <1>2. ASSUME NEW p \in Pubs, Journal(p) \/ Discard(p)
        PROVE  Inv'
    BY <1>2, JournalInv, DiscardInv
  <1>3. ASSUME NEW p \in Pubs, GiveUp(p) \/ Publish(p) \/ CommitRevision(p) \/ Retain(p)
        PROVE  Inv'
    BY <1>3, GiveUpInv, PublishInv, CommitRevisionInv, RetainInv
  <1>4. ASSUME NEW p \in Pubs, NEW as \in {"owner", "recovery"}, Resume(p, as)
        PROVE  Inv'
    BY <1>4, ResumeInv
  <1>5. ASSUME Rename \/ CommitPublish \/ RemoveDirectory \/ Prune \/ CommitCleanup
        PROVE  Inv'
    BY <1>5, RenameInv, CommitPublishInv, RemoveDirectoryInv, PruneInv, CommitCleanupInv
  <1>6. ASSUME NEW p \in Pubs, FailPublication(p) \/ RemoveFailed(p) \/ Acknowledge(p)
        PROVE  Inv'
    BY <1>6, FailPublicationInv, RemoveFailedInv, AcknowledgeInv
  <1>7. ASSUME NEW j \in Jobs, Finish(j) \/ AskReview(j) \/ Approve(j) \/ Stop(j) \/ Retry(j)
        PROVE  Inv'
    BY <1>7, FinishInv, AskReviewInv, ApproveInv, StopInv, RetryInv
  <1>8. ASSUME Outside \/ Observe \/ Lose \/ Crash
        PROVE  Inv'
    BY <1>8, OutsideInv, ObserveInv, LoseInv, CrashInv
  <1>9. CASE UNCHANGED vars
    <2>1. UNCHANGED <<files, row, revs, pub, job, tx, book, spent>>
      BY <1>9 DEF vars, files
    <2>2. BookOK' /\ TxType' /\ SpentOK'
      BY <2>1, InvParts DEF BookOK, TxType, SpentOK
    <2>3. TxOK'
      BY <2>1 DEF Inv, TxOK, Doing, Owned, files
    <2> QED
      BY <2>1, <2>2, <2>3, Held
  <1> QED
    BY <1>1, <1>2, <1>3, <1>4, <1>5, <1>6, <1>7, <1>8, <1>9 DEF Next

LEMMA Always == Spec => []Inv
  <1> QED
    BY InitInv, EveryStep, PTL DEF Spec

(* The variables keep their types.                                          *)
THEOREM TypeCorrect == Spec => []TypeOK
  <1>1. Inv => TypeOK
    BY DEF Inv
  <1> QED
    BY <1>1, Always, PTL

(* The bytes on disk are those of the current revision, or a publication    *)
(* under way accounts for them, or something else wrote them: whatever is   *)
(* lost between two steps of resumeLocked and commitPublished.              *)
THEOREM RowExplainedCorrect == Spec => []RowExplained
  <1>1. Inv => RowExplained
    BY DEF Inv
  <1> QED
    BY <1>1, Always, PTL

(* A publication under way is for the current revision (prepareInternal,    *)
(* observeFile).                                                            *)
THEOREM StillExpectedCorrect == Spec => []StillExpected
  <1>1. Inv => StillExpected
    BY DEF Inv
  <1> QED
    BY <1>1, Always, PTL

(* The bytes the latest publication of a job took the place of can be read, *)
(* through every clean-up that is lost or done again (cleanup,              *)
(* pruneRetainedFiles).                                                     *)
THEOREM RollbackKeptCorrect == Spec => []RollbackKept
  <1>1. Inv => RollbackKept
    BY LastIsLatest DEF Inv, KeptOK, RollbackKept
  <1> QED
    BY <1>1, Always, PTL

(* What a crash or a lost transaction leaves behind can be finished or      *)
(* taken back (settle, resumeLocked, recoverPending).                       *)
THEOREM RecoverableCorrect == Spec => []Recoverable
  <1>1. Inv => Recoverable
    <2> SUFFICES ASSUME Inv, NEW p \in Pubs, LeftBehind(p), ~IsForeign(target), ~CopyLost(p)
                 PROVE  \/ MayCommit(p) \/ MayClean(p)
                        \/ pub[p].state = "prepared" /\ target = pub[p].next
                        \/ /\ Untouched(p)
                           /\ Owned(p) \/ dirs[p] = [staged |-> pub[p].next, backup |-> pub[p].prev]
      BY DEF Recoverable
    <2>1. CASE pub[p].state = "database_committed"
      BY <2>1 DEF CopyLost, CopyOf, MayClean
    <2>2. CASE pub[p].state = "filesystem_published"
      BY <2>2 DEF Inv, BackupOK, StillExpected, Active, MayCommit
    <2>3. CASE pub[p].state = "prepared" /\ target # pub[p].next
      <3>1. Active(p) /\ row = pub[p].expected /\ revs[row].sha = pub[p].prev
        BY <2>3 DEF Inv, StillExpected, KnownOK, Active
      <3>2. target = pub[p].prev
        BY <2>3, <3>1 DEF Inv, RowExplained, OneActive
      <3>3. dirs[p] = [staged |-> pub[p].next, backup |-> pub[p].prev]
        <4>1. dirs[p] \in DirRow /\ dirs[p].staged = pub[p].next /\ dirs[p].backup = pub[p].prev
          BY <2>3, <3>1, InvParts DEF Inv, BackupOK, DirsOK
        <4> QED
          BY <4>1 DEF DirRow
      <3> QED
        BY <2>3, <3>2, <3>3 DEF Untouched
    <2> QED
      BY <2>1, <2>2, <2>3 DEF LeftBehind, Active
  <1> QED
    BY <1>1, Always, PTL

(* The recovery of a job that has stopped installs nothing: no job stops    *)
(* between the question of Publish and the rename (settle, lockOwnedJob).   *)
THEOREM NoInstallAfterStopCorrect == Spec => NoInstallAfterStop
  <1>1. Inv => \A p \in Pubs : Interrupted(p) => ~(Rename /\ tx.pub = p)
    BY TxChecked DEF Rename, Interrupted
  <1> QED
    BY <1>1, Always, PTL DEF NoInstallAfterStop
=============================================================================
