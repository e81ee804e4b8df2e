--------------------------- MODULE SessionsProofs ---------------------------
(***************************************************************************)
(* What the tokens of every session say at every moment, for any number of *)
(* tabs, sessions, tokens and changes of the account, and any grace time.  *)
(*                                                                         *)
(* The properties are two halves of one invariant: a session that is not   *)
(* over has one good token, its last, and one that is over has none.  Of   *)
(* a session of a later version than the account neither would survive a   *)
(* change of the account, hence the bound on versions.                     *)
(*                                                                         *)
(* The grace time needs more: what a token says of when it was replaced    *)
(* and how old a request is that left with a good one (GInv).              *)
(***************************************************************************)
EXTENDS Sessions, SequenceTheorems, TLAPS

Typed(s) ==
  /\ s \in Session /\ Len(s.tokens) \in 1..MaxTokens /\ s.expired <= Len(s.tokens)

Known(k, ss) == k # None => k.sid \in DOMAIN ss /\ k.index \in DOMAIN ss[k.sid].tokens

Requests ==
  [stage : {"idle", "sent", "read", "answered"}, kind : {"refresh", "login", "logout"},
   token : Token \cup {None}, version : 0..MaxChanges, now : 0..MaxTime, sent : -1..MaxTime]

(* A request that takes part in the renewal or the end of a session has its *)
(* token with it.                                                           *)
Carries(r) ==
  (r.stage = "sent" \/ (r.stage = "read" /\ r.kind = "refresh")) => r.token # None

(* Of a session of version v that is not over only the last token is good.  *)
Kept(s, v) ==
  /\ s.version <= v
  /\ \A i \in 1..Len(s.tokens) :
       s.tokens[i].live <=> ~s.revoked /\ s.version = v /\ i = Len(s.tokens)

AllKept(ss, v) ==
  /\ ss \in Seq(Session) /\ Len(ss) <= MaxSessions
  /\ \A n \in DOMAIN ss : Typed(ss[n]) /\ Kept(ss[n], v)

AllKnown(c, q, ss) ==
  /\ c \in Token \cup {None} /\ Known(c, ss)
  /\ q \in [Tabs -> Requests]
  /\ \A t \in Tabs : Known(q[t].token, ss) /\ Carries(q[t])

IInv ==
  /\ clock \in 0..MaxTime /\ version \in 0..MaxChanges
  /\ AllKept(sessions, version) /\ AllKnown(cookie, request, sessions)

LEMMA Parts == IInv => TypeOK
<1> SUFFICES ASSUME IInv PROVE TypeOK
  OBVIOUS
<1>1. /\ sessions \in Seq(Session) /\ Len(sessions) <= MaxSessions
      /\ \A n \in DOMAIN sessions :
           /\ Len(sessions[n].tokens) \in 1..MaxTokens
           /\ sessions[n].expired <= Len(sessions[n].tokens)
  <2> HIDE DEF Session, Kept
  <2> QED
    BY DEF IInv, AllKept, Typed
<1>2. /\ cookie \in Token \cup {None}
      /\ request \in [Tabs -> Requests]
      /\ \A k \in {cookie} \cup {request[t].token : t \in Tabs} : Known(k, sessions)
  <2> HIDE DEF Requests, Known, Token, None, Carries
  <2> QED
    BY DEF IInv, AllKnown
<1> QED
  BY <1>1, <1>2 DEF IInv, TypeOK, Requests, Known

-----------------------------------------------------------------------------
(* What the operators do to one session. *)

LEMMA WithdrawnTokens ==
  ASSUME NEW s, Typed(s)
  PROVE  /\ Typed(Withdrawn(s)) /\ Typed(Ended(s))
         /\ Len(Withdrawn(s).tokens) = Len(s.tokens) /\ Len(Ended(s).tokens) = Len(s.tokens)
         /\ Withdrawn(s).version = s.version /\ Ended(s).version = s.version
         /\ Ended(s).revoked
         /\ \A i \in 1..Len(s.tokens) : ~Withdrawn(s).tokens[i].live /\ ~Ended(s).tokens[i].live
<1> DEFINE toks == [i \in DOMAIN s.tokens |-> [s.tokens[i] EXCEPT !.live = FALSE]]
<1>1. /\ s \in Session /\ s.tokens \in Seq(TokenRow) /\ Len(s.tokens) \in Nat
      /\ DOMAIN s.tokens = 1..Len(s.tokens)
  BY DEF Typed, Session
<1>2. \A i \in 1..Len(s.tokens) : toks[i] \in TokenRow /\ ~toks[i].live
  <2> SUFFICES ASSUME NEW i \in 1..Len(s.tokens)
               PROVE  toks[i] \in TokenRow /\ ~toks[i].live
    OBVIOUS
  <2>1. s.tokens[i] \in TokenRow
    BY <1>1, ElementOfSeq
  <2>2. toks[i] = [s.tokens[i] EXCEPT !.live = FALSE]
    BY <1>1
  <2> QED
    BY <2>1, <2>2 DEF TokenRow
<1>3. toks \in [1..Len(s.tokens) -> TokenRow]
  BY <1>1, <1>2
<1>4. toks \in Seq(TokenRow) /\ Len(toks) = Len(s.tokens)
  BY <1>1, <1>3, SeqDef, LenProperties
<1>5. Withdrawn(s) = [s EXCEPT !.tokens = toks]
  BY DEF Withdrawn
<1> HIDE DEF toks
<1> QED
  BY <1>1, <1>2, <1>4, <1>5 DEF Ended, Typed, Session

LEMMA RotatedTokens ==
  ASSUME NEW s, Typed(s), Len(s.tokens) < MaxTokens, NEW i \in 1..Len(s.tokens), NEW now \in 0..MaxTime
  PROVE  /\ Typed(Rotated(s, i, now))
         /\ Len(Rotated(s, i, now).tokens) = Len(s.tokens) + 1
         /\ Rotated(s, i, now).version = s.version /\ Rotated(s, i, now).revoked = s.revoked
         /\ \A j \in 1..(Len(s.tokens) + 1) : Rotated(s, i, now).tokens[j].live <=>
              \/ j = Len(s.tokens) + 1
              \/ j # i /\ j <= Len(s.tokens) /\ s.tokens[j].live
<1> DEFINE old == [s.tokens EXCEPT ![i] = Replaced(now)]
           toks == Append(old, NewToken)
<1>1. /\ s \in Session /\ s.tokens \in Seq(TokenRow) /\ Len(s.tokens) \in Nat
      /\ DOMAIN s.tokens = 1..Len(s.tokens)
  BY DEF Typed, Session
<1>2. s.tokens[i] \in TokenRow
  BY <1>1, ElementOfSeq
<1>3. Replaced(now) \in TokenRow /\ ~Replaced(now).live
  BY SessionsAssumption DEF Replaced, TokenRow
<1>4. /\ old \in Seq(TokenRow) /\ Len(old) = Len(s.tokens)
      /\ \A j \in 1..Len(s.tokens) : old[j] = IF j = i THEN Replaced(now) ELSE s.tokens[j]
  BY <1>1, <1>3, ExceptSeq
<1>5. NewToken \in TokenRow /\ NewToken.live
  BY SessionsAssumption DEF NewToken, TokenRow
<1> HIDE DEF old
<1>6. /\ toks \in Seq(TokenRow) /\ Len(toks) = Len(s.tokens) + 1
      /\ toks[Len(s.tokens) + 1] = NewToken
      /\ \A j \in 1..Len(s.tokens) : toks[j] = old[j]
  BY <1>1, <1>4, <1>5
<1>7. Rotated(s, i, now) = [s EXCEPT !.tokens = toks]
  BY DEF Rotated, old
<1> HIDE DEF toks
<1>8. \A j \in 1..(Len(s.tokens) + 1) : toks[j].live <=>
        \/ j = Len(s.tokens) + 1
        \/ j # i /\ j <= Len(s.tokens) /\ s.tokens[j].live
  BY <1>1, <1>3, <1>4, <1>5, <1>6
<1>9. /\ Rotated(s, i, now) \in Session /\ Rotated(s, i, now).tokens = toks
      /\ Rotated(s, i, now).version = s.version /\ Rotated(s, i, now).revoked = s.revoked
      /\ Rotated(s, i, now).expired = s.expired
  BY <1>1, <1>6, <1>7 DEF Session
<1> QED
  <2>1. s.expired \in Nat /\ s.expired <= Len(s.tokens)
    BY <1>1, SessionsAssumption DEF Typed, Session
  <2>2. Typed(Rotated(s, i, now))
    BY <1>1, <1>6, <1>9, <2>1, SessionsAssumption DEF Typed
  <2> QED
    BY <1>6, <1>8, <1>9, <2>2

-----------------------------------------------------------------------------
(* What a step may do to the sessions and to the requests. *)

LEMMA OneChanged ==
  ASSUME NEW ss, NEW v, AllKept(ss, v), NEW n \in DOMAIN ss, NEW s, Typed(s), Kept(s, v),
         Len(ss[n].tokens) <= Len(s.tokens)
  PROVE  /\ AllKept([ss EXCEPT ![n] = s], v)
         /\ \A k : Known(k, ss) => Known(k, [ss EXCEPT ![n] = s])
<1> DEFINE tt == [ss EXCEPT ![n] = s]
<1>1. ss \in Seq(Session) /\ s \in Session /\ DOMAIN ss = 1..Len(ss) /\ n \in 1..Len(ss)
  BY DEF AllKept, Typed
<1>2. /\ tt \in Seq(Session) /\ Len(tt) = Len(ss) /\ DOMAIN tt = DOMAIN ss
      /\ \A m \in DOMAIN ss : tt[m] = IF m = n THEN s ELSE ss[m]
  BY <1>1, ExceptSeq
<1>3. \A m \in DOMAIN ss : ss[m].tokens \in Seq(TokenRow) /\ tt[m].tokens \in Seq(TokenRow)
  <2>1. \A m \in DOMAIN ss : ss[m] \in Session /\ tt[m] \in Session
    BY <1>2 DEF AllKept, Typed
  <2>2. \A x \in Session : x.tokens \in Seq(TokenRow)
    BY DEF Session
  <2> QED
    BY <2>1, <2>2
<1> HIDE DEF tt
<1>4. AllKept(tt, v)
  BY <1>2 DEF AllKept
<1>5. \A m \in DOMAIN ss : DOMAIN ss[m].tokens \subseteq DOMAIN tt[m].tokens
  BY <1>2, <1>3
<1>6. \A k : Known(k, ss) => Known(k, tt)
  BY <1>2, <1>5 DEF Known
<1> QED
  BY <1>4, <1>6 DEF tt

LEMMA OneAdded ==
  ASSUME NEW ss, NEW v, AllKept(ss, v), NEW s, Typed(s), Kept(s, v), Len(ss) < MaxSessions
  PROVE  /\ AllKept(Append(ss, s), v)
         /\ \A k : Known(k, ss) => Known(k, Append(ss, s))
<1> DEFINE tt == Append(ss, s)
<1>1. ss \in Seq(Session) /\ s \in Session /\ Len(ss) \in Nat /\ DOMAIN ss = 1..Len(ss)
  BY DEF AllKept, Typed
<1>2. /\ tt \in Seq(Session) /\ Len(tt) = Len(ss) + 1 /\ DOMAIN tt = 1..(Len(ss) + 1)
      /\ tt[Len(ss) + 1] = s /\ \A m \in DOMAIN ss : tt[m] = ss[m]
  BY <1>1
<1> HIDE DEF tt
<1>3. AllKept(tt, v)
  BY <1>1, <1>2, SessionsAssumption DEF AllKept
<1>4. \A k : Known(k, ss) => Known(k, tt)
  BY <1>1, <1>2 DEF Known
<1> QED
  BY <1>3, <1>4 DEF tt

LEMMA StillKnown ==
  ASSUME NEW c, NEW q, NEW ss, AllKnown(c, q, ss), NEW tt, \A k : Known(k, ss) => Known(k, tt)
  PROVE  AllKnown(c, q, tt)
BY DEF AllKnown

LEMMA OneAsks ==
  ASSUME NEW c, NEW q, NEW ss, AllKnown(c, q, ss), NEW t \in Tabs, NEW r \in Requests,
         Known(r.token, ss), Carries(r)
  PROVE  AllKnown(c, [q EXCEPT ![t] = r], ss)
BY DEF AllKnown

LEMMA Resting == NoRequest \in Requests /\ NoRequest.token = None /\ Carries(NoRequest)
BY SessionsAssumption DEF NoRequest, Requests, Carries

(* Login, Issue, Exchange and Logout answer with a token of a session.      *)
LEMMA Answering ==
  ASSUME NEW t \in Tabs, NEW k \in Token \cup {None}, Answer(t, k), NEW ss,
         AllKnown(cookie, request, ss), Known(k, ss)
  PROVE  AllKnown(cookie, request', ss)
<1> DEFINE r == [stage |-> "answered", kind |-> "refresh", token |-> k, version |-> 0, now |-> 0,
                 sent |-> -1]
<1>1. r \in Requests /\ r.token = k /\ Carries(r)
  BY SessionsAssumption DEF Requests, Carries
<1>2. request' = [request EXCEPT ![t] = r]
  BY DEF Answer
<1> HIDE DEF r
<1> QED
  BY <1>1, <1>2, OneAsks

LEMMA Idling ==
  ASSUME NEW t \in Tabs, Idle(t), NEW ss, AllKnown(cookie, request, ss)
  PROVE  AllKnown(cookie, request', ss)
<1>1. Known(NoRequest.token, ss)
  BY Resting DEF Known
<1> QED
  BY <1>1, Resting, OneAsks DEF Idle

-----------------------------------------------------------------------------
(* The invariant: initially, and by each action. *)

LEMMA InitIInv == Init => IInv
<1> SUFFICES ASSUME Init PROVE IInv
  OBVIOUS
<1>1. sessions \in Seq(Session) /\ Len(sessions) = 0 /\ DOMAIN sessions = {}
  BY DEF Init
<1>2. AllKept(sessions, version)
  BY <1>1, SessionsAssumption DEF AllKept
<1>3. AllKnown(cookie, request, sessions)
  <2>1. /\ request \in [Tabs -> Requests]
        /\ \A t \in Tabs : request[t].token = None /\ Carries(request[t])
    BY Resting DEF Init
  <2> QED
    BY <2>1 DEF Init, AllKnown, Known
<1> QED
  BY <1>2, <1>3, SessionsAssumption DEF Init, IInv

(* The session whose token a request carries.                               *)
LEMMA Carried ==
  ASSUME NEW ss, NEW v, AllKept(ss, v), NEW k \in Token \cup {None}, Known(k, ss), k # None
  PROVE  /\ k \in Token /\ k.sid \in DOMAIN ss
         /\ Typed(ss[k.sid]) /\ Kept(ss[k.sid], v)
         /\ ss[k.sid].tokens \in Seq(TokenRow)
         /\ k.index \in 1..Len(ss[k.sid].tokens)
<1>1. k.sid \in DOMAIN ss /\ k.index \in DOMAIN ss[k.sid].tokens
  BY DEF Known
<1>2. Typed(ss[k.sid]) /\ Kept(ss[k.sid], v)
  BY <1>1 DEF AllKept
<1>3. ss[k.sid].tokens \in Seq(TokenRow)
  BY <1>2 DEF Typed, Session
<1> QED
  BY <1>1, <1>2, <1>3

LEMMA TokenMade ==
  ASSUME NEW ss, NEW v, AllKept(ss, v), NEW n \in DOMAIN ss, NEW i \in 1..Len(ss[n].tokens)
  PROVE  [sid |-> n, index |-> i] \in Token /\ Known([sid |-> n, index |-> i], ss)
<1>1. n \in 1..MaxSessions /\ ss[n].tokens \in Seq(TokenRow) /\ Len(ss[n].tokens) \in 1..MaxTokens
  <2>1. ss \in Seq(Session) /\ Len(ss) <= MaxSessions /\ Typed(ss[n])
    BY DEF AllKept
  <2>2. ss[n].tokens \in Seq(TokenRow) /\ Len(ss[n].tokens) \in 1..MaxTokens
    BY <2>1 DEF Typed, Session
  <2> QED
    BY <2>1, <2>2, SessionsAssumption
<1>2. [sid |-> n, index |-> i] \in Token
  BY <1>1, SessionsAssumption DEF Token
<1>3. i \in DOMAIN ss[n].tokens
  BY <1>1
<1> QED
  BY <1>2, <1>3 DEF Known

LEMMA EndedKept ==
  ASSUME NEW s, Typed(s), NEW v, s.version <= v
  PROVE  Typed(Ended(s)) /\ Kept(Ended(s), v) /\ Len(Ended(s).tokens) = Len(s.tokens)
BY WithdrawnTokens DEF Kept

(* Ending a session, by the person, elsewhere, or by a token used again.    *)
LEMMA OneEnded ==
  ASSUME IInv, NEW n \in DOMAIN sessions
  PROVE  /\ AllKept([sessions EXCEPT ![n] = Ended(sessions[n])], version)
         /\ \A k : Known(k, sessions) => Known(k, [sessions EXCEPT ![n] = Ended(sessions[n])])
<1>1. AllKept(sessions, version) /\ Typed(sessions[n]) /\ sessions[n].version <= version
  BY DEF IInv, AllKept, Kept
<1>2. Typed(Ended(sessions[n])) /\ Kept(Ended(sessions[n]), version)
      /\ Len(Ended(sessions[n]).tokens) = Len(sessions[n].tokens)
  BY <1>1, EndedKept
<1>3. Len(sessions[n].tokens) <= Len(Ended(sessions[n]).tokens)
  BY <1>1, <1>2 DEF Typed
<1> QED
  BY <1>1, <1>2, <1>3, OneChanged

LEMMA LoginStep == ASSUME IInv, NEW t \in Tabs, Login(t) PROVE IInv'
<1> DEFINE r == [stage |-> "read", kind |-> "login", token |-> None, version |-> version,
                 now |-> 0, sent |-> -1]
<1>1. r \in Requests /\ r.token = None /\ Carries(r)
  BY SessionsAssumption DEF Requests, Carries, IInv
<1>2. request' = [request EXCEPT ![t] = r]
  BY DEF Login
<1> HIDE DEF r
<1>3. AllKnown(cookie, request', sessions)
  BY <1>1, <1>2, OneAsks DEF IInv, Known
<1> QED
  BY <1>3 DEF Login, IInv

LEMMA IssueStep == ASSUME IInv, NEW t \in Tabs, Issue(t) PROVE IInv'
<1> DEFINE s == [version |-> request[t].version, revoked |-> FALSE, tokens |-> <<NewToken>>,
                 expired |-> 0]
           tt == Append(sessions, s)
           k == [sid |-> Len(sessions) + 1, index |-> 1]
<1>1. AllKept(sessions, version) /\ AllKnown(cookie, request, sessions)
  BY DEF IInv
<1>2. CASE MayIssue(t)
  <2>1. /\ sessions' = tt /\ Answer(t, k) /\ UNCHANGED <<clock, version, cookie>>
        /\ Len(sessions) < MaxSessions /\ request[t].version = version
    BY <1>2 DEF Issue, MayIssue
  <2>2. Typed(s) /\ Kept(s, version)
    <3>1. <<NewToken>> \in Seq(TokenRow) /\ Len(<<NewToken>>) = 1 /\ <<NewToken>>[1].live
      BY SessionsAssumption DEF NewToken, TokenRow
    <3>2. version \in 0..MaxChanges /\ MaxTokens >= 1 /\ 0 \in 0..MaxTokens
      BY SessionsAssumption DEF IInv
    <3> QED
      BY <2>1, <3>1, <3>2 DEF Typed, Session, Kept
  <2> HIDE DEF s
  <2>3. AllKept(tt, version) /\ \A x : Known(x, sessions) => Known(x, tt)
    BY <1>1, <2>1, <2>2, OneAdded
  <2>4. k \in Token /\ Known(k, tt)
    <3>1. sessions \in Seq(Session) /\ s \in Session
      BY <1>1, <2>2 DEF AllKept, Typed
    <3>2. Len(sessions) + 1 \in DOMAIN tt /\ tt[Len(sessions) + 1] = s
      BY <3>1
    <3>3. 1 \in 1..Len(s.tokens)
      BY <2>2, SessionsAssumption DEF Typed
    <3> HIDE DEF tt
    <3> QED
      BY <2>3, <3>2, <3>3, TokenMade
  <2> HIDE DEF tt, k
  <2>5. AllKnown(cookie, request', tt)
    BY <1>1, <2>1, <2>3, <2>4, StillKnown, Answering
  <2> QED
    BY <2>1, <2>3, <2>5 DEF IInv
<1>3. CASE ~MayIssue(t)
  <2>1. Idle(t) /\ UNCHANGED <<clock, version, sessions, cookie>>
    BY <1>3 DEF Issue
  <2> QED
    BY <1>1, <2>1, Idling DEF IInv
<1> QED
  BY <1>2, <1>3

LEMMA LeaveStep == ASSUME IInv, NEW t \in Tabs, NEW kind \in {"refresh", "logout"}, Leave(t, kind) PROVE IInv'
<1> DEFINE left == IF Row(cookie).live THEN clock ELSE -1
           r == [stage |-> "sent", kind |-> kind, token |-> cookie, version |-> 0, now |-> 0,
                 sent |-> left]
<1>1. left \in -1..MaxTime
  BY SessionsAssumption DEF IInv
<1>2. request' = [request EXCEPT ![t] = r]
  BY DEF Leave
<1> HIDE DEF left
<1>3. r \in Requests /\ r.token = cookie /\ Carries(r)
  BY <1>1, SessionsAssumption DEF Requests, Carries, Leave, IInv, AllKnown
<1> HIDE DEF r
<1>4. AllKnown(cookie, request', sessions)
  BY <1>2, <1>3, OneAsks DEF IInv, AllKnown
<1> QED
  BY <1>4 DEF Leave, IInv

LEMMA ReadStep == ASSUME IInv, NEW t \in Tabs, Read(t) PROVE IInv'
<1> DEFINE r == [stage |-> "read", kind |-> "refresh", token |-> request[t].token,
                 version |-> version, now |-> clock, sent |-> request[t].sent]
<1>1. /\ request \in [Tabs -> Requests] /\ request[t] \in Requests
      /\ Known(request[t].token, sessions) /\ request[t].token # None
  BY DEF IInv, AllKnown, Carries, Read
<1>2. r \in Requests /\ r.token = request[t].token /\ Carries(r)
  BY <1>1 DEF Requests, Carries, IInv
<1>3. request' = [request EXCEPT ![t] = r]
  BY <1>1 DEF Read
<1> HIDE DEF r
<1>4. AllKnown(cookie, request', sessions)
  BY <1>1, <1>2, <1>3, OneAsks DEF IInv
<1> QED
  BY <1>4 DEF Read, IInv

LEMMA LogoutStep == ASSUME IInv, NEW t \in Tabs, Logout(t) PROVE IInv'
<1> DEFINE n == request[t].token.sid
           tt == [sessions EXCEPT ![n] = Ended(sessions[n])]
<1>1. n \in DOMAIN sessions
  BY DEF Logout, IInv, AllKnown, Known, Carries
<1>2. sessions' = tt /\ Answer(t, None) /\ UNCHANGED <<clock, version, cookie>>
  BY DEF Logout
<1> HIDE DEF n
<1>3. AllKept(tt, version) /\ \A k : Known(k, sessions) => Known(k, tt)
  BY <1>1, OneEnded
<1> HIDE DEF tt
<1>4. AllKnown(cookie, request', tt)
  BY <1>2, <1>3, StillKnown, Answering DEF IInv, Known
<1> QED
  BY <1>2, <1>3, <1>4 DEF IInv

LEMMA RevokeStep == ASSUME IInv, NEW n \in DOMAIN sessions, Revoke(n) PROVE IInv'
<1> DEFINE tt == [sessions EXCEPT ![n] = Ended(sessions[n])]
<1>1. sessions' = tt /\ UNCHANGED <<clock, version, cookie, request>>
  BY DEF Revoke
<1>2. AllKept(tt, version) /\ \A k : Known(k, sessions) => Known(k, tt)
  BY OneEnded
<1> HIDE DEF tt
<1>3. AllKnown(cookie, request, tt)
  BY <1>2, StillKnown DEF IInv
<1> QED
  BY <1>1, <1>2, <1>3 DEF IInv

LEMMA ChangeAccountStep == ASSUME IInv, ChangeAccount PROVE IInv'
<1> DEFINE tt == [n \in DOMAIN sessions |-> Withdrawn(sessions[n])]
<1>1. AllKept(sessions, version) /\ sessions \in Seq(Session) /\ Len(sessions) \in Nat
      /\ DOMAIN sessions = 1..Len(sessions) /\ version \in Nat /\ version + 1 \in 0..MaxChanges
  BY SessionsAssumption DEF ChangeAccount, IInv, AllKept
<1>2. \A n \in DOMAIN sessions :
        /\ Typed(Withdrawn(sessions[n])) /\ Kept(Withdrawn(sessions[n]), version + 1)
        /\ Len(Withdrawn(sessions[n]).tokens) = Len(sessions[n].tokens)
  <2> SUFFICES ASSUME NEW n \in DOMAIN sessions
               PROVE  /\ Typed(Withdrawn(sessions[n])) /\ Kept(Withdrawn(sessions[n]), version + 1)
                      /\ Len(Withdrawn(sessions[n]).tokens) = Len(sessions[n].tokens)
    OBVIOUS
  <2>1. Typed(sessions[n]) /\ sessions[n].version <= version /\ sessions[n].version \in Nat
    BY <1>1, SessionsAssumption DEF AllKept, Kept, Typed, Session
  <2> QED
    BY <1>1, <2>1, WithdrawnTokens DEF Kept
<1>3. \A n \in DOMAIN sessions : DOMAIN Withdrawn(sessions[n]).tokens = DOMAIN sessions[n].tokens
  <2>1. \A n \in DOMAIN sessions :
          sessions[n].tokens \in Seq(TokenRow) /\ Withdrawn(sessions[n]).tokens \in Seq(TokenRow)
    BY <1>1, <1>2 DEF AllKept, Typed, Session
  <2> QED
    BY <1>2, <2>1
<1>4. \A n \in DOMAIN sessions : Withdrawn(sessions[n]) \in Session
  BY <1>2 DEF Typed
<1> HIDE DEF Withdrawn
<1>5. tt \in Seq(Session) /\ Len(tt) = Len(sessions) /\ DOMAIN tt = DOMAIN sessions
  <2>1. tt \in [1..Len(sessions) -> Session]
    BY <1>1, <1>4
  <2> HIDE DEF tt
  <2> QED
    BY <1>1, <2>1, SeqDef, LenProperties
<1>6. AllKept(tt, version + 1)
  BY <1>1, <1>2, <1>5 DEF AllKept
<1>7. \A k : Known(k, sessions) => Known(k, tt)
  BY <1>3, <1>5 DEF Known
<1>8. /\ sessions' = tt /\ version' = version + 1 /\ cookie' \in {cookie, None}
      /\ UNCHANGED <<clock, request>>
  BY DEF ChangeAccount
<1> HIDE DEF tt
<1>9. AllKnown(cookie, request, tt)
  BY <1>7, StillKnown DEF IInv
<1>10. AllKnown(cookie', request, tt)
  BY <1>8, <1>9 DEF AllKnown, Known
<1> QED
  BY <1>1, <1>6, <1>8, <1>10 DEF IInv

LEMMA ExpireStep == ASSUME IInv, NEW n \in DOMAIN sessions, Expire(n) PROVE IInv'
<1> DEFINE s == [sessions[n] EXCEPT !.expired = @ + 1]
           tt == [sessions EXCEPT ![n] = s]
<1>1. AllKept(sessions, version) /\ Typed(sessions[n]) /\ Kept(sessions[n], version)
      /\ sessions[n] \in Session
  BY DEF IInv, AllKept, Typed
<1>2. /\ sessions' = tt /\ sessions[n].expired < Len(sessions[n].tokens)
      /\ UNCHANGED <<clock, version, cookie, request>>
  BY DEF Expire, Last
<1>3. /\ s.tokens = sessions[n].tokens /\ s.version = sessions[n].version
      /\ s.revoked = sessions[n].revoked /\ s.expired = sessions[n].expired + 1
      /\ Len(sessions[n].tokens) \in 1..MaxTokens /\ sessions[n].expired \in Nat
  BY <1>1, SessionsAssumption DEF Typed, Session
<1>4. s \in Session
  BY <1>1, <1>2, <1>3, SessionsAssumption DEF Session
<1> HIDE DEF s
<1>5. Typed(s) /\ Kept(s, version) /\ Len(sessions[n].tokens) <= Len(s.tokens)
  BY <1>1, <1>2, <1>3, <1>4 DEF Typed, Kept
<1>6. AllKept(tt, version) /\ \A k : Known(k, sessions) => Known(k, tt)
  BY <1>1, <1>5, OneChanged
<1> HIDE DEF tt
<1>7. AllKnown(cookie, request, tt)
  BY <1>6, StillKnown DEF IInv
<1> QED
  BY <1>2, <1>6, <1>7 DEF IInv

LEMMA RestStep ==
  ASSUME IInv, NEW t \in Tabs, Deliver(t) \/ Lose(t) PROVE IInv'
<1>1. request[t].token \in Token \cup {None} /\ Known(request[t].token, sessions)
  BY DEF IInv, AllKnown, Requests
<1>2. AllKnown(cookie, request', sessions)
  BY Idling DEF Deliver, Lose, IInv
<1>3. AllKnown(cookie', request', sessions)
  BY <1>1, <1>2 DEF Deliver, Lose, AllKnown
<1> QED
  BY <1>3 DEF Deliver, Lose, IInv

LEMMA TickStep == ASSUME IInv, Tick PROVE IInv'
BY SessionsAssumption DEF Tick, IInv

LEMMA ExchangeStep == ASSUME IInv, NEW t \in Tabs, Exchange(t) PROVE IInv'
<1> DEFINE q == request[t]
           n == q.token.sid
           i == q.token.index
           s == sessions[n]
           found == Successors(s, i, q.now)
<1>1. /\ AllKept(sessions, version) /\ AllKnown(cookie, request, sessions)
      /\ q \in Requests /\ Known(q.token, sessions) /\ q.token # None
  BY DEF IInv, AllKnown, Carries, Exchange
<1>2. q.token \in Token \cup {None} /\ q.now \in 0..MaxTime
  BY <1>1 DEF Requests
<1>3. /\ n \in DOMAIN sessions /\ Typed(s) /\ Kept(s, version)
      /\ s.tokens \in Seq(TokenRow) /\ i \in 1..Len(s.tokens) /\ Len(s.tokens) \in Nat
  BY <1>1, <1>2, Carried
<1>4. UNCHANGED <<clock, version, cookie>>
  BY DEF Exchange
<1>5. CASE Answer(t, None) /\ UNCHANGED sessions
  BY <1>1, <1>4, <1>5, Answering DEF IInv, Known
<1>6. CASE /\ Admitted(q) /\ Row(q.token).live /\ Last(s) < MaxTokens
           /\ sessions' = [sessions EXCEPT ![n] = Rotated(s, i, q.now)]
           /\ Answer(t, [sid |-> n, index |-> i + 1])
  <2> DEFINE x == Rotated(s, i, q.now)
             tt == [sessions EXCEPT ![n] = x]
  <2>1. Len(s.tokens) < MaxTokens /\ s.tokens[i].live
    BY <1>6 DEF Last, Row
  <2>2. /\ Typed(x) /\ Len(x.tokens) = Len(s.tokens) + 1
        /\ x.version = s.version /\ x.revoked = s.revoked
        /\ \A j \in 1..(Len(s.tokens) + 1) : x.tokens[j].live <=>
             \/ j = Len(s.tokens) + 1
             \/ j # i /\ j <= Len(s.tokens) /\ s.tokens[j].live
    <3> HIDE DEF s, i, q
    <3> QED
      BY <1>2, <1>3, <2>1, RotatedTokens
  <2>3. i = Len(s.tokens) /\ ~s.revoked /\ s.version = version /\ s.version <= version
    BY <1>3, <2>1 DEF Kept
  <2> HIDE DEF x
  <2>4. Kept(x, version)
    BY <1>3, <2>2, <2>3 DEF Kept
  <2> HIDE DEF s, i
  <2>5. Len(s.tokens) <= Len(x.tokens)
    BY <1>3, <2>2
  <2>6. AllKept(tt, version) /\ \A k : Known(k, sessions) => Known(k, tt)
    BY <1>1, <1>3, <2>2, <2>4, <2>5, OneChanged DEF s
  <2>7. sessions \in Seq(Session) /\ x \in Session
    BY <1>1, <2>2 DEF AllKept, Typed
  <2>8. n \in DOMAIN tt /\ tt[n] = x
    BY <1>3, <2>7
  <2>9. i + 1 \in 1..Len(tt[n].tokens)
    BY <1>3, <2>2, <2>3, <2>8
  <2>10. sessions' = tt /\ Answer(t, [sid |-> n, index |-> i + 1])
    BY <1>6 DEF x
  <2> HIDE DEF tt, n
  <2>11. [sid |-> n, index |-> i + 1] \in Token /\ Known([sid |-> n, index |-> i + 1], tt)
    BY <2>6, <2>8, <2>9, TokenMade
  <2>12. AllKnown(cookie, request', tt)
    BY <1>1, <2>6, <2>10, <2>11, StillKnown, Answering
  <2> QED
    BY <1>4, <2>6, <2>10, <2>12 DEF IInv
<1>7. CASE (\E j \in found : Answer(t, [sid |-> n, index |-> j])) /\ UNCHANGED sessions
  <2>1. PICK j \in found : Answer(t, [sid |-> n, index |-> j])
    BY <1>7
  <2>2. j \in 1..Len(s.tokens)
    BY <1>3, <2>1 DEF Successors
  <2> HIDE DEF n, found
  <2>3. [sid |-> n, index |-> j] \in Token /\ Known([sid |-> n, index |-> j], sessions)
    BY <1>1, <1>3, <2>2, TokenMade
  <2>4. AllKnown(cookie, request', sessions)
    BY <1>1, <2>1, <2>3, Answering
  <2> QED
    BY <1>4, <1>7, <2>4 DEF IInv
<1>8. CASE sessions' = [sessions EXCEPT ![n] = Ended(s)] /\ Answer(t, None)
  <2> DEFINE tt == [sessions EXCEPT ![n] = Ended(sessions[n])]
  <2> HIDE DEF n
  <2>1. AllKept(tt, version) /\ \A k : Known(k, sessions) => Known(k, tt)
    BY <1>3, OneEnded
  <2> HIDE DEF tt
  <2>2. sessions' = tt
    BY <1>8 DEF tt
  <2>3. AllKnown(cookie, request', tt)
    BY <1>1, <1>8, <2>1, StillKnown, Answering DEF Known
  <2> QED
    BY <1>4, <2>1, <2>2, <2>3 DEF IInv
<1> QED
  BY <1>5, <1>6, <1>7, <1>8 DEF Exchange

LEMMA Step == IInv /\ [Next]_vars => IInv'
<1> SUFFICES ASSUME IInv, [Next]_vars PROVE IInv'
  OBVIOUS
<1>1. ASSUME NEW t \in Tabs,
             \/ Login(t) \/ Issue(t) \/ Leave(t, "refresh") \/ Leave(t, "logout") \/ Logout(t)
             \/ Read(t) \/ Exchange(t) \/ Deliver(t) \/ Lose(t)
      PROVE  IInv'
  BY <1>1, LoginStep, IssueStep, LeaveStep, LogoutStep, ReadStep, ExchangeStep, RestStep
<1>2. ASSUME NEW n \in DOMAIN sessions, Revoke(n) \/ Expire(n) PROVE IInv'
  BY <1>2, RevokeStep, ExpireStep
<1>3. CASE ChangeAccount \/ Tick
  BY <1>3, ChangeAccountStep, TickStep
<1>4. CASE UNCHANGED vars
  BY <1>4 DEF vars, IInv
<1> QED
  BY <1>1, <1>2, <1>3, <1>4 DEF Next

LEMMA Invariant == Spec => []IInv
BY InitIInv, Step, PTL DEF Spec

-----------------------------------------------------------------------------
(* Every token in the browser, or on its way to or from it, is one that the *)
(* server has made, and of every session at least one token is stored.      *)
THEOREM TypeCorrect == Spec => []TypeOK
BY Invariant, Parts, PTL

LEMMA Halves == IInv => Renewable /\ StaysOut
<1> SUFFICES ASSUME IInv, NEW n \in DOMAIN sessions, NEW i \in DOMAIN sessions[n].tokens
             PROVE  sessions[n].tokens[i].live <=> Good(sessions[n]) /\ i = Last(sessions[n])
  BY DEF Renewable, StaysOut
<1>1. Typed(sessions[n]) /\ Kept(sessions[n], version)
  BY DEF IInv, AllKept
<1>2. i \in 1..Len(sessions[n].tokens)
  BY <1>1 DEF Typed, Session
<1> QED
  BY <1>1, <1>2 DEF Kept, Good, Last

(* However many tabs refresh at once, a session that is not over keeps one  *)
(* good token, its last: exchange replaces the token and stores the next in *)
(* one transaction.                                                         *)
THEOREM RenewableCorrect == Spec => []Renewable
BY Invariant, Halves, PTL

(* No token of a session that was ended, or made before the password was    *)
(* changed, is good, whatever was on its way.                               *)
THEOREM StaysOutCorrect == Spec => []StaysOut
BY Invariant, Halves, PTL

-----------------------------------------------------------------------------
(* The grace time.  A token that was good when a request left was replaced  *)
(* at the earliest a wait for the locks before, as were its successors.     *)

Aged(s) == \A k \in 1..Len(s.tokens) : s.tokens[k].at = -1 <=> k = Len(s.tokens)

Heard(t) ==
  LET q == request[t]
      s == sessions[q.token.sid] IN
  /\ Waiting(t) => q.now <= clock /\ clock - q.now <= Wait
  /\ q.sent # -1 =>
       /\ q.token # None /\ q.sent <= clock
       /\ \A k \in q.token.index..Len(s.tokens) :
            s.tokens[k].at = -1 \/ s.tokens[k].at >= q.sent - Wait

GInv ==
  /\ IInv
  /\ \A n \in DOMAIN sessions : Aged(sessions[n])
  /\ \A t \in Tabs : Heard(t)

(* No token is replaced, and none added, but in new sessions.               *)
SameTimes(ss, tt) ==
  \A n \in DOMAIN ss :
    /\ n \in DOMAIN tt /\ Len(tt[n].tokens) = Len(ss[n].tokens)
    /\ \A k \in 1..Len(ss[n].tokens) : tt[n].tokens[k].at = ss[n].tokens[k].at

LEMMA WithdrawnTimes ==
  ASSUME NEW s, Typed(s)
  PROVE  /\ Len(Withdrawn(s).tokens) = Len(s.tokens) /\ Len(Ended(s).tokens) = Len(s.tokens)
         /\ \A k \in 1..Len(s.tokens) :
              Withdrawn(s).tokens[k].at = s.tokens[k].at /\ Ended(s).tokens[k].at = s.tokens[k].at
  <1> DEFINE toks == [i \in DOMAIN s.tokens |-> [s.tokens[i] EXCEPT !.live = FALSE]]
  <1>1. s \in Session /\ s.tokens \in Seq(TokenRow) /\ DOMAIN s.tokens = 1..Len(s.tokens)
    BY DEF Typed, Session
  <1>2. \A i \in 1..Len(s.tokens) : toks[i].at = s.tokens[i].at
    <2> SUFFICES ASSUME NEW i \in 1..Len(s.tokens) PROVE toks[i].at = s.tokens[i].at
      OBVIOUS
    <2>1. s.tokens[i] \in TokenRow /\ toks[i] = [s.tokens[i] EXCEPT !.live = FALSE]
      BY <1>1, ElementOfSeq
    <2> QED
      BY <2>1 DEF TokenRow
  <1>3. Withdrawn(s) = [s EXCEPT !.tokens = toks]
    BY DEF Withdrawn
  <1> HIDE DEF toks
  <1>4. Withdrawn(s).tokens = toks /\ Ended(s).tokens = toks
    BY <1>1, <1>3 DEF Ended, Session
  <1> QED
    BY <1>2, <1>4, WithdrawnTokens

LEMMA RotatedTimes ==
  ASSUME NEW s, Typed(s), NEW i \in 1..Len(s.tokens), NEW now \in 0..MaxTime
  PROVE  /\ Len(Rotated(s, i, now).tokens) = Len(s.tokens) + 1
         /\ Rotated(s, i, now).revoked = s.revoked
         /\ Rotated(s, i, now).tokens[Len(s.tokens) + 1].at = -1
         /\ \A k \in 1..Len(s.tokens) :
              /\ k = i => Rotated(s, i, now).tokens[k].at = now
              /\ k # i => Rotated(s, i, now).tokens[k].at = s.tokens[k].at
  <1> DEFINE old == [s.tokens EXCEPT ![i] = Replaced(now)]
             toks == Append(old, NewToken)
  <1>1. /\ s \in Session /\ s.tokens \in Seq(TokenRow) /\ Len(s.tokens) \in Nat
        /\ DOMAIN s.tokens = 1..Len(s.tokens)
    BY DEF Typed, Session
  <1>2. Replaced(now) \in TokenRow /\ Replaced(now).at = now
    BY SessionsAssumption DEF Replaced, TokenRow
  <1>3. /\ old \in Seq(TokenRow) /\ Len(old) = Len(s.tokens)
        /\ \A k \in 1..Len(s.tokens) : old[k] = IF k = i THEN Replaced(now) ELSE s.tokens[k]
    BY <1>1, <1>2, ExceptSeq
  <1>4. NewToken \in TokenRow /\ NewToken.at = -1
    BY SessionsAssumption DEF NewToken, TokenRow
  <1> HIDE DEF old
  <1>5. /\ Len(toks) = Len(s.tokens) + 1 /\ toks[Len(s.tokens) + 1] = NewToken
        /\ \A k \in 1..Len(s.tokens) : toks[k] = old[k]
    BY <1>1, <1>3, <1>4
  <1>6. Rotated(s, i, now) = [s EXCEPT !.tokens = toks]
    BY DEF Rotated, old
  <1> HIDE DEF toks
  <1>7. Rotated(s, i, now).tokens = toks /\ Rotated(s, i, now).revoked = s.revoked
    BY <1>1, <1>6 DEF Session
  <1> QED
    BY <1>2, <1>3, <1>4, <1>5, <1>7

(* The session of a request that left with a good token.                    *)
LEMMA OfRequest ==
  ASSUME IInv, NEW t \in Tabs, request[t].token # None
  PROVE  /\ request[t] \in Requests /\ request[t].token \in Token
         /\ request[t].token.sid \in DOMAIN sessions
         /\ Typed(sessions[request[t].token.sid]) /\ Kept(sessions[request[t].token.sid], version)
         /\ request[t].token.index \in 1..Len(sessions[request[t].token.sid].tokens)
  <1>1. /\ AllKept(sessions, version) /\ Known(request[t].token, sessions)
        /\ request[t] \in Requests /\ request[t].token \in Token \cup {None}
    BY DEF IInv, AllKnown, Requests
  <1> QED
    BY <1>1, Carried

LEMMA StillHeard ==
  ASSUME IInv, NEW t \in Tabs, Heard(t), request'[t] = request[t], clock' = clock,
         SameTimes(sessions, sessions')
  PROVE  Heard(t)'
  <1>1. request[t].sent # -1 => request[t].token # None
    BY DEF Heard
  <1> DEFINE q == request[t]
             s == sessions[q.token.sid]
  <1>2. ASSUME q.sent # -1
        PROVE  /\ q.token.index \in Nat \ {0} /\ Len(s.tokens) \in Nat
               /\ Len(sessions'[q.token.sid].tokens) = Len(s.tokens)
               /\ \A k \in 1..Len(s.tokens) : sessions'[q.token.sid].tokens[k].at = s.tokens[k].at
    <2>1. q.token \in Token /\ q.token.sid \in DOMAIN sessions /\ Typed(s)
      BY <1>1, <1>2, OfRequest
    <2>2. q.token.index \in Nat \ {0} /\ Len(s.tokens) \in Nat
      BY <2>1, SessionsAssumption DEF Typed, Token
    <2> QED
      BY <2>1, <2>2 DEF SameTimes
  <1>3. \A k \in q.token.index..Len(s.tokens) : q.sent # -1 => k \in 1..Len(s.tokens)
    BY <1>2
  <1> QED
    BY <1>2, <1>3 DEF Heard, Waiting

LEMMA HeardOf ==
  ASSUME NEW t \in Tabs, Heard(t), request'[t] = request[t], clock' = clock,
         sessions'[request[t].token.sid] = sessions[request[t].token.sid]
  PROVE  Heard(t)'
  BY DEF Heard, Waiting

LEMMA StillAged ==
  ASSUME IInv, \A n \in DOMAIN sessions : Aged(sessions[n]), SameTimes(sessions, sessions'),
         NEW n \in DOMAIN sessions
  PROVE  Aged(sessions'[n])
  BY DEF SameTimes, Aged

(* A step of one tab that replaces no token.                                *)
LEMMA TabStep ==
  ASSUME GInv, IInv', NEW t \in Tabs, \A u \in Tabs \ {t} : request'[u] = request[u],
         Heard(t)', clock' = clock, SameTimes(sessions, sessions'),
         \A n \in DOMAIN sessions' \ DOMAIN sessions : Aged(sessions'[n])
  PROVE  GInv'
  BY StillHeard, StillAged DEF GInv

LEMMA TabsRest ==
  ASSUME GInv, IInv', request' = request, clock' = clock, SameTimes(sessions, sessions'),
         DOMAIN sessions' = DOMAIN sessions
  PROVE  GInv'
  BY StillHeard, StillAged DEF GInv

LEMMA Unsent ==
  ASSUME NEW t \in Tabs, request'[t].sent = -1, request'[t].stage # "read" \/ request'[t].kind # "refresh"
  PROVE  Heard(t)'
  BY DEF Heard, Waiting

LEMMA NoSessionChanged == SameTimes(sessions, sessions)
  BY DEF SameTimes

(* Sessions whose row n becomes one with the same times.                    *)
LEMMA OneTimed ==
  ASSUME IInv, NEW n \in DOMAIN sessions, NEW s, Len(s.tokens) = Len(sessions[n].tokens),
         \A k \in 1..Len(s.tokens) : s.tokens[k].at = sessions[n].tokens[k].at,
         sessions' = [sessions EXCEPT ![n] = s]
  PROVE  SameTimes(sessions, sessions') /\ DOMAIN sessions' = DOMAIN sessions
  <1>1. DOMAIN sessions' = DOMAIN sessions
    OBVIOUS
  <1> QED
    BY <1>1 DEF SameTimes

LEMMA EndedTimes ==
  ASSUME IInv, NEW n \in DOMAIN sessions, sessions' = [sessions EXCEPT ![n] = Ended(sessions[n])]
  PROVE  SameTimes(sessions, sessions') /\ DOMAIN sessions' = DOMAIN sessions
  <1>1. Typed(sessions[n])
    BY DEF IInv, AllKept
  <1> QED
    BY <1>1, WithdrawnTimes, OneTimed

LEMMA RequestSet ==
  ASSUME IInv, NEW t \in Tabs, NEW r, request' = [request EXCEPT ![t] = r]
  PROVE  request'[t] = r /\ \A u \in Tabs \ {t} : request'[u] = request[u]
  BY DEF IInv, AllKnown

LEMMA AnswerUnsent ==
  ASSUME IInv, NEW t \in Tabs, (\E k : Answer(t, k)) \/ Idle(t)
  PROVE  Heard(t)' /\ \A u \in Tabs \ {t} : request'[u] = request[u]
  <1>1. /\ request'[t].sent = -1 /\ request'[t].stage # "read"
        /\ \A u \in Tabs \ {t} : request'[u] = request[u]
    BY RequestSet DEF Answer, Idle, NoRequest
  <1> QED
    BY <1>1, Unsent

LEMMA LoginAges == ASSUME GInv, NEW t \in Tabs, Login(t) PROVE GInv'
  <1> DEFINE r == [stage |-> "read", kind |-> "login", token |-> None, version |-> version,
                   now |-> 0, sent |-> -1]
  <1>1. request' = [request EXCEPT ![t] = r] /\ r.sent = -1 /\ r.kind = "login"
    BY DEF Login
  <1> HIDE DEF r
  <1>2. request'[t].sent = -1 /\ request'[t].kind = "login" /\ \A u \in Tabs \ {t} : request'[u] = request[u]
    BY <1>1, RequestSet DEF GInv
  <1>3. Heard(t)' /\ IInv' /\ clock' = clock /\ sessions' = sessions
    BY <1>2, Unsent, LoginStep DEF GInv, Login
  <1> QED
    BY <1>2, <1>3, NoSessionChanged, TabStep

LEMMA IssueAges == ASSUME GInv, NEW t \in Tabs, Issue(t) PROVE GInv'
  <1>1. IInv' /\ Heard(t)' /\ (\A u \in Tabs \ {t} : request'[u] = request[u]) /\ clock' = clock
    BY IssueStep, AnswerUnsent DEF GInv, Issue
  <1>2. CASE sessions' = sessions
    BY <1>1, <1>2, NoSessionChanged, TabStep
  <1>3. ASSUME NEW s, s.tokens = <<NewToken>>, sessions' = Append(sessions, s) PROVE GInv'
    <2>1. sessions \in Seq(Session) /\ Len(sessions) \in Nat
      BY DEF GInv, IInv, AllKept
    <2>2. /\ DOMAIN sessions = 1..Len(sessions) /\ DOMAIN sessions' = 1..(Len(sessions) + 1)
          /\ sessions'[Len(sessions) + 1] = s /\ \A n \in DOMAIN sessions : sessions'[n] = sessions[n]
      BY <1>3, <2>1
    <2>3. Aged(s)
      BY <1>3 DEF Aged, NewToken
    <2>4. SameTimes(sessions, sessions')
      BY <2>2 DEF SameTimes
    <2>5. \A n \in DOMAIN sessions' \ DOMAIN sessions : Aged(sessions'[n])
      <3>1. \A n \in DOMAIN sessions' \ DOMAIN sessions : n = Len(sessions) + 1
        BY <2>1, <2>2
      <3> QED
        BY <2>2, <2>3, <3>1
    <2> QED
      BY <1>1, <2>4, <2>5, TabStep
  <1> QED
    <2> DEFINE s == [version |-> request[t].version, revoked |-> FALSE, tokens |-> <<NewToken>>,
                     expired |-> 0]
    <2>1. s.tokens = <<NewToken>>
      OBVIOUS
    <2>2. sessions' = sessions \/ sessions' = Append(sessions, s)
      BY DEF Issue
    <2> HIDE DEF s
    <2> QED
      BY <1>2, <1>3, <2>1, <2>2

(* A token that is good was never replaced, and is the last.                *)
LEMMA LeaveAges ==
  ASSUME GInv, NEW t \in Tabs, NEW kind \in {"refresh", "logout"}, Leave(t, kind) PROVE GInv'
  <1> DEFINE left == IF Row(cookie).live THEN clock ELSE -1
             r == [stage |-> "sent", kind |-> kind, token |-> cookie, version |-> 0, now |-> 0,
                   sent |-> left]
             s == sessions[cookie.sid]
  <1>1. /\ request'[t].stage = "sent" /\ request'[t].token = cookie /\ request'[t].sent = left
        /\ \A u \in Tabs \ {t} : request'[u] = request[u]
        /\ clock' = clock /\ sessions' = sessions /\ cookie # None
    <2>1. /\ request' = [request EXCEPT ![t] = r] /\ r.stage = "sent" /\ r.token = cookie
          /\ r.sent = left
      BY DEF Leave
    <2> HIDE DEF r
    <2>2. request'[t] = r /\ \A u \in Tabs \ {t} : request'[u] = request[u]
      BY <2>1, RequestSet DEF GInv
    <2> QED
      BY <2>1, <2>2 DEF Leave
  <1>2. /\ cookie \in Token /\ cookie.sid \in DOMAIN sessions /\ Typed(s) /\ Kept(s, version) /\ Aged(s)
        /\ cookie.index \in 1..Len(s.tokens)
    <2>1. AllKept(sessions, version) /\ cookie \in Token \cup {None} /\ Known(cookie, sessions)
      BY DEF GInv, IInv, AllKnown
    <2> QED
      BY <1>1, <2>1, Carried DEF GInv
  <1>3. Len(s.tokens) \in Nat /\ (Row(cookie).live => cookie.index = Len(s.tokens))
    BY <1>2, SessionsAssumption DEF Typed, Kept, Row
  <1>4. left # -1 => left = clock /\ \A k \in cookie.index..Len(s.tokens) : s.tokens[k].at = -1
    BY <1>2, <1>3 DEF Aged
  <1> HIDE DEF left
  <1>5. clock \in Nat /\ Wait \in Nat
    BY SessionsAssumption DEF GInv, IInv
  <1>6. Heard(t)'
    BY <1>1, <1>4, <1>5 DEF Heard, Waiting
  <1>7. IInv'
    BY LeaveStep DEF GInv
  <1> QED
    BY <1>1, <1>6, <1>7, NoSessionChanged, TabStep

LEMMA ReadAges == ASSUME GInv, NEW t \in Tabs, Read(t) PROVE GInv'
  <1> DEFINE r == [stage |-> "read", kind |-> "refresh", token |-> request[t].token,
                   version |-> version, now |-> clock, sent |-> request[t].sent]
  <1>1. /\ request'[t].sent = request[t].sent /\ request'[t].token = request[t].token
        /\ request'[t].now = clock /\ \A u \in Tabs \ {t} : request'[u] = request[u]
        /\ clock' = clock /\ sessions' = sessions
    <2>1. request \in [Tabs -> Requests]
      BY DEF GInv, IInv, AllKnown
    <2>2. /\ request' = [request EXCEPT ![t] = r] /\ r.sent = request[t].sent
          /\ r.token = request[t].token /\ r.now = clock
      BY <2>1 DEF Read
    <2> HIDE DEF r
    <2>3. request'[t] = r /\ \A u \in Tabs \ {t} : request'[u] = request[u]
      BY <2>2, RequestSet DEF GInv
    <2> QED
      BY <2>2, <2>3 DEF Read
  <1>2. clock \in Nat /\ Wait \in Nat
    BY SessionsAssumption DEF GInv, IInv
  <1>3. Heard(t)'
    <2>1. Heard(t)
      BY DEF GInv
    <2>2. request'[t].now <= clock' /\ clock' - request'[t].now <= Wait
      BY <1>1, <1>2
    <2> QED
      BY <1>1, <2>1, <2>2 DEF Heard
  <1>4. IInv'
    BY ReadStep DEF GInv
  <1> QED
    BY <1>1, <1>3, <1>4, NoSessionChanged, TabStep

LEMMA LogoutAges == ASSUME GInv, NEW t \in Tabs, Logout(t) PROVE GInv'
  <1>1. IInv' /\ Heard(t)' /\ (\A u \in Tabs \ {t} : request'[u] = request[u]) /\ clock' = clock
    BY LogoutStep, AnswerUnsent DEF GInv, Logout
  <1>2. request[t].token # None
    BY DEF Logout, GInv, IInv, AllKnown, Carries
  <1>3. SameTimes(sessions, sessions') /\ DOMAIN sessions' = DOMAIN sessions
    BY <1>2, OfRequest, EndedTimes DEF Logout, GInv
  <1> QED
    BY <1>1, <1>3, TabStep

LEMMA RestAges == ASSUME GInv, NEW t \in Tabs, Deliver(t) \/ Lose(t) PROVE GInv'
  <1>1. IInv' /\ Heard(t)' /\ (\A u \in Tabs \ {t} : request'[u] = request[u])
        /\ clock' = clock /\ sessions' = sessions
    BY RestStep, AnswerUnsent DEF GInv, Deliver, Lose
  <1> QED
    BY <1>1, NoSessionChanged, TabStep

LEMMA RevokeAges == ASSUME GInv, NEW n \in DOMAIN sessions, Revoke(n) PROVE GInv'
  <1>1. IInv' /\ request' = request /\ clock' = clock
    BY RevokeStep DEF GInv, Revoke
  <1>2. SameTimes(sessions, sessions') /\ DOMAIN sessions' = DOMAIN sessions
    BY EndedTimes DEF GInv, Revoke
  <1> QED
    BY <1>1, <1>2, TabsRest

LEMMA ExpireAges == ASSUME GInv, NEW n \in DOMAIN sessions, Expire(n) PROVE GInv'
  <1>1. IInv' /\ request' = request /\ clock' = clock
    BY ExpireStep DEF GInv, Expire
  <1> DEFINE s == [sessions[n] EXCEPT !.expired = @ + 1]
  <1>2. sessions' = [sessions EXCEPT ![n] = s]
    BY DEF Expire
  <1>3. s.tokens = sessions[n].tokens
    BY DEF GInv, IInv, AllKept, Typed, Session
  <1> HIDE DEF s
  <1>4. SameTimes(sessions, sessions') /\ DOMAIN sessions' = DOMAIN sessions
    BY <1>2, <1>3, OneTimed DEF GInv
  <1> QED
    BY <1>1, <1>4, TabsRest

LEMMA ChangeAges == ASSUME GInv, ChangeAccount PROVE GInv'
  <1>1. IInv' /\ request' = request /\ clock' = clock
    BY ChangeAccountStep DEF GInv, ChangeAccount
  <1>2. DOMAIN sessions' = DOMAIN sessions
    BY DEF ChangeAccount
  <1>3. SameTimes(sessions, sessions')
    <2>1. \A n \in DOMAIN sessions : Typed(sessions[n]) /\ sessions'[n] = Withdrawn(sessions[n])
      BY DEF GInv, IInv, AllKept, ChangeAccount
    <2> QED
      BY <1>2, <2>1, WithdrawnTimes DEF SameTimes
  <1> QED
    BY <1>1, <1>2, <1>3, TabsRest

LEMMA TickAges == ASSUME GInv, Tick PROVE GInv'
  <1>1. IInv' /\ UNCHANGED <<request, sessions>> /\ clock' = clock + 1 /\ clock \in Nat /\ Wait \in Nat
    BY TickStep, SessionsAssumption DEF GInv, IInv, Tick
  <1>2. ASSUME NEW t \in Tabs PROVE Heard(t)'
    <2>1. Heard(t) /\ (Waiting(t) => clock - request[t].now < Wait)
      BY DEF GInv, Tick
    <2>2. request[t].now \in Int /\ request[t].sent \in Int
      BY SessionsAssumption DEF GInv, IInv, AllKnown, Requests
    <2>3. Waiting(t)' => request'[t].now <= clock' /\ clock' - request'[t].now <= Wait
      BY <1>1, <2>1, <2>2 DEF Heard, Waiting
    <2>4. request[t].sent <= clock => request'[t].sent <= clock'
      BY <1>1, <2>2
    <2> QED
      BY <1>1, <2>1, <2>3, <2>4 DEF Heard
  <1> QED
    BY <1>1, <1>2 DEF GInv

(* A token is replaced at the time its request has read, which no wait for  *)
(* the locks makes too early.                                               *)
LEMMA RotateAges ==
  ASSUME GInv, IInv', NEW t \in Tabs, Exchange(t), Heard(t)',
         \A u \in Tabs \ {t} : request'[u] = request[u],
         Admitted(request[t]), Row(request[t].token).live,
         sessions' = [sessions EXCEPT ![request[t].token.sid] =
           Rotated(sessions[request[t].token.sid], request[t].token.index, request[t].now)]
  PROVE  GInv'
  <1> DEFINE q == request[t]
             n == q.token.sid
             s == sessions[n]
             i == q.token.index
             x == Rotated(s, i, q.now)
  <1>1. /\ q \in Requests /\ q.token # None /\ clock' = clock /\ Waiting(t) /\ Heard(t)
    BY DEF GInv, IInv, AllKnown, Carries, Exchange, Waiting
  <1>2. /\ n \in DOMAIN sessions /\ Typed(s) /\ Kept(s, version) /\ Aged(s) /\ i \in 1..Len(s.tokens)
        /\ s.tokens[i].live /\ DOMAIN sessions' = DOMAIN sessions
    BY <1>1, OfRequest DEF GInv, Row
  <1>3. i = Len(s.tokens) /\ Len(s.tokens) \in Nat \ {0} /\ q.now \in 0..MaxTime
    <2>1. i = Len(s.tokens)
      BY <1>2 DEF Kept
    <2>2. Len(s.tokens) \in Nat \ {0}
      BY <1>2, SessionsAssumption DEF Typed
    <2>3. q.now \in 0..MaxTime
      BY <1>1 DEF Requests
    <2> QED
      BY <2>1, <2>2, <2>3
  <1>4. q.now <= clock /\ clock - q.now <= Wait /\ clock \in Nat /\ Wait \in Nat
    <2>1. q.now <= clock /\ clock - q.now <= Wait
      BY <1>1 DEF Heard
    <2>2. clock \in Nat /\ Wait \in Nat
      BY SessionsAssumption DEF GInv, IInv
    <2> QED
      BY <2>1, <2>2
  <1>5. /\ Len(x.tokens) = Len(s.tokens) + 1 /\ x.tokens[Len(s.tokens) + 1].at = -1
        /\ \A k \in 1..Len(s.tokens) :
             /\ k = i => x.tokens[k].at = q.now
             /\ k # i => x.tokens[k].at = s.tokens[k].at
    <2>1. Typed(s) /\ i \in 1..Len(s.tokens) /\ q.now \in 0..MaxTime
      BY <1>2, <1>3
    <2> HIDE DEF s, i, q
    <2> QED
      BY <2>1, RotatedTimes
  <1>6. sessions' = [sessions EXCEPT ![n] = x]
    OBVIOUS
  <1> HIDE DEF x
  <1>7. sessions'[n] = x /\ \A m \in DOMAIN sessions : m # n => sessions'[m] = sessions[m]
    BY <1>2, <1>6
  <1>8. Aged(x)
    <2> SUFFICES ASSUME NEW k \in 1..(Len(s.tokens) + 1)
                 PROVE  x.tokens[k].at = -1 <=> k = Len(s.tokens) + 1
      BY <1>5 DEF Aged
    <2>1. CASE k = Len(s.tokens) + 1
      BY <1>5, <2>1
    <2>2. CASE k = i
      <3>1. k \in 1..Len(s.tokens) /\ k = Len(s.tokens) /\ q.now # -1
        BY <1>3, <2>2
      <3> QED
        BY <1>5, <2>2, <3>1
    <2>3. CASE k # i /\ k # Len(s.tokens) + 1
      <3>1. k \in 1..Len(s.tokens) /\ k # Len(s.tokens)
        BY <1>3, <2>3
      <3> QED
        BY <1>2, <1>5, <2>3, <3>1 DEF Aged
    <2> QED
      BY <2>1, <2>2, <2>3
  <1>9. ASSUME NEW u \in Tabs, u # t PROVE Heard(u)'
    <2> DEFINE p == request[u]
    <2>1. Heard(u) /\ request'[u] = p /\ p.sent \in Int
      <3>1. p \in Requests
        BY DEF GInv, IInv, AllKnown
      <3> QED
        BY <1>9, <3>1, SessionsAssumption DEF GInv, Requests
    <2>2. CASE p.sent = -1
      BY <1>1, <2>1, <2>2 DEF Heard, Waiting
    <2>3. CASE p.sent # -1 /\ p.token.sid # n
      <3>1. p.token # None
        BY <2>1, <2>3 DEF Heard
      <3>2. sessions'[p.token.sid] = sessions[p.token.sid]
        BY <1>7, <2>3, <3>1, OfRequest DEF GInv
      <3> QED
        BY <1>1, <2>1, <3>2, HeardOf
    <2>4. CASE p.sent # -1 /\ p.token.sid = n
      <3>1. p.token # None /\ p.sent <= clock
        BY <2>1, <2>4 DEF Heard
      <3>2. p.token.index \in 1..Len(s.tokens)
        BY <2>4, <3>1, OfRequest DEF GInv
      <3>3. q.now >= p.sent - Wait
        BY <1>3, <1>4, <2>1, <3>1
      <3>4. ASSUME NEW k \in p.token.index..Len(x.tokens)
            PROVE  x.tokens[k].at = -1 \/ x.tokens[k].at >= p.sent - Wait
        <4>1. CASE k = Len(s.tokens) + 1
          BY <1>5, <4>1
        <4>2. CASE k = i
          BY <1>2, <1>5, <3>3, <4>2
        <4>3. CASE k # i /\ k # Len(s.tokens) + 1
          <5>1. k \in p.token.index..Len(s.tokens) /\ k \in 1..Len(s.tokens)
            <6>1. k \in p.token.index..(Len(s.tokens) + 1)
              BY <1>5, <3>4
            <6> HIDE DEF s, p, i
            <6> QED
              BY <1>3, <3>2, <4>3, <6>1
          <5>2. s.tokens[k].at = -1 \/ s.tokens[k].at >= p.sent - Wait
            BY <2>1, <2>4, <5>1 DEF Heard
          <5> QED
            BY <1>5, <4>3, <5>1, <5>2
        <4> QED
          BY <4>1, <4>2, <4>3
      <3> QED
        <4>1. sessions'[p.token.sid] = x /\ (Waiting(u)' <=> Waiting(u)) /\ clock' = clock
          BY <1>1, <1>7, <2>1, <2>4 DEF Waiting
        <4> HIDE DEF s, n, i
        <4> QED
          BY <2>1, <3>1, <3>4, <4>1 DEF Heard
    <2> QED
      BY <2>2, <2>3, <2>4
  <1>10. \A m \in DOMAIN sessions' : Aged(sessions'[m])
    BY <1>2, <1>7, <1>8 DEF GInv
  <1> QED
    BY <1>9, <1>10 DEF GInv

LEMMA ExchangeAges == ASSUME GInv, NEW t \in Tabs, Exchange(t) PROVE GInv'
  <1>1. IInv' /\ clock' = clock
    BY ExchangeStep DEF GInv, Exchange
  <1>2. \E k : Answer(t, k)
    BY DEF Exchange
  <1>3. Heard(t)' /\ \A u \in Tabs \ {t} : request'[u] = request[u]
    BY <1>2, AnswerUnsent DEF GInv
  <1>4. request[t].token # None
    BY DEF Exchange, GInv, IInv, AllKnown, Carries
  <1>5. CASE sessions' = sessions
    BY <1>1, <1>3, <1>5, NoSessionChanged, TabStep
  <1>6. CASE /\ Admitted(request[t]) /\ Row(request[t].token).live
             /\ sessions' = [sessions EXCEPT ![request[t].token.sid] =
                  Rotated(sessions[request[t].token.sid], request[t].token.index, request[t].now)]
    BY <1>1, <1>3, <1>6, RotateAges
  <1>7. CASE sessions' = [sessions EXCEPT ![request[t].token.sid] =
                           Ended(sessions[request[t].token.sid])]
    <2>1. SameTimes(sessions, sessions') /\ DOMAIN sessions' = DOMAIN sessions
      BY <1>4, <1>7, OfRequest, EndedTimes DEF GInv
    <2> QED
      BY <1>1, <1>3, <2>1, TabStep
  <1> QED
    BY <1>5, <1>6, <1>7 DEF Exchange

LEMMA InitAges == Init => GInv
  <1> SUFFICES ASSUME Init PROVE GInv
    OBVIOUS
  <1>1. DOMAIN sessions = {}
    BY DEF Init
  <1>2. \A t \in Tabs : Heard(t)
    BY DEF Init, NoRequest, Heard, Waiting
  <1> QED
    BY <1>1, <1>2, InitIInv DEF GInv

LEMMA StepAges == GInv /\ [Next]_vars => GInv'
  <1> SUFFICES ASSUME GInv, [Next]_vars PROVE GInv'
    OBVIOUS
  <1>1. ASSUME NEW t \in Tabs,
               \/ Login(t) \/ Issue(t) \/ Leave(t, "refresh") \/ Leave(t, "logout") \/ Logout(t)
               \/ Read(t) \/ Exchange(t) \/ Deliver(t) \/ Lose(t)
        PROVE  GInv'
    BY <1>1, LoginAges, IssueAges, LeaveAges, LogoutAges, ReadAges, ExchangeAges, RestAges
  <1>2. ASSUME NEW n \in DOMAIN sessions, Revoke(n) \/ Expire(n) PROVE GInv'
    BY <1>2, RevokeAges, ExpireAges
  <1>3. CASE ChangeAccount \/ Tick
    BY <1>3, ChangeAges, TickAges
  <1>4. CASE UNCHANGED vars
    <2>1. IInv' /\ UNCHANGED <<clock, sessions, request>>
      BY <1>4, Step DEF GInv, vars
    <2> QED
      BY <2>1, NoSessionChanged, TabsRest
  <1> QED
    BY <1>1, <1>2, <1>3, <1>4 DEF Next

LEMMA AgesInvariant == Spec => []GInv
  BY InitAges, StepAges, PTL DEF Spec

(* Heard within the grace time, a used token leads to the one in use.       *)
LEMMA SuccessorFound ==
  ASSUME GInv, NEW t \in Tabs, request[t].token # None, InTime(request[t]),
         Admitted(request[t]), ~Row(request[t].token).live, Waiting(t)
  PROVE  Successors(sessions[request[t].token.sid], request[t].token.index, request[t].now) # {}
  <1> DEFINE q == request[t]
             s == sessions[q.token.sid]
             i == q.token.index
             j == Len(s.tokens)
  <1>1. /\ q \in Requests /\ Typed(s) /\ Kept(s, version) /\ Aged(s) /\ i \in 1..j
        /\ Heard(t) /\ s \in Session
    BY OfRequest DEF GInv, Typed
  <1>2. /\ j \in Nat \ {0} /\ q.now \in Int /\ q.sent \in Int /\ Wait \in Nat /\ Grace \in Nat
        /\ Hops \in Nat /\ DOMAIN s.tokens = 1..j /\ s.tokens \in Seq(TokenRow)
    <2>1. j \in Nat \ {0}
      BY <1>1, SessionsAssumption DEF Typed
    <2>2. s.tokens \in Seq(TokenRow)
      BY <1>1 DEF Session
    <2>3. q.now \in Int /\ q.sent \in Int
      BY <1>1, SessionsAssumption DEF Requests
    <2> QED
      BY <2>1, <2>2, <2>3, SessionsAssumption
  <1>3. /\ q.sent # -1 /\ q.now - q.sent + Wait <= Grace /\ j - i <= Hops
        /\ \A k \in 1..j : s.tokens[k].at <= q.now
    BY <1>2 DEF InTime, Last
  <1>4. s.tokens[j].live /\ (\A k \in 1..j : s.tokens[k].live <=> k = j) /\ i # j
    <2>1. ~s.revoked /\ s.version = version /\ ~s.tokens[i].live
      BY DEF Admitted, Row
    <2>2. \A k \in 1..j : s.tokens[k].live <=> k = j
      BY <1>1, <2>1 DEF Kept
    <2>3. j \in 1..j
      BY <1>2
    <2>4. s.tokens[j].live /\ i # j
      BY <1>1, <2>1, <2>2, <2>3
    <2> QED
      BY <2>2, <2>4
  <1>5. ASSUME NEW k \in i..(j - 1) PROVE Recent(s.tokens[k], q.now)
    <2>1. k \in 1..j /\ k # j /\ k \in i..j
      <3> HIDE DEF s, i, q, j
      <3> QED
        BY <1>1, <1>2, <1>5
    <2>2. ~s.tokens[k].live /\ s.tokens[k].at # -1 /\ s.tokens[k].at <= q.now
      BY <1>1, <1>3, <1>4, <2>1 DEF Aged
    <2>3. s.tokens[k].at >= q.sent - Wait
      BY <1>1, <1>3, <2>1, <2>2 DEF Heard
    <2>4. s.tokens[k].at \in Int
      <3>1. s.tokens[k] \in TokenRow
        BY <1>2, <2>1, ElementOfSeq
      <3> QED
        BY <3>1, SessionsAssumption DEF TokenRow
    <2>5. q.now - s.tokens[k].at <= Grace
      <3> DEFINE at == s.tokens[k].at
                 now == q.now
                 sent == q.sent
      <3>1. at >= sent - Wait /\ now - sent + Wait <= Grace /\ at \in Int /\ now \in Int /\ sent \in Int
        BY <1>2, <1>3, <2>3, <2>4
      <3> HIDE DEF at, now, sent
      <3>2. now - at <= Grace
        BY <1>2, <3>1
      <3> QED
        BY <3>2 DEF at, now
    <2> QED
      BY <2>2, <2>5 DEF Recent
  <1>6. j \in DOMAIN s.tokens /\ j \in (i + 1)..(i + Hops)
    <2> HIDE DEF s, q, i, j
    <2> QED
      BY <1>1, <1>2, <1>3, <1>4
  <1> HIDE DEF j
  <1>7. j \in Successors(s, i, q.now)
    BY <1>4, <1>5, <1>6 DEF Successors
  <1> QED
    BY <1>7

(* A tab that asks with a token that was good, and is heard within the grace*)
(* time, does not end the session, whatever the other tabs do meanwhile     *)
(* (exchange, findGracefulSuccessor).                                       *)
THEOREM GraceHoldsCorrect == Spec => GraceHolds
  <1> DEFINE NoneEnded ==
        \A t \in Tabs : Exchange(t) /\ InTime(request[t]) =>
          \A s \in DOMAIN sessions : sessions'[s].revoked = sessions[s].revoked
  <1>1. ASSUME GInv, [Next]_vars PROVE NoneEnded
    <2> SUFFICES ASSUME NEW t \in Tabs, Exchange(t), InTime(request[t]), NEW n \in DOMAIN sessions
                 PROVE  sessions'[n].revoked = sessions[n].revoked
      OBVIOUS
    <2> DEFINE q == request[t]
               s == sessions[q.token.sid]
               found == Successors(s, q.token.index, q.now)
    <2>1. q.token # None /\ Waiting(t) /\ q \in Requests
      BY <1>1 DEF Exchange, GInv, IInv, AllKnown, Carries, Waiting
    <2>2. q.token.sid \in DOMAIN sessions /\ Typed(s) /\ q.token.index \in 1..Len(s.tokens)
      BY <1>1, <2>1, OfRequest DEF GInv
    <2>3. CASE UNCHANGED sessions
      BY <2>3
    <2>4. CASE sessions' = [sessions EXCEPT ![q.token.sid] = Rotated(s, q.token.index, q.now)]
      <3>1. q.now \in 0..MaxTime
        BY <2>1 DEF Requests
      <3> HIDE DEF s, q
      <3>2. Rotated(s, q.token.index, q.now).revoked = s.revoked
        BY <2>2, <3>1, RotatedTimes
      <3> QED
        BY <2>2, <2>4, <3>2 DEF s
    <2>5. CASE Admitted(q) /\ ~Row(q.token).live /\ found = {}
      BY <1>1, <2>1, <2>5, SuccessorFound
    <2> HIDE DEF s, found
    <2> QED
      BY <2>3, <2>4, <2>5 DEF Exchange, s, found
  <1>2. SUFFICES Spec => [][NoneEnded]_vars
    BY DEF GraceHolds
  <1> HIDE DEF NoneEnded
  <1> QED
    BY <1>1, AgesInvariant, PTL DEF Spec
=============================================================================
