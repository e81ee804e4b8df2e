------------------------------ MODULE Sessions ------------------------------
(***************************************************************************)
(* The sign-in sessions of one person in one browser.  Its tabs share a    *)
(* cookie with the refresh token, and each has at most one request on its  *)
(* way (api.ts).  A refresh token is used once; its successor is computed  *)
(* from it, so that a request which comes with a used token can be given   *)
(* the one in use now, within a grace time and a number of steps.  A used  *)
(* token that comes outside them ends the session.                         *)
(*                                                                         *)
(* The tokens of a session are numbered along the chain.  Requests read    *)
(* the account and the clock before the transaction that locks account and *)
(* session, so both may have changed by then.                              *)
(***************************************************************************)
EXTENDS Integers, Sequences

CONSTANTS
  Tabs,
  Grace,          \* how long a used token is answered
  Hops,           \* how far along the chain (5)
  Wait,           \* the longest wait for the locks
  \* Bounds of the model.
  MaxTime,        \* readings of the clock
  MaxSessions,
  MaxTokens,      \* of one session
  MaxChanges      \* passwords changed, or all devices signed out

ASSUME SessionsAssumption ==
  /\ Grace \in Nat /\ Wait \in Nat /\ Hops \in Nat \ {0} /\ MaxTime \in Nat
  /\ MaxSessions \in Nat /\ MaxTokens \in Nat \ {0} /\ MaxChanges \in Nat

VARIABLES
  clock,
  version,        \* the token version of the account
  sessions,       \* in the order they were made
  cookie,         \* the refresh token in the browser, if any
  request         \* each tab: what it has on its way

vars == <<clock, version, sessions, cookie, request>>

Token == [sid : 1..MaxSessions, index : 1..MaxTokens]
None == [sid |-> 0, index |-> 0]

(* at is when the token was replaced, -1 if it never was.                   *)
TokenRow == [live : BOOLEAN, at : -1..MaxTime]
Session == [version : 0..MaxChanges, revoked : BOOLEAN, tokens : Seq(TokenRow),
            expired : 0..MaxTokens]

(* version and now are what it has read; sent is when it left, -1 unless its *)
(* token was good then.                                                      *)
NoRequest ==
  [stage |-> "idle", kind |-> "refresh", token |-> None, version |-> 0, now |-> 0, sent |-> -1]

TypeOK ==
  /\ clock \in 0..MaxTime /\ version \in 0..MaxChanges
  /\ sessions \in Seq(Session) /\ Len(sessions) <= MaxSessions
  /\ \A s \in DOMAIN sessions :
       /\ Len(sessions[s].tokens) \in 1..MaxTokens
       /\ sessions[s].expired <= Len(sessions[s].tokens)
  /\ cookie \in Token \cup {None}
  /\ request \in [Tabs -> [stage : {"idle", "sent", "read", "answered"},
                           kind : {"refresh", "login", "logout"}, token : Token \cup {None},
                           version : 0..MaxChanges, now : 0..MaxTime, sent : -1..MaxTime]]
  /\ \A k \in {cookie} \cup {request[t].token : t \in Tabs} : k # None =>
       k.sid \in DOMAIN sessions /\ k.index \in DOMAIN sessions[k.sid].tokens

Init ==
  /\ clock = 0 /\ version = 0 /\ sessions = <<>> /\ cookie = None
  /\ request = [t \in Tabs |-> NoRequest]

NewToken == [live |-> TRUE, at |-> -1]
Row(k) == sessions[k.sid].tokens[k.index]
Last(s) == Len(s.tokens)

Idle(t) == request' = [request EXCEPT ![t] = NoRequest]

(* The answer sets the cookie, or takes it away.                            *)
Answer(t, k) ==
  request' = [request EXCEPT ![t] =
    [stage |-> "answered", kind |-> "refresh", token |-> k, version |-> 0, now |-> 0, sent |-> -1]]

(* No token of s is good any more.                                          *)
Withdrawn(s) ==
  [s EXCEPT !.tokens = [i \in DOMAIN s.tokens |-> [s.tokens[i] EXCEPT !.live = FALSE]]]
Ended(s) == [Withdrawn(s) EXCEPT !.revoked = TRUE]

-----------------------------------------------------------------------------
(* Signing in and out. *)

(* The password is compared with the account as it was read.                *)
Login(t) ==
  /\ request[t].stage = "idle"
  /\ request' = [request EXCEPT ![t] =
       [stage |-> "read", kind |-> "login", token |-> None, version |-> version, now |-> 0,
        sent |-> -1]]
  /\ UNCHANGED <<clock, version, sessions, cookie>>

BugMayIssue(t) == Len(sessions) < MaxSessions
MayIssue(t) == Len(sessions) < MaxSessions /\ request[t].version = version

Issue(t) ==
  /\ request[t].stage = "read" /\ request[t].kind = "login"
  /\ IF MayIssue(t)
     THEN /\ sessions' = Append(sessions, [version |-> request[t].version, revoked |-> FALSE,
                                           tokens |-> <<NewToken>>, expired |-> 0])
          /\ Answer(t, [sid |-> Len(sessions) + 1, index |-> 1])
     ELSE Idle(t) /\ UNCHANGED sessions
  /\ UNCHANGED <<clock, version, cookie>>

(* A request takes the cookie along as it is when it leaves.                *)
Leave(t, kind) ==
  /\ request[t].stage = "idle" /\ cookie # None
  /\ request' = [request EXCEPT ![t] =
       [stage |-> "sent", kind |-> kind, token |-> cookie, version |-> 0, now |-> 0,
        sent |-> IF Row(cookie).live THEN clock ELSE -1]]
  /\ UNCHANGED <<clock, version, sessions, cookie>>

Logout(t) ==
  /\ request[t].stage = "sent" /\ request[t].kind = "logout"
  /\ sessions' = [sessions EXCEPT ![request[t].token.sid] = Ended(@)]
  /\ Answer(t, None)
  /\ UNCHANGED <<clock, version, cookie>>

(* From the list of devices.                                                *)
Revoke(s) ==
  /\ ~sessions[s].revoked
  /\ sessions' = [sessions EXCEPT ![s] = Ended(@)]
  /\ UNCHANGED <<clock, version, cookie, request>>

(* A new password, or all devices signed out, here or elsewhere.            *)
ChangeAccount ==
  /\ version < MaxChanges /\ version' = version + 1
  /\ sessions' = [s \in DOMAIN sessions |-> Withdrawn(sessions[s])]
  /\ cookie' \in {cookie, None}
  /\ UNCHANGED <<clock, request>>

-----------------------------------------------------------------------------
(* Refreshing. *)

Read(t) ==
  /\ request[t].stage = "sent" /\ request[t].kind = "refresh"
  /\ request' = [request EXCEPT ![t] =
       [stage |-> "read", kind |-> "refresh", token |-> @.token, version |-> version,
        now |-> clock, sent |-> @.sent]]
  /\ UNCHANGED <<clock, version, sessions, cookie>>

(* The session and the token are as the request takes them to be.           *)
Admitted(q) ==
  LET s == sessions[q.token.sid] IN
  /\ q.version = version /\ s.version = version /\ ~s.revoked
  /\ s.expired < Last(s) /\ q.token.index > s.expired

BugReplaced(now) == [live |-> TRUE, at |-> now]
Replaced(now) == [live |-> FALSE, at |-> now]

Rotated(s, i, now) ==
  [s EXCEPT !.tokens = Append([s.tokens EXCEPT ![i] = Replaced(now)], NewToken)]

(* It was replaced, and not too long ago, nor after the request was read.   *)
Recent(row, now) == ~row.live /\ row.at # -1 /\ row.at <= now /\ now - row.at <= Grace

BugSuccessors(s, i, now) == {j \in DOMAIN s.tokens : j = i + 1 /\ s.tokens[j].live /\ Recent(s.tokens[i], now)}
Successors(s, i, now) ==
  {j \in DOMAIN s.tokens :
     /\ j \in (i + 1)..(i + Hops) /\ s.tokens[j].live
     /\ \A k \in i..(j - 1) : Recent(s.tokens[k], now)}

(* One transaction.                                                         *)
Exchange(t) ==
  LET q == request[t]
      n == q.token.sid
      s == sessions[n]
      i == q.token.index
      found == Successors(s, i, q.now)
  IN
  /\ q.stage = "read" /\ q.kind = "refresh"
  /\ \/ ~Admitted(q) /\ Answer(t, None) /\ UNCHANGED sessions
     \/ /\ Admitted(q) /\ Row(q.token).live /\ Last(s) < MaxTokens
        /\ sessions' = [sessions EXCEPT ![n] = Rotated(s, i, q.now)]
        /\ Answer(t, [sid |-> n, index |-> i + 1])
     \/ /\ Admitted(q) /\ ~Row(q.token).live
        /\ \E j \in found : Answer(t, [sid |-> n, index |-> j])
        /\ UNCHANGED sessions
     \/ /\ Admitted(q) /\ ~Row(q.token).live /\ found = {}
        /\ sessions' = [sessions EXCEPT ![n] = Ended(s)]
        /\ Answer(t, None)
  /\ UNCHANGED <<clock, version, cookie>>

-----------------------------------------------------------------------------
(* The surroundings. *)

Deliver(t) ==
  /\ request[t].stage = "answered"
  /\ cookie' = request[t].token /\ Idle(t)
  /\ UNCHANGED <<clock, version, sessions>>

(* A request or an answer is lost, and the tab may ask again.               *)
Lose(t) ==
  /\ request[t].stage \in {"sent", "answered"} /\ Idle(t)
  /\ UNCHANGED <<clock, version, sessions, cookie>>

Waiting(t) == request[t].stage = "read" /\ request[t].kind = "refresh"
Tick ==
  /\ clock < MaxTime /\ clock' = clock + 1
  /\ \A t \in Tabs : Waiting(t) => clock - request[t].now < Wait
  /\ UNCHANGED <<version, sessions, cookie, request>>

(* Tokens expire in order, and the session with its last.                   *)
Expire(s) ==
  /\ sessions[s].expired < Last(sessions[s])
  /\ sessions' = [sessions EXCEPT ![s].expired = @ + 1]
  /\ UNCHANGED <<clock, version, cookie, request>>

Next ==
  \/ \E t \in Tabs :
       \/ Login(t) \/ Issue(t) \/ Leave(t, "refresh") \/ Leave(t, "logout") \/ Logout(t)
       \/ Read(t) \/ Exchange(t) \/ Deliver(t) \/ Lose(t)
  \/ \E s \in DOMAIN sessions : Revoke(s) \/ Expire(s)
  \/ ChangeAccount \/ Tick

Spec == Init /\ [][Next]_vars
-----------------------------------------------------------------------------
(* Properties. *)

Good(s) == ~s.revoked /\ s.version = version

(* However many tabs refresh at once, a session that is not over has one    *)
(* token that is good, its last: no tab is left with a token of its own, and*)
(* none takes the last one away from the others (exchange).                 *)
Renewable ==
  \A s \in DOMAIN sessions : Good(sessions[s]) =>
    \A i \in DOMAIN sessions[s].tokens : sessions[s].tokens[i].live <=> i = Last(sessions[s])

(* Nothing that was on its way when a session was ended, or the password    *)
(* changed, leaves a token that is good behind (create, exchange, revoke).  *)
StaysOut ==
  \A s \in DOMAIN sessions : ~Good(sessions[s]) =>
    \A i \in DOMAIN sessions[s].tokens : ~sessions[s].tokens[i].live

(* A tab that asks with a good token and is heard within the grace time, of *)
(* which a wait for the locks is taken off, does not end the session,       *)
(* whatever the other tabs do meanwhile.  They must not have renewed it     *)
(* more than Hops times, nor with a later time than its own: a request that *)
(* reads the clock first and gets the locks second counts as a reuse        *)
(* (auth-session.repository.ts:137).                                        *)
InTime(q) ==
  LET s == sessions[q.token.sid] IN
  /\ q.sent # -1 /\ q.now - q.sent + Wait <= Grace /\ Last(s) - q.token.index <= Hops
  /\ \A i \in DOMAIN s.tokens : s.tokens[i].at <= q.now
GraceHolds ==
  [][\A t \in Tabs : Exchange(t) /\ InTime(request[t]) =>
       \A s \in DOMAIN sessions : sessions'[s].revoked = sessions[s].revoked]_vars
=============================================================================
