------------------------------ MODULE Sessions -------------------------------
(***************************************************************************)
(* Refresh-token sessions: the refresh_tokens rows in PostgreSQL and the   *)
(* auth requests that read and write them.  A handler keeps what it read   *)
(* across awaits; a step is one awaited database call with the synchronous *)
(* code around it, and requests interleave between any two steps.          *)
(*                                                                         *)
(* A token is a signed JWT over the session id, the second it was signed   *)
(* in and the second it expires, so it is identified with the session, the *)
(* second and its kind: two refresh tokens signed for one session in the   *)
(* same second are the same string.  Access and refresh tokens share the   *)
(* secret, the payload and verify(); they differ in how long they live.    *)
(* The row stores the hash of its current refresh token, here its second.  *)
(*                                                                         *)
(* A client is a cookie jar.  A request presents any token some client has *)
(* ever received: one that was copied, kept or replayed included.          *)
(***************************************************************************)
EXTENDS Naturals

CONSTANTS
    Users,
    SessionIds,
    Clients,
    Requests,
    Life,       \* 30 days, the life of a session and of a refresh JWT
    AccessLife, \* 15 minutes, the life of an access JWT
    MaxTime,    \* bound on the clock
    Faults      \* may a database call fail, or a response be lost?

ASSUME LifeAssumption == Life \in Nat \ {0} /\ AccessLife \in 0..Life
ASSUME FaultsAssumption == Faults \in BOOLEAN

VARIABLES
    now,        \* the clock, in seconds
    usable,     \* users that are active and not locked
    owner,      \* RefreshToken.userId, NoUser where there is no row yet
    born,       \* the second the row was created in: expiresAt - 30 days
    hash,       \* tokenHash
    reason,     \* revokedReason, Live while revokedAt is null
    cookie,     \* the refresh token in each client's jar
    req,        \* the local state of each handler
    \* History:
    issued,     \* tokens some client has received
    spent,      \* refresh tokens exchanged for a different one
    overwritten,\* sessions where an exchange replaced a token newer than its own
    astray      \* sessions whose answers crossed, went to others or were lost

rows == <<owner, born, hash, reason>>
past == <<issued, spent, overwritten, astray>>
vars == <<now, usable, rows, cookie, req, past>>

NoUser == "nobody"
ASSUME NoUserAssumption == NoUser \notin Users

Live == "live"
Reasons == {"USER_LOGOUT", "LOGOUT_ALL", "TOKEN_REUSE"}

Token == [session : SessionIds, iat : Nat, kind : {"refresh", "access"}]
Refresh(s, i) == [session |-> s, iat |-> i, kind |-> "refresh"]
Access(s, i) == [session |-> s, iat |-> i, kind |-> "access"]

\* The refresh token whose hash the row has.
Current(s) == Refresh(s, hash[s])

\* A jar without a refresh cookie.
NoToken == [kind |-> "none"]

Idle == [pc |-> "idle"]

\* jwt.verify refuses a token from its exp second on; it knows no kinds.
Verifies(t) == now < t.iat + (IF t.kind = "access" THEN AccessLife ELSE Life)

\* session.expiresAt < new Date()
Expired(s) == born[s] + Life < now

\* findActiveSession is findById; the callers look at revokedAt and expiresAt.
Open(s) == owner[s] # NoUser /\ reason[s] = Live /\ ~Expired(s)

Goto(r, local) == req' = [req EXCEPT ![r] = local]

-----------------------------------------------------------------------------
Init ==
    /\ now = 0
    /\ usable = Users
    /\ owner = [s \in SessionIds |-> NoUser]
    /\ born = [s \in SessionIds |-> 0]
    /\ hash = [s \in SessionIds |-> 0]
    /\ reason = [s \in SessionIds |-> Live]
    /\ cookie = [c \in Clients |-> NoToken]
    /\ req = [r \in Requests |-> Idle]
    /\ issued = {}
    /\ spent = {}
    /\ overwritten = {}
    /\ astray = {}

\* login up to createSession: account and password are fine.
StartLogin(r) ==
    /\ req[r] = Idle
    /\ \E u \in usable, c \in Clients :
        Goto(r, [pc |-> "login", client |-> c, user |-> u])
    /\ UNCHANGED <<now, usable, rows, cookie, past>>

\* createSession: a fresh id, tokens signed now, the row.
CreateSession(r) ==
    /\ req[r].pc = "login"
    /\ \E s \in SessionIds :
        /\ owner[s] = NoUser
        /\ owner' = [owner EXCEPT ![s] = req[r].user]
        /\ born' = [born EXCEPT ![s] = now]
        /\ hash' = [hash EXCEPT ![s] = now]
        /\ Goto(r, [pc |-> "respond", client |-> req[r].client, new |-> Refresh(s, now)])
    /\ UNCHANGED <<now, usable, reason, cookie, past>>

\* refreshSession, signature and row: the handler keeps the row it read.
\* Access tokens verify too and name their session.
StartRefresh(r) ==
    /\ req[r] = Idle
    /\ \E t \in issued, c \in Clients :
        /\ Verifies(t)
        /\ Open(t.session)
        /\ Goto(r, [pc |-> "user", client |-> c, token |-> t, stored |-> hash[t.session]])
    /\ UNCHANGED <<now, usable, rows, cookie, past>>

\* incomingHash !== session.tokenHash, of the row as it was read.
Mismatch(t, stored) == t # Refresh(t.session, stored)

\* refreshSession, user and reuse detection.  A refusal leaves the cookies.
ReadUser(r) ==
    /\ req[r].pc = "user"
    /\ LET t == req[r].token IN
       Goto(r, IF owner[t.session] \notin usable THEN Idle
               ELSE IF Mismatch(t, req[r].stored)
                    THEN [pc |-> "alarm", token |-> t]
                    ELSE [pc |-> "rotate", client |-> req[r].client, token |-> t,
                          new |-> Refresh(t.session, now)])
    /\ UNCHANGED <<now, usable, rows, cookie, past>>

\* revokeAllByUser: the rows of the user that are not revoked yet.
SweptAnyUser(u, why) ==
    [s \in SessionIds |-> IF reason[s] = Live THEN why ELSE reason[s]]
SweptOverwriting(u, why) ==
    [s \in SessionIds |-> IF owner[s] = u THEN why ELSE reason[s]]
SweptExpired(u, why) ==
    [s \in SessionIds |-> IF owner[s] = u /\ reason[s] = Live /\ Expired(s)
                          THEN why ELSE reason[s]]
Swept(u, why) ==
    [s \in SessionIds |-> IF owner[s] = u /\ reason[s] = Live THEN why ELSE reason[s]]

\* Reuse: every session of the user goes, and the client gets a 401.
RaiseAlarm(r) ==
    /\ req[r].pc = "alarm"
    /\ reason' = Swept(owner[req[r].token.session], "TOKEN_REUSE")
    /\ Goto(r, Idle)
    /\ UNCHANGED <<now, usable, owner, born, hash, cookie, past>>

\* updateTokenHash by id: the row's hash and revokedAt are not looked at.
ReasonAfterRotateReviving(s) == [reason EXCEPT ![s] = Live]
ReasonAfterRotate(s) == reason

HashAfterRotateLost(t) == hash
HashAfterRotate(t) == [hash EXCEPT ![t.session] = t.iat]

\* An answer with a token of session s is on its way.
Answering(s) == \E r \in Requests : req[r].pc = "respond" /\ req[r].new.session = s

Rotate(r) ==
    /\ req[r].pc = "rotate"
    /\ LET old == req[r].token
           new == req[r].new
       IN  /\ hash' = HashAfterRotate(new)
           /\ reason' = ReasonAfterRotate(old.session)
           /\ spent' = spent \cup ({old} \ {new})
           /\ overwritten' = IF old = Current(old.session) THEN overwritten
                             ELSE overwritten \cup {old.session}
           /\ astray' = IF old = cookie[req[r].client] /\ ~Answering(old.session)
                        THEN astray ELSE astray \cup {old.session}
           /\ Goto(r, [pc |-> "respond", client |-> req[r].client, new |-> new])
    /\ UNCHANGED <<now, usable, owner, born, cookie, issued>>

\* setAuthCookies: the answer overwrites what the jar has by now.
JarAfterKeeping(c, t) == IF cookie[c] = NoToken THEN [cookie EXCEPT ![c] = t] ELSE cookie
JarAfter(c, t) == [cookie EXCEPT ![c] = t]

\* The audit row is written and both cookies are set: login and refresh.
Respond(r) ==
    /\ req[r].pc = "respond"
    /\ LET t == req[r].new
       IN  /\ cookie' = JarAfter(req[r].client, t)
           /\ issued' = issued \cup {t, Access(t.session, t.iat)}
    /\ Goto(r, Idle)
    /\ UNCHANGED <<now, usable, rows, spent, overwritten, astray>>

\* logout accepts any token of the session, the current one or an old one.
\* Without one it accepts it changes no row and clears the cookies all the same.
StartLogout(r) ==
    /\ req[r] = Idle
    /\ \E c \in Clients :
        \/ \E t \in issued :
            /\ Verifies(t)
            /\ Open(t.session)
            /\ Goto(r, [pc |-> "logout", client |-> c, token |-> t])
        \/ Goto(r, [pc |-> "goodbye", client |-> c])
    /\ UNCHANGED <<now, usable, rows, cookie, past>>

\* revoke by id, whatever happened to the row since it was read.
RevokeSession(r) ==
    /\ req[r].pc = "logout"
    /\ reason' = [reason EXCEPT ![req[r].token.session] = "USER_LOGOUT"]
    /\ Goto(r, [pc |-> "goodbye", client |-> req[r].client])
    /\ UNCHANGED <<now, usable, owner, born, hash, cookie, past>>

\* logoutAll looks at the user only: a token of a revoked session will do.
\* What it does not accept ends as in StartLogout.
StartLogoutAll(r) ==
    /\ req[r] = Idle
    /\ \E t \in issued, c \in Clients :
        /\ Verifies(t)
        /\ owner[t.session] \in usable
        /\ Goto(r, [pc |-> "logoutAll", client |-> c, token |-> t])
    /\ UNCHANGED <<now, usable, rows, cookie, past>>

RevokeAll(r) ==
    /\ req[r].pc = "logoutAll"
    /\ reason' = Swept(owner[req[r].token.session], "LOGOUT_ALL")
    /\ Goto(r, [pc |-> "goodbye", client |-> req[r].client])
    /\ UNCHANGED <<now, usable, owner, born, hash, cookie, past>>

\* clearAuthCookies, of whatever the jar has by now.
ClearCookies(r) ==
    /\ req[r].pc = "goodbye"
    /\ cookie' = [cookie EXCEPT ![req[r].client] = NoToken]
    /\ Goto(r, Idle)
    /\ UNCHANGED <<now, usable, rows, past>>

\* A call that throws, or a response the client never sees.
Fail(r) ==
    /\ Faults
    /\ req[r] # Idle
    /\ astray' = IF req[r].pc = "respond" THEN astray \cup {req[r].new.session} ELSE astray
    /\ Goto(r, Idle)
    /\ UNCHANGED <<now, usable, rows, cookie, issued, spent, overwritten>>

\* An operator locks, disables or re-enables an account in the database.
SetUsable ==
    /\ \E u \in Users : usable' \in {usable \cup {u}, usable \ {u}}
    /\ UNCHANGED <<now, rows, cookie, req, past>>

Tick ==
    /\ now < MaxTime
    /\ now' = now + 1
    /\ UNCHANGED <<usable, rows, cookie, req, past>>

\* What an accepted request goes on to do by itself.
Progress(r) ==
    \/ CreateSession(r) \/ ReadUser(r) \/ RaiseAlarm(r) \/ Rotate(r)
    \/ Respond(r) \/ RevokeSession(r) \/ RevokeAll(r) \/ ClearCookies(r)

Next ==
    \/ \E r \in Requests :
        \/ StartLogin(r) \/ StartRefresh(r) \/ StartLogout(r) \/ StartLogoutAll(r)
        \/ Progress(r) \/ Fail(r)
    \/ SetUsable
    \/ Tick

Spec == Init /\ [][Next]_vars

\* The event loop resumes every handler whose await has settled.
FairSpec == Spec /\ \A r \in Requests : WF_vars(Progress(r))

-----------------------------------------------------------------------------
(* Properties                                                              *)

Local ==
    [pc : {"idle"}] \cup [pc : {"login"}, client : Clients, user : Users]
    \cup [pc : {"user"}, client : Clients, token : Token, stored : Nat]
    \cup [pc : {"alarm"}, token : Token]
    \cup [pc : {"logout", "logoutAll"}, client : Clients, token : Token]
    \cup [pc : {"rotate"}, client : Clients, token : Token, new : Token]
    \cup [pc : {"respond"}, client : Clients, new : Token]
    \cup [pc : {"goodbye"}, client : Clients]

\* Types; only rows that exist are ever revoked.
TypeOK ==
    /\ now \in Nat
    /\ usable \subseteq Users
    /\ owner \in [SessionIds -> Users \cup {NoUser}]
    /\ born \in [SessionIds -> Nat]
    /\ hash \in [SessionIds -> Nat]
    /\ reason \in [SessionIds -> Reasons \cup {Live}]
    /\ \A s \in SessionIds : reason[s] # Live => owner[s] # NoUser
    /\ cookie \in [Clients -> Token \cup {NoToken}]
    /\ req \in [Requests -> Local]
    /\ issued \subseteq Token
    /\ spent \subseteq Token
    /\ overwritten \subseteq SessionIds
    /\ astray \subseteq SessionIds

\* A revoked session never becomes live again, not even through a rotation
\* that read the row before it was revoked (logout racing a refresh).
RevocationIsFinal ==
    [][\A s \in SessionIds : reason[s] # Live => reason'[s] # Live]_vars

\* Why a session was revoked is recorded once and for all: no sweep overwrites
\* it, and no logout but one of that very session that found it open before it
\* was revoked and writes by id afterwards.
ReasonIsKept ==
    [][ \A s \in SessionIds :
          reason[s] # Live /\ reason'[s] # reason[s] =>
            \E r \in Requests :
                /\ req[r].pc = "logout" /\ req[r].token.session = s
                /\ req'[r] # req[r] /\ reason'[s] = "USER_LOGOUT" ]_vars

\* A session ends only through a request that presented a token some client
\* received for a session of the same user: a logout for that very session, a
\* sweep (alarm or log-out-everywhere) for any of them.
EndedByItsUser ==
    [][ \A s \in SessionIds :
          reason[s] = Live /\ reason'[s] # Live =>
            \E r \in Requests :
                /\ req[r].pc \in {"logout", "logoutAll", "alarm"}
                /\ req'[r] # req[r]
                /\ req[r].token \in issued
                /\ owner[req[r].token.session] = owner[s]
                /\ reason'[s] = "USER_LOGOUT" => req[r].token.session = s ]_vars

\* The refresh token in a client's jar is the current one of its session, or the
\* current one is on its way into that jar: a client is left with a dead token
\* only when somebody else exchanged its token, when two answers of its session
\* crossed, or when an answer was lost.  Other requests of the client and other
\* clients' replays, logouts and sweeps never bring that about.
LockoutHasCause ==
    \A c \in Clients :
        cookie[c] # NoToken /\ cookie[c].session \notin astray =>
            LET current == Current(cookie[c].session) IN
            \/ cookie[c] = current
            \/ \E r \in Requests :
                req[r].pc = "respond" /\ req[r].client = c /\ req[r].new = current

\* Reuse detection goes off for a token that was exchanged before, for an access
\* token (the same secret, payload and verify(), so that it passes for a refresh
\* token up to the comparison of hashes), or in a session where an overlapping
\* exchange has overwritten a newer token: nothing else makes an honest token
\* look replayed, not a failure, not a lost answer, not a clock second shared.
AlarmHasCause ==
    \A r \in Requests : req[r].pc = "alarm" =>
        LET t == req[r].token IN
        t \in spent \/ t.kind = "access" \/ t.session \in overwritten

\* "The old token is immediately invalidated": an exchanged token is not the
\* current one again, unless an overlapping exchange has overwritten a newer one.
SpentIsDead == \A t \in spent : t = Current(t.session) => t.session \in overwritten

\* "Single-use token exchanges": a token that was exchanged for another one is
\* not exchanged again.
SingleUse ==
    [][ \A r \in Requests :
          req[r].pc = "rotate" /\ req'[r].pc = "respond" => req[r].token \notin spent ]_vars

\* Once reuse detection has gone off it costs the user every session there is at
\* that moment, whatever the other requests do in the meantime.
ReplayIsPunished ==
    \A s \in SessionIds :
        (\E r \in Requests : req[r].pc = "alarm" /\ owner[s] = owner[req[r].token.session])
            ~> reason[s] # Live
=============================================================================
