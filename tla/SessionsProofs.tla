--------------------------- MODULE SessionsProofs ----------------------------
(***************************************************************************)
(* Theorems about Sessions, for every set of users, sessions, clients and  *)
(* handlers, every life time and every bound on the clock.                 *)
(***************************************************************************)
EXTENDS Sessions, TLAPS

(* What a handler's local state q says of the tokens issued and the rows:  *)
(* what it presents was received by a client, what it will deliver is a    *)
(* refresh token of an existing row, and a rotation stays within its       *)
(* session.                                                                *)
HandlerOK(q, toks, own) ==
    /\ q.pc \in {"user", "alarm", "rotate", "logout", "logoutAll"} => q.token \in toks
    /\ q.pc = "respond" => own[q.new.session] # NoUser
    /\ q.pc = "rotate" => q.new.session = q.token.session /\ q.token.kind = "refresh"
    /\ q.pc \in {"rotate", "respond"} => q.new.kind = "refresh"

Handlers == \A r \in Requests : HandlerOK(req[r], issued, owner)

TokensKnown == \A t \in issued : owner[t.session] # NoUser

CookiesIssued == \A c \in Clients : cookie[c] # NoToken => cookie[c] \in issued

\* TypeOK is not inductive alone: that a sweep revokes existing rows only is
\* known from the token the handler presents.
Typed == TypeOK /\ TokensKnown /\ CookiesIssued /\ Handlers

(* The shape of a local state, by its program counter. *)
LEMMA LocalShape ==
    ASSUME NEW q \in Local
    PROVE  /\ q.pc \in {"idle", "login", "user", "alarm", "logout", "logoutAll",
                        "rotate", "respond", "goodbye"}
           /\ q.pc = "idle" => q = Idle
           /\ q.pc = "login" => q.user \in Users
           /\ q.pc = "user" => q.token \in Token /\ q.stored \in Nat
           /\ q.pc \in {"alarm", "logout", "logoutAll", "rotate"} => q.token \in Token
           /\ q.pc \in {"rotate", "respond"} => q.new \in Token
           /\ q.pc \in {"login", "user", "rotate", "respond", "logout", "logoutAll",
                        "goodbye"} => q.client \in Clients
  BY DEF Local, Idle

LEMMA TypedInit == Init => Typed
  <1> SUFFICES ASSUME Init PROVE Typed
    OBVIOUS
  <1>1. TypeOK
    BY LifeAssumption DEF Init, TypeOK, Idle, Local
  <1>2. TokensKnown /\ CookiesIssued /\ Handlers
    BY DEF Init, TokensKnown, CookiesIssued, Handlers, HandlerOK, Idle
  <1> QED
    BY <1>1, <1>2 DEF Typed

LEMMA RefreshToken ==
    ASSUME NEW s \in SessionIds, NEW i \in Nat
    PROVE  /\ Refresh(s, i) \in Token /\ Access(s, i) \in Token
           /\ Refresh(s, i).session = s /\ Refresh(s, i).iat = i
           /\ Refresh(s, i).kind = "refresh"
           /\ Access(s, i).session = s /\ Access(s, i).kind = "access"
  BY DEF Refresh, Access, Token

\* A refresh token is its session and its second.
LEMMA TokenIs ==
    ASSUME NEW t \in Token, t.kind = "refresh"
    PROVE  t = Refresh(t.session, t.iat) /\ t.session \in SessionIds /\ t.iat \in Nat
  BY DEF Refresh, Token

LEMMA NoTokenIsNone == NoToken \notin Token
  BY DEF NoToken, Token

(* A step gives one handler a new local state; the rows and tokens that    *)
(* exist go on existing, so what the other handlers know stays true.       *)
LEMMA OthersKeep ==
    ASSUME Typed, NEW r \in Requests, NEW q \in Local,
           req' = [req EXCEPT ![r] = q],
           issued \subseteq issued',
           \A s \in SessionIds : owner[s] # NoUser => owner'[s] # NoUser,
           HandlerOK(q, issued', owner')
    PROVE  req' \in [Requests -> Local] /\ Handlers'
  <1>1. req' \in [Requests -> Local]
    BY DEF Typed, TypeOK
  <1>2. ASSUME NEW p \in Requests PROVE HandlerOK(req'[p], issued', owner')
    <2>1. CASE p = r
      BY <2>1 DEF Typed, TypeOK
    <2>2. CASE p # r
      <3>1. req'[p] = req[p] /\ req[p] \in Local /\ HandlerOK(req[p], issued, owner)
        BY <2>2 DEF Typed, TypeOK, Handlers
      <3>2. req[p].pc = "respond" => req[p].new.session \in SessionIds
        BY <3>1, LocalShape DEF Token
      <3> QED
        BY <3>1, <3>2 DEF HandlerOK
    <2> QED
      BY <2>1, <2>2
  <1> QED
    BY <1>1, <1>2 DEF Handlers

(* A handler moves on, and revokes at most rows that exist. *)
LEMMA OneHandler ==
    ASSUME Typed, NEW r \in Requests, NEW q \in Local,
           req' = [req EXCEPT ![r] = q],
           HandlerOK(q, issued, owner),
           UNCHANGED <<now, usable, owner, born, hash, cookie, issued, spent, overwritten>>,
           astray' \subseteq SessionIds,
           reason' \in [SessionIds -> Reasons \cup {Live}],
           \A s \in SessionIds : reason'[s] # Live => owner[s] # NoUser
    PROVE  Typed'
  <1>1. req' \in [Requests -> Local] /\ Handlers'
    BY OthersKeep
  <1>2. TypeOK'
    BY <1>1 DEF Typed, TypeOK
  <1>3. TokensKnown' /\ CookiesIssued'
    BY DEF Typed, TokensKnown, CookiesIssued
  <1> QED
    BY <1>1, <1>2, <1>3 DEF Typed

(* A step that changes handlers only. *)
LEMMA HandlerOnly ==
    ASSUME Typed, NEW r \in Requests, NEW q \in Local,
           req' = [req EXCEPT ![r] = q],
           HandlerOK(q, issued, owner),
           UNCHANGED <<now, usable, rows, cookie, past>>
    PROVE  Typed'
  <1>1. UNCHANGED <<now, usable, owner, born, hash, reason, cookie, issued, spent,
                    overwritten, astray>>
    BY DEF rows, past
  <1>2. /\ astray' \subseteq SessionIds
        /\ reason' \in [SessionIds -> Reasons \cup {Live}]
        /\ \A s \in SessionIds : reason'[s] # Live => owner[s] # NoUser
    BY <1>1 DEF Typed, TypeOK
  <1> QED
    BY <1>1, <1>2, OneHandler

(* The token a handler presents is the token of an existing row. *)
LEMMA PresentedToken ==
    ASSUME Typed, NEW r \in Requests,
           req[r].pc \in {"user", "alarm", "rotate", "logout", "logoutAll"}
    PROVE  /\ req[r].token \in Token /\ req[r].token \in issued
           /\ req[r].token.session \in SessionIds
           /\ owner[req[r].token.session] \in Users
  <1>1. req[r] \in Local /\ HandlerOK(req[r], issued, owner)
    BY DEF Typed, TypeOK, Handlers
  <1>2. req[r].token \in issued
    BY <1>1 DEF HandlerOK
  <1>3. req[r].token \in Token
    BY <1>2 DEF Typed, TypeOK
  <1>4. owner[req[r].token.session] # NoUser
    BY <1>2 DEF Typed, TokensKnown
  <1> QED
    BY <1>2, <1>3, <1>4 DEF Typed, TypeOK, Token

(* Every state this handler can be in when it is about to act. *)
LEMMA HandlerType ==
    ASSUME Typed, NEW r \in Requests
    PROVE  req[r] \in Local /\ HandlerOK(req[r], issued, owner)
  BY DEF Typed, TypeOK, Handlers

LEMMA IdleIsLocal == Idle \in Local /\ \A toks, own : HandlerOK(Idle, toks, own)
  BY DEF Idle, Local, HandlerOK

LEMMA GoodbyeIsLocal ==
    ASSUME NEW c \in Clients
    PROVE  /\ [pc |-> "goodbye", client |-> c] \in Local
           /\ \A toks, own : HandlerOK([pc |-> "goodbye", client |-> c], toks, own)
  BY DEF Local, HandlerOK

(* The three outcomes of ReadUser. *)
LEMMA UserRead ==
    ASSUME Typed, NEW r \in Requests, ReadUser(r)
    PROVE  LET t == req[r].token
               q == [pc |-> "rotate", client |-> req[r].client, token |-> t,
                     new |-> Refresh(t.session, now)]
           IN  \/ req' = [req EXCEPT ![r] = Idle]
               \/ /\ Mismatch(t, req[r].stored)
                  /\ req' = [req EXCEPT ![r] = [pc |-> "alarm", token |-> t]]
               \/ /\ t.kind = "refresh" /\ t.iat = req[r].stored
                  /\ q \in Local
                  /\ req' = [req EXCEPT ![r] = q]
  <1> DEFINE t == req[r].token
             q == [pc |-> "rotate", client |-> req[r].client, token |-> t,
                   new |-> Refresh(t.session, now)]
  <1>1. t \in Token /\ t.session \in SessionIds
    BY PresentedToken DEF ReadUser
  <1>2. Refresh(t.session, now) \in Token /\ req[r].client \in Clients
    BY <1>1, RefreshToken, HandlerType, LocalShape DEF Typed, TypeOK, ReadUser
  <1>3. q \in Local
    BY <1>1, <1>2 DEF Local
  <1>4. ~Mismatch(t, req[r].stored) => t.kind = "refresh" /\ t.iat = req[r].stored
    BY <1>1 DEF Mismatch, Refresh, Token
  <1> QED
    BY <1>3, <1>4 DEF ReadUser, Goto

LEMMA ReadUserTyped ==
    ASSUME Typed, NEW r \in Requests, ReadUser(r)
    PROVE  Typed'
  <1> DEFINE t == req[r].token
             q == [pc |-> "rotate", client |-> req[r].client, token |-> t,
                   new |-> Refresh(t.session, now)]
             a == [pc |-> "alarm", token |-> t]
  <1>1. t \in Token /\ t \in issued /\ t.session \in SessionIds
    BY PresentedToken DEF ReadUser
  <1>2. UNCHANGED <<now, usable, rows, cookie, past>>
    BY DEF ReadUser
  <1>3. CASE req' = [req EXCEPT ![r] = Idle]
    BY <1>2, <1>3, IdleIsLocal, HandlerOnly
  <1>4. CASE req' = [req EXCEPT ![r] = a]
    <2>1. a \in Local /\ HandlerOK(a, issued, owner)
      BY <1>1 DEF Local, HandlerOK
    <2> HIDE DEF a
    <2> QED
      BY <1>2, <1>4, <2>1, HandlerOnly
  <1>5. CASE t.kind = "refresh" /\ q \in Local /\ req' = [req EXCEPT ![r] = q]
    <2>1. HandlerOK(q, issued, owner)
      BY <1>1, <1>5, RefreshToken DEF HandlerOK, Typed, TypeOK
    <2> HIDE DEF q
    <2> QED
      BY <1>2, <1>5, <2>1, HandlerOnly
  <1> QED
    BY <1>3, <1>4, <1>5, UserRead

(* The requests that present a token a client received, or none. *)
LEMMA PresentTyped ==
    ASSUME Typed, NEW r \in Requests,
           StartRefresh(r) \/ StartLogout(r) \/ StartLogoutAll(r)
    PROVE  Typed'
  <1>1. UNCHANGED <<now, usable, rows, cookie, past>>
    BY DEF StartRefresh, StartLogout, StartLogoutAll
  <1>2. ASSUME NEW t \in issued, NEW c \in Clients,
               Goto(r, [pc |-> "user", client |-> c, token |-> t, stored |-> hash[t.session]])
        PROVE  Typed'
    <2> DEFINE q == [pc |-> "user", client |-> c, token |-> t, stored |-> hash[t.session]]
    <2>1. t \in Token /\ hash[t.session] \in Nat
      BY DEF Typed, TypeOK, Token
    <2>2. q \in Local /\ HandlerOK(q, issued, owner)
      BY <2>1 DEF Local, HandlerOK
    <2> QED
      BY <1>1, <1>2, <2>2, HandlerOnly DEF Goto
  <1>3. ASSUME NEW t \in issued, NEW c \in Clients, NEW pc \in {"logout", "logoutAll"},
               Goto(r, [pc |-> pc, client |-> c, token |-> t])
        PROVE  Typed'
    <2> DEFINE q == [pc |-> pc, client |-> c, token |-> t]
    <2>1. t \in Token
      BY DEF Typed, TypeOK
    <2>2. q \in Local /\ HandlerOK(q, issued, owner)
      BY <2>1 DEF Local, HandlerOK
    <2> QED
      BY <1>1, <1>3, <2>2, HandlerOnly DEF Goto
  <1>4. ASSUME NEW c \in Clients, Goto(r, [pc |-> "goodbye", client |-> c])
        PROVE  Typed'
    BY <1>1, <1>4, GoodbyeIsLocal, HandlerOnly DEF Goto
  <1> QED
    BY <1>2, <1>3, <1>4 DEF StartRefresh, StartLogout, StartLogoutAll

(* What a new row is, and what stays beside it. *)
LEMMA Created ==
    ASSUME Typed, NEW r \in Requests, CreateSession(r)
    PROVE  \E s \in SessionIds :
             LET q == [pc |-> "respond", client |-> req[r].client, new |-> Refresh(s, now)]
             IN  /\ owner[s] = NoUser /\ owner'[s] # NoUser
                 /\ \A p \in SessionIds : p # s => owner'[p] = owner[p] /\ hash'[p] = hash[p]
                 /\ hash'[s] = now
                 /\ owner' \in [SessionIds -> Users \cup {NoUser}]
                 /\ born' \in [SessionIds -> Nat] /\ hash' \in [SessionIds -> Nat]
                 /\ q \in Local
                 /\ req' = [req EXCEPT ![r] = q]
  <1>1. PICK s \in SessionIds :
          /\ owner[s] = NoUser
          /\ owner' = [owner EXCEPT ![s] = req[r].user]
          /\ born' = [born EXCEPT ![s] = now]
          /\ hash' = [hash EXCEPT ![s] = now]
          /\ Goto(r, [pc |-> "respond", client |-> req[r].client, new |-> Refresh(s, now)])
    BY DEF CreateSession
  <1>2. req[r].user \in Users /\ req[r].user # NoUser /\ req[r].client \in Clients
    BY HandlerType, LocalShape, NoUserAssumption DEF CreateSession
  <1>3. Refresh(s, now) \in Token
    BY RefreshToken DEF Typed, TypeOK
  <1>4. [pc |-> "respond", client |-> req[r].client, new |-> Refresh(s, now)] \in Local
    BY <1>2, <1>3 DEF Local
  <1>5. owner'[s] # NoUser /\ hash'[s] = now
        /\ \A p \in SessionIds : p # s => owner'[p] = owner[p] /\ hash'[p] = hash[p]
    BY <1>1, <1>2 DEF Typed, TypeOK
  <1>6. /\ owner' \in [SessionIds -> Users \cup {NoUser}]
        /\ born' \in [SessionIds -> Nat] /\ hash' \in [SessionIds -> Nat]
    BY <1>1, <1>2 DEF Typed, TypeOK
  <1> QED
    BY <1>1, <1>4, <1>5, <1>6 DEF Goto

LEMMA CreateSessionTyped ==
    ASSUME Typed, NEW r \in Requests, CreateSession(r)
    PROVE  Typed'
  <1> DEFINE q(s) == [pc |-> "respond", client |-> req[r].client, new |-> Refresh(s, now)]
  <1>1. PICK s \in SessionIds :
          /\ owner[s] = NoUser /\ owner'[s] # NoUser
          /\ \A p \in SessionIds : p # s => owner'[p] = owner[p]
          /\ owner' \in [SessionIds -> Users \cup {NoUser}]
          /\ born' \in [SessionIds -> Nat] /\ hash' \in [SessionIds -> Nat]
          /\ q(s) \in Local
          /\ req' = [req EXCEPT ![r] = q(s)]
    BY Created
  <1>2. UNCHANGED <<now, usable, reason, cookie, issued, spent, overwritten, astray>>
    BY DEF CreateSession, past
  <1>3. \A p \in SessionIds : owner[p] # NoUser => owner'[p] # NoUser
    BY <1>1
  <1>4. HandlerOK(q(s), issued', owner')
    BY <1>1, RefreshToken DEF HandlerOK, Typed, TypeOK
  <1>5. req' \in [Requests -> Local] /\ Handlers'
    <2> HIDE DEF q
    <2> QED
      BY <1>1, <1>2, <1>3, <1>4, OthersKeep
  <1>6. TokensKnown' /\ CookiesIssued'
    BY <1>2, <1>3 DEF Typed, TypeOK, TokensKnown, CookiesIssued, Token
  <1>7. TypeOK'
    BY <1>1, <1>2, <1>3, <1>5 DEF Typed, TypeOK
  <1> QED
    BY <1>5, <1>6, <1>7 DEF Typed

(* What a rotation writes. *)
LEMMA Rotated ==
    ASSUME Typed, NEW r \in Requests, Rotate(r)
    PROVE  LET old == req[r].token
               new == req[r].new
               q == [pc |-> "respond", client |-> req[r].client, new |-> new]
           IN  /\ old \in Token /\ new \in Token /\ old \in issued
               /\ old.kind = "refresh" /\ new.kind = "refresh" /\ new.session = old.session
               /\ new.session \in SessionIds /\ new.iat \in Nat /\ old.iat \in Nat
               /\ owner[new.session] # NoUser
               /\ hash' = [hash EXCEPT ![new.session] = new.iat]
               /\ hash' \in [SessionIds -> Nat]
               /\ spent' = spent \cup ({old} \ {new})
               /\ UNCHANGED <<now, usable, owner, born, reason, cookie, issued>>
               /\ q \in Local /\ req' = [req EXCEPT ![r] = q]
               /\ req[r].client \in Clients
  <1> DEFINE old == req[r].token
             new == req[r].new
  <1>1. /\ old \in Token /\ new \in Token /\ old \in issued /\ owner[old.session] # NoUser
        /\ req[r].client \in Clients
    BY HandlerType, LocalShape, PresentedToken, NoUserAssumption DEF Rotate
  <1>2. old.kind = "refresh" /\ new.kind = "refresh" /\ new.session = old.session
    BY HandlerType DEF Rotate, HandlerOK
  <1>3. new.session \in SessionIds /\ new.iat \in Nat /\ old.iat \in Nat
    BY <1>1 DEF Token
  <1>4. hash' = [hash EXCEPT ![new.session] = new.iat]
    BY DEF Rotate, HashAfterRotate
  <1>5. hash' \in [SessionIds -> Nat]
    BY <1>3, <1>4 DEF Typed, TypeOK
  <1>6. [pc |-> "respond", client |-> req[r].client, new |-> new] \in Local
    BY <1>1 DEF Local
  <1>7. req' = [req EXCEPT ![r] = [pc |-> "respond", client |-> req[r].client, new |-> new]]
    BY DEF Rotate, Goto
  <1>8. UNCHANGED <<now, usable, owner, born, reason, cookie, issued>>
        /\ spent' = spent \cup ({old} \ {new})
    BY DEF Rotate, ReasonAfterRotate
  <1> QED
    BY <1>1, <1>2, <1>3, <1>4, <1>5, <1>6, <1>7, <1>8

LEMMA RotateTyped ==
    ASSUME Typed, NEW r \in Requests, Rotate(r)
    PROVE  Typed'
  <1> DEFINE q == [pc |-> "respond", client |-> req[r].client, new |-> req[r].new]
  <1>1. HandlerOK(q, issued', owner')
    BY Rotated DEF HandlerOK
  <1>2. q \in Local /\ req' = [req EXCEPT ![r] = q] /\ UNCHANGED <<issued, owner>>
    BY Rotated
  <1>3. req' \in [Requests -> Local] /\ Handlers'
    <2> HIDE DEF q
    <2> QED
      BY <1>1, <1>2, OthersKeep
  <1>4. overwritten' \subseteq SessionIds /\ astray' \subseteq SessionIds
    <2>1. req[r].token.session \in SessionIds
      BY PresentedToken DEF Rotate
    <2>2. overwritten' \in {overwritten, overwritten \cup {req[r].token.session}}
      BY DEF Rotate
    <2>3. astray' \in {astray, astray \cup {req[r].token.session}}
      BY DEF Rotate
    <2> QED
      BY <2>1, <2>2, <2>3 DEF Typed, TypeOK
  <1>5. spent' \subseteq Token
    BY Rotated DEF Typed, TypeOK
  <1>6. hash' \in [SessionIds -> Nat]
        /\ UNCHANGED <<now, usable, owner, born, reason, cookie, issued>>
    BY Rotated
  <1> QED
    BY <1>3, <1>4, <1>5, <1>6 DEF Typed, TypeOK, TokensKnown, CookiesIssued

(* What an answer leaves behind. *)
LEMMA Responded ==
    ASSUME Typed, NEW r \in Requests, Respond(r)
    PROVE  LET t == req[r].new
           IN  /\ t \in Token /\ t.kind = "refresh" /\ owner[t.session] # NoUser
               /\ t.session \in SessionIds /\ t.iat \in Nat
               /\ Access(t.session, t.iat) \in Token
               /\ req[r].client \in Clients
               /\ cookie' = [cookie EXCEPT ![req[r].client] = t]
               /\ issued' = issued \cup {t, Access(t.session, t.iat)}
               /\ req' = [req EXCEPT ![r] = Idle]
               /\ UNCHANGED <<now, usable, owner, born, hash, reason, spent, overwritten, astray>>
  <1> DEFINE t == req[r].new
  <1>1. /\ t \in Token /\ t.kind = "refresh" /\ owner[t.session] # NoUser
        /\ req[r].client \in Clients
    BY HandlerType, LocalShape DEF Respond, HandlerOK
  <1>2. t.session \in SessionIds /\ t.iat \in Nat
    BY <1>1 DEF Token
  <1>3. Access(t.session, t.iat) \in Token
    BY <1>2, RefreshToken
  <1> QED
    BY <1>1, <1>2, <1>3 DEF Respond, JarAfter, Goto, rows

LEMMA RespondTyped ==
    ASSUME Typed, NEW r \in Requests, Respond(r)
    PROVE  Typed'
  <1> DEFINE t == req[r].new
             a == Access(t.session, t.iat)
  <1>1. a.session = t.session
    BY DEF Access
  <1>2. req' \in [Requests -> Local] /\ Handlers'
    BY Responded, IdleIsLocal, OthersKeep
  <1>3. TokensKnown'
    <2>1. t.session \in SessionIds /\ owner[t.session] # NoUser
          /\ issued' = issued \cup {t, a} /\ owner' = owner
      BY Responded
    <2> HIDE DEF t, a
    <2> QED
      BY <1>1, <2>1 DEF Typed, TokensKnown
  <1>4. CookiesIssued'
    <2>1. cookie' = [cookie EXCEPT ![req[r].client] = t] /\ issued \cup {t} \subseteq issued'
      BY Responded
    <2> QED
      BY <2>1 DEF Typed, TypeOK, CookiesIssued
  <1>5. cookie' \in [Clients -> Token \cup {NoToken}] /\ issued' \subseteq Token
    BY Responded DEF Typed, TypeOK
  <1>6. UNCHANGED <<now, usable, owner, born, hash, reason, spent, overwritten, astray>>
    BY Responded
  <1> QED
    BY <1>2, <1>3, <1>4, <1>5, <1>6 DEF Typed, TypeOK

LEMMA ClearCookiesTyped ==
    ASSUME Typed, NEW r \in Requests, ClearCookies(r)
    PROVE  Typed'
  <1>1. UNCHANGED <<now, usable, owner, born, hash, reason, issued, spent, overwritten, astray>>
    BY DEF ClearCookies, rows, past
  <1>2. req' \in [Requests -> Local] /\ Handlers'
    BY <1>1, IdleIsLocal, OthersKeep DEF ClearCookies, Goto
  <1>3. cookie' \in [Clients -> Token \cup {NoToken}] /\ CookiesIssued'
    BY <1>1 DEF ClearCookies, Typed, TypeOK, CookiesIssued
  <1> QED
    BY <1>1, <1>2, <1>3 DEF Typed, TypeOK, TokensKnown

LEMMA RevokeTyped ==
    ASSUME Typed, NEW r \in Requests, RaiseAlarm(r) \/ RevokeAll(r) \/ RevokeSession(r)
    PROVE  Typed'
  <1>1. /\ req[r].token.session \in SessionIds
        /\ owner[req[r].token.session] # NoUser
    BY PresentedToken, NoUserAssumption DEF RaiseAlarm, RevokeAll, RevokeSession
  <1>2. /\ reason' \in [SessionIds -> Reasons \cup {Live}]
        /\ \A s \in SessionIds : reason'[s] # Live => owner[s] # NoUser
    <2>1. CASE RevokeSession(r)
      BY <1>1, <2>1 DEF RevokeSession, Typed, TypeOK, Reasons
    <2>2. CASE RaiseAlarm(r) \/ RevokeAll(r)
      <3>1. PICK why \in Reasons : reason' = Swept(owner[req[r].token.session], why)
        BY <2>2 DEF RaiseAlarm, RevokeAll, Reasons
      <3> QED
        BY <1>1, <3>1 DEF Swept, Typed, TypeOK
    <2> QED
      BY <2>1, <2>2
  <1>3. UNCHANGED <<now, usable, owner, born, hash, cookie, issued, spent, overwritten, astray>>
    BY DEF RaiseAlarm, RevokeAll, RevokeSession, past
  <1>4. astray' \subseteq SessionIds
    BY <1>3 DEF Typed, TypeOK
  <1>5. CASE req' = [req EXCEPT ![r] = Idle]
    BY <1>2, <1>3, <1>4, <1>5, IdleIsLocal, OneHandler
  <1>6. CASE req' = [req EXCEPT ![r] = [pc |-> "goodbye", client |-> req[r].client]]
            /\ req[r].client \in Clients
    BY <1>2, <1>3, <1>4, <1>6, GoodbyeIsLocal, OneHandler
  <1> QED
    BY <1>5, <1>6, HandlerType, LocalShape DEF RaiseAlarm, RevokeAll, RevokeSession, Goto

LEMMA FailTyped ==
    ASSUME Typed, NEW r \in Requests, Fail(r)
    PROVE  Typed'
  <1>1. UNCHANGED <<now, usable, owner, born, hash, reason, cookie, issued, spent, overwritten>>
    BY DEF Fail, rows
  <1>2. req[r].pc = "respond" => req[r].new.session \in SessionIds
    BY HandlerType, LocalShape DEF Token
  <1>3. astray' \subseteq SessionIds
    BY <1>2 DEF Fail, Typed, TypeOK
  <1>4. /\ reason' \in [SessionIds -> Reasons \cup {Live}]
        /\ \A s \in SessionIds : reason'[s] # Live => owner[s] # NoUser
    BY <1>1 DEF Typed, TypeOK
  <1> QED
    BY <1>1, <1>3, <1>4, IdleIsLocal, OneHandler DEF Fail, Goto

LEMMA TypedNext == Typed /\ [Next]_vars => Typed'
  <1> SUFFICES ASSUME Typed, [Next]_vars PROVE Typed'
    OBVIOUS
  <1>1. ASSUME NEW r \in Requests, StartLogin(r) PROVE Typed'
    <2>1. PICK u \in usable, c \in Clients : Goto(r, [pc |-> "login", client |-> c, user |-> u])
      BY <1>1 DEF StartLogin
    <2> DEFINE q == [pc |-> "login", client |-> c, user |-> u]
    <2>2. q \in Local /\ HandlerOK(q, issued, owner)
      BY DEF Typed, TypeOK, Local, HandlerOK
    <2> QED
      BY <1>1, <2>1, <2>2, HandlerOnly DEF StartLogin, Goto
  <1>2. ASSUME NEW r \in Requests, Progress(r) PROVE Typed'
    BY <1>2, CreateSessionTyped, ReadUserTyped, RevokeTyped, RotateTyped, RespondTyped,
       ClearCookiesTyped DEF Progress
  <1>3. CASE SetUsable \/ Tick \/ UNCHANGED vars
    <2>1. UNCHANGED <<owner, born, hash, reason, cookie, req, issued, spent, overwritten, astray>>
          /\ now' \in Nat /\ usable' \subseteq Users
      BY <1>3 DEF SetUsable, Tick, vars, rows, past, Typed, TypeOK
    <2> QED
      BY <2>1 DEF Typed, TypeOK, TokensKnown, CookiesIssued, Handlers
  <1> QED
    BY <1>1, <1>2, <1>3, PresentTyped, FailTyped DEF Next

LEMMA TypedAlways == Spec => []Typed
  BY TypedInit, TypedNext, PTL DEF Spec

(* The rows, the tokens, the jars and the handlers of auth.service.ts have *)
(* the types the module gives them, and only existing rows are ever        *)
(* revoked.                                                                *)
THEOREM TypeCorrect == Spec => []TypeOK
  <1>1. Typed => TypeOK
    BY DEF Typed
  <1> QED
    BY <1>1, TypedAlways, PTL

-----------------------------------------------------------------------------
(* Revocation: any number of overlapping requests, any failures.           *)

LEMMA RevokedStaysRevoked ==
    ASSUME Typed, [Next]_vars, NEW s \in SessionIds, reason[s] # Live
    PROVE  reason'[s] # Live
  <1>1. ASSUME UNCHANGED reason PROVE reason'[s] # Live
    BY <1>1
  <1>2. ASSUME NEW r \in Requests, RaiseAlarm(r) \/ RevokeAll(r) PROVE reason'[s] # Live
    BY <1>2 DEF RaiseAlarm, RevokeAll, Swept
  <1>3. ASSUME NEW r \in Requests, RevokeSession(r) PROVE reason'[s] # Live
    BY <1>3 DEF RevokeSession, Typed, TypeOK, Live
  <1>4. CASE \E r \in Requests : Progress(r)
    BY <1>1, <1>2, <1>3, <1>4
       DEF Progress, CreateSession, ReadUser, Rotate, ReasonAfterRotate, Respond,
           ClearCookies, rows
  <1> QED
    BY <1>1, <1>4 DEF Next, vars, rows, StartLogin, StartRefresh, StartLogout,
                      StartLogoutAll, Fail, SetUsable, Tick

(* No interleaving of refreshes, logouts and sweeps brings a revoked       *)
(* session back: updateTokenHash leaves revokedAt alone.                   *)
THEOREM RevokedForGood == Spec => RevocationIsFinal
  <1>1. Typed /\ [Next]_vars
          => [\A s \in SessionIds : reason[s] # Live => reason'[s] # Live]_vars
    BY RevokedStaysRevoked
  <1> QED
    BY <1>1, TypedAlways, PTL DEF Spec, RevocationIsFinal

\* r's step is the one that ends session s.
EndedBy(r, s) ==
    /\ req[r].pc \in {"logout", "logoutAll", "alarm"}
    /\ req'[r] # req[r]
    /\ req[r].token \in issued
    /\ owner[req[r].token.session] = owner[s]
    /\ reason'[s] = "USER_LOGOUT" => req[r].token.session = s

LEMMA SomebodyEndsIt ==
    ASSUME Typed, [Next]_vars, NEW s \in SessionIds, reason[s] = Live, reason'[s] # Live
    PROVE  \E r \in Requests : EndedBy(r, s)
  <1>1. reason' # reason
    OBVIOUS
  <1>2. PICK r \in Requests : RaiseAlarm(r) \/ RevokeAll(r) \/ RevokeSession(r)
    BY <1>1 DEF Next, Progress, vars, rows, StartLogin, StartRefresh, StartLogout,
                StartLogoutAll, Fail, SetUsable, Tick, CreateSession, ReadUser, Rotate,
                ReasonAfterRotate, Respond, ClearCookies
  <1>3. req[r].pc \in {"logout", "logoutAll", "alarm"} /\ req'[r].pc \in {"idle", "goodbye"}
    BY <1>2 DEF RaiseAlarm, RevokeAll, RevokeSession, Goto, Idle, Typed, TypeOK
  <1>4. req[r].token \in issued /\ req'[r] # req[r]
    BY <1>3, PresentedToken
  <1>5. CASE RevokeSession(r)
    <2>1. req[r].token.session = s
      BY <1>5 DEF RevokeSession, Typed, TypeOK
    <2> QED
      BY <1>3, <1>4, <2>1 DEF EndedBy
  <1>6. CASE RaiseAlarm(r) \/ RevokeAll(r)
    <2>1. owner[req[r].token.session] = owner[s] /\ reason'[s] # "USER_LOGOUT"
      BY <1>6 DEF RaiseAlarm, RevokeAll, Swept
    <2> QED
      BY <1>3, <1>4, <2>1 DEF EndedBy
  <1> QED
    BY <1>2, <1>5, <1>6

(* A session is ended only by a request that presents a token received for *)
(* a session of the same user.                                             *)
THEOREM OnlyItsUserEndsASession == Spec => EndedByItsUser
  <1>1. Typed /\ [Next]_vars
          => [\A s \in SessionIds :
                reason[s] = Live /\ reason'[s] # Live => \E r \in Requests : EndedBy(r, s)]_vars
    BY SomebodyEndsIt
  <1> QED
    BY <1>1, TypedAlways, PTL DEF Spec, EndedByItsUser, EndedBy

\* r's step overwrites why s was revoked.
Overwrites(r, s) ==
    /\ req[r].pc = "logout" /\ req[r].token.session = s
    /\ req'[r] # req[r] /\ reason'[s] = "USER_LOGOUT"

LEMMA OnlyLogoutOverwrites ==
    ASSUME Typed, [Next]_vars, NEW s \in SessionIds, reason[s] # Live, reason'[s] # reason[s]
    PROVE  \E r \in Requests : Overwrites(r, s)
  <1>1. reason' # reason
    OBVIOUS
  <1>2. PICK r \in Requests : RaiseAlarm(r) \/ RevokeAll(r) \/ RevokeSession(r)
    BY <1>1 DEF Next, Progress, vars, rows, StartLogin, StartRefresh, StartLogout,
                StartLogoutAll, Fail, SetUsable, Tick, CreateSession, ReadUser, Rotate,
                ReasonAfterRotate, Respond, ClearCookies
  <1>3. CASE RaiseAlarm(r) \/ RevokeAll(r)
    BY <1>3 DEF RaiseAlarm, RevokeAll, Swept
  <1>4. CASE RevokeSession(r)
    <2>1. req[r].pc = "logout" /\ req'[r].pc = "goodbye"
      BY <1>4 DEF RevokeSession, Goto, Typed, TypeOK
    <2>2. req[r].token.session = s /\ reason'[s] = "USER_LOGOUT"
      BY <1>4 DEF RevokeSession, Typed, TypeOK
    <2>3. req'[r] # req[r]
      BY <2>1
    <2> QED
      BY <2>1, <2>2, <2>3 DEF Overwrites
  <1> QED
    BY <1>2, <1>3, <1>4

(* The reason of a revocation is overwritten by no sweep, and by no logout  *)
(* but one of that session that was under way when it was revoked.          *)
THEOREM ReasonsAreKept == Spec => ReasonIsKept
  <1>1. Typed /\ [Next]_vars
          => [\A s \in SessionIds :
                reason[s] # Live /\ reason'[s] # reason[s]
                  => \E r \in Requests : Overwrites(r, s)]_vars
    BY OnlyLogoutOverwrites
  <1> QED
    BY <1>1, TypedAlways, PTL DEF Spec, ReasonIsKept, Overwrites

-----------------------------------------------------------------------------
(* Lockouts: any number of overlapping requests, any failures.             *)

\* Handler r is about to answer with a token of s.
Answers(r, s) == req[r].pc = "respond" /\ req[r].new.session = s

Holds(c, s) == cookie[c] # NoToken /\ cookie[c].session = s

\* What a session is like that has not gone astray: one answer at most is on
\* its way and carries the current token; one jar at most has a token of the
\* session, the one the answer goes to, and it is current or about to be.
InHand(s) ==
    /\ \A r \in Requests : Answers(r, s) => req[r].new = Current(s)
    /\ \A r, p \in Requests : Answers(r, s) /\ Answers(p, s) => r = p
    /\ \A r \in Requests : \A c \in Clients :
          Answers(r, s) /\ Holds(c, s) => req[r].client = c
    /\ \A b, c \in Clients : Holds(b, s) /\ Holds(c, s) => b = c
    /\ \A c \in Clients :
          Holds(c, s) => cookie[c] = Current(s) \/ \E r \in Requests : Answers(r, s)

HandsInv == \A s \in SessionIds : s \notin astray => InHand(s)

(* Steps that leave answers, jars and the hash of s alone. *)
LEMMA InHandKept ==
    ASSUME NEW s \in SessionIds, InHand(s), hash'[s] = hash[s], cookie' = cookie,
           \A r \in Requests : Answers(r, s)' => Answers(r, s) /\ req'[r] = req[r],
           \A r \in Requests : Answers(r, s) => Answers(r, s)'
    PROVE  InHand(s)'
  <1>1. Current(s)' = Current(s)
    BY DEF Current, Refresh
  <1>2. \A c \in Clients : Holds(c, s)' <=> Holds(c, s)
    BY DEF Holds
  <1> QED
    BY <1>1, <1>2 DEF InHand

(* A handler moves that neither was nor is about to answer. *)
LEMMA InHandOtherwise ==
    ASSUME Typed, NEW s \in SessionIds, InHand(s), hash'[s] = hash[s], cookie' = cookie,
           NEW r \in Requests, NEW q, req' = [req EXCEPT ![r] = q],
           ~Answers(r, s), q.pc = "respond" => q.new.session # s
    PROVE  InHand(s)'
  <1>1. \A p \in Requests : req'[p] = IF p = r THEN q ELSE req[p]
    BY DEF Typed, TypeOK
  <1>2. \A p \in Requests : Answers(p, s)' => Answers(p, s) /\ req'[p] = req[p]
    BY <1>1 DEF Answers
  <1>3. \A p \in Requests : Answers(p, s) => Answers(p, s)'
    BY <1>1 DEF Answers
  <1> QED
    BY <1>2, <1>3, InHandKept

LEMMA InHandCreate ==
    ASSUME Typed, NEW s \in SessionIds, InHand(s), NEW r \in Requests, CreateSession(r)
    PROVE  InHand(s)'
  <1> DEFINE q(p) == [pc |-> "respond", client |-> req[r].client, new |-> Refresh(p, now)]
  <1>1. PICK p \in SessionIds :
          /\ owner[p] = NoUser
          /\ \A o \in SessionIds : o # p => hash'[o] = hash[o]
          /\ hash'[p] = now
          /\ req' = [req EXCEPT ![r] = q(p)]
    BY Created
  <1>2. cookie' = cookie /\ req[r].pc = "login"
    BY DEF CreateSession
  <1>3. q(p).pc = "respond" /\ q(p).new = Refresh(p, now) /\ q(p).new.session = p
    BY DEF Refresh
  <1>4. CASE p # s
    <2>1. ~Answers(r, s) /\ (q(p).pc = "respond" => q(p).new.session # s)
      BY <1>2, <1>3, <1>4 DEF Answers
    <2> HIDE DEF q
    <2> QED
      BY <1>1, <1>2, <1>4, <2>1, InHandOtherwise
  <1>5. CASE p = s
    <2>1. ASSUME NEW o \in Requests PROVE ~Answers(o, s)
      BY <1>1, <1>5, HandlerType DEF Answers, HandlerOK
    <2>2. ASSUME NEW c \in Clients PROVE ~Holds(c, s)
      <3>1. CookiesIssued /\ TokensKnown
        BY DEF Typed
      <3> QED
        BY <1>1, <1>5, <3>1 DEF Holds, CookiesIssued, TokensKnown
    <2>3. \A o \in Requests : req'[o] = IF o = r THEN q(p) ELSE req[o]
      BY <1>1 DEF Typed, TypeOK
    <2>4. \A o \in Requests : Answers(o, s)' => o = r
      BY <2>1, <2>3 DEF Answers
    <2>5. \A c \in Clients : ~Holds(c, s)'
      BY <1>2, <2>2 DEF Holds
    <2>6. req'[r].new = Current(s)'
      BY <1>1, <1>3, <1>5, <2>3 DEF Current
    <2> QED
      BY <2>4, <2>5, <2>6 DEF InHand
  <1> QED
    BY <1>4, <1>5

LEMMA InHandRotate ==
    ASSUME Typed, NEW s \in SessionIds, s \notin astray', InHand(s),
           NEW r \in Requests, Rotate(r)
    PROVE  InHand(s)'
  <1> DEFINE old == req[r].token
             new == req[r].new
             c == req[r].client
             q == [pc |-> "respond", client |-> c, new |-> new]
  <1>1. /\ old \in Token /\ new \in Token /\ new.kind = "refresh" /\ new.session = old.session
        /\ new.session \in SessionIds
        /\ hash' = [hash EXCEPT ![new.session] = new.iat] /\ cookie' = cookie
        /\ req' = [req EXCEPT ![r] = q] /\ c \in Clients
    BY Rotated
  <1>2. req[r].pc = "rotate"
    BY DEF Rotate
  <1>3. \A o \in Requests : req'[o] = IF o = r THEN q ELSE req[o]
    BY <1>1 DEF Typed, TypeOK
  <1>4. CASE new.session # s
    <2>1. hash'[s] = hash[s]
      BY <1>1, <1>4 DEF Typed, TypeOK
    <2>2. ~Answers(r, s) /\ (q.pc = "respond" => q.new.session # s)
      BY <1>2, <1>4 DEF Answers
    <2> HIDE DEF q
    <2> QED
      BY <1>1, <2>1, <2>2, InHandOtherwise
  <1>5. CASE new.session = s
    <2>1. old = cookie[c] /\ \A o \in Requests : ~Answers(o, s)
      BY <1>1, <1>5 DEF Rotate, Answering, Answers
    <2>2. Holds(c, s)
      BY <1>1, <1>5, <2>1, NoTokenIsNone DEF Holds
    <2>3. \A b \in Clients : Holds(b, s)' => b = c
      BY <1>1, <2>2 DEF InHand, Holds
    <2>4. \A o \in Requests : Answers(o, s)' => o = r
      BY <1>3, <2>1 DEF Answers
    <2>5. new = Current(s)'
      BY <1>1, <1>5, TokenIs DEF Current, Typed, TypeOK
    <2>6. Answers(r, s)' /\ req'[r].new = new /\ req'[r].client = c
      BY <1>3, <1>5 DEF Answers
    <2> QED
      BY <2>3, <2>4, <2>5, <2>6 DEF InHand
  <1> QED
    BY <1>4, <1>5

LEMMA InHandRespond ==
    ASSUME Typed, NEW s \in SessionIds, InHand(s), NEW r \in Requests, Respond(r)
    PROVE  InHand(s)'
  <1> DEFINE t == req[r].new
             c == req[r].client
  <1>1. /\ t \in Token /\ c \in Clients /\ cookie' = [cookie EXCEPT ![c] = t]
        /\ req' = [req EXCEPT ![r] = Idle] /\ hash' = hash
    BY Responded
  <1>2. req[r].pc = "respond" /\ Idle.pc = "idle" /\ t # NoToken
    BY <1>1, NoTokenIsNone DEF Respond, Idle
  <1>3. \A o \in Requests : req'[o] = IF o = r THEN Idle ELSE req[o]
    BY <1>1 DEF Typed, TypeOK
  <1>4. \A b \in Clients : cookie'[b] = IF b = c THEN t ELSE cookie[b]
    BY <1>1 DEF Typed, TypeOK
  <1>5. Current(s)' = Current(s)
    BY <1>1 DEF Current
  <1>6. \A o \in Requests : Answers(o, s)' <=> o # r /\ Answers(o, s)
    BY <1>2, <1>3 DEF Answers
  <1>7. \A o \in Requests : Answers(o, s)' => req'[o] = req[o]
    BY <1>3, <1>6
  <1>8. CASE t.session = s
    <2>1. Answers(r, s) /\ t = Current(s)
      BY <1>2, <1>8 DEF Answers, InHand
    <2>2. \A o \in Requests : ~Answers(o, s)'
      BY <1>6, <2>1 DEF InHand
    <2>3. \A b \in Clients : Holds(b, s)' => b = c
      BY <1>4, <2>1 DEF InHand, Holds
    <2>4. cookie'[c] = Current(s)'
      BY <1>1, <1>4, <1>5, <2>1
    <2> QED
      BY <2>2, <2>3, <2>4 DEF InHand
  <1>9. CASE t.session # s
    <2>1. ~Answers(r, s)
      BY <1>9 DEF Answers
    <2>2. \A b \in Clients : Holds(b, s)' => Holds(b, s) /\ cookie'[b] = cookie[b]
      BY <1>4, <1>9 DEF Holds
    <2>3. \A o \in Requests : Answers(o, s) => Answers(o, s)'
      BY <1>6, <2>1
    <2> QED
      BY <1>5, <1>6, <1>7, <2>2, <2>3 DEF InHand
  <1> QED
    BY <1>8, <1>9

LEMMA InHandClear ==
    ASSUME Typed, NEW s \in SessionIds, InHand(s), NEW r \in Requests, ClearCookies(r)
    PROVE  InHand(s)'
  <1>1. /\ req[r].pc = "goodbye" /\ Idle.pc = "idle" /\ hash' = hash
        /\ \A o \in Requests : req'[o] = IF o = r THEN Idle ELSE req[o]
    BY DEF ClearCookies, Goto, Idle, Typed, TypeOK, rows
  <1>2. \A b \in Clients : cookie'[b] = cookie[b] \/ cookie'[b] = NoToken
    BY DEF ClearCookies, Typed, TypeOK
  <1>3. \A b \in Clients : Holds(b, s)' => Holds(b, s) /\ cookie'[b] = cookie[b]
    BY <1>2 DEF Holds
  <1>4. \A o \in Requests : (Answers(o, s)' <=> Answers(o, s))
                            /\ (Answers(o, s)' => req'[o] = req[o])
    BY <1>1 DEF Answers
  <1>5. Current(s)' = Current(s)
    BY <1>1 DEF Current
  <1> QED
    BY <1>3, <1>4, <1>5 DEF InHand

LEMMA InHandFail ==
    ASSUME Typed, NEW s \in SessionIds, s \notin astray', InHand(s),
           NEW r \in Requests, Fail(r)
    PROVE  InHand(s)'
  <1>1. hash' = hash /\ cookie' = cookie /\ req' = [req EXCEPT ![r] = Idle]
    BY DEF Fail, Goto, rows
  <1>2. ~Answers(r, s) /\ Idle.pc = "idle"
    BY DEF Fail, Answers, Idle
  <1> QED
    BY <1>1, <1>2, InHandOtherwise

LEMMA HandsNext == Typed /\ HandsInv /\ [Next]_vars => HandsInv'
  <1> SUFFICES ASSUME Typed, HandsInv, [Next]_vars, NEW s \in SessionIds, s \notin astray'
               PROVE  InHand(s)'
    BY DEF HandsInv
  <1>1. astray \subseteq astray'
    BY DEF Next, Progress, vars, rows, past, StartLogin, StartRefresh, StartLogout,
           StartLogoutAll, Fail, SetUsable, Tick, CreateSession, ReadUser, RaiseAlarm, Rotate,
           Respond, RevokeSession, RevokeAll, ClearCookies
  <1>2. InHand(s)
    BY <1>1 DEF HandsInv
  <1>3. ASSUME NEW r \in Requests, NEW q, req' = [req EXCEPT ![r] = q],
               req[r].pc # "respond", q.pc # "respond", hash' = hash, cookie' = cookie
        PROVE  InHand(s)'
    BY <1>2, <1>3, InHandOtherwise DEF Answers
  <1>4. ASSUME NEW r \in Requests,
               StartLogin(r) \/ StartRefresh(r) \/ StartLogout(r) \/ StartLogoutAll(r)
        PROVE  InHand(s)'
    <2>1. req[r] = Idle /\ Idle.pc = "idle" /\ hash' = hash /\ cookie' = cookie
      BY <1>4 DEF StartLogin, StartRefresh, StartLogout, StartLogoutAll, rows, Idle
    <2>2. PICK q : q.pc # "respond" /\ req' = [req EXCEPT ![r] = q]
      BY <1>4 DEF StartLogin, StartRefresh, StartLogout, StartLogoutAll, Goto
    <2> QED
      BY <1>3, <2>1, <2>2
  <1>5. ASSUME NEW r \in Requests, ReadUser(r) PROVE InHand(s)'
    <2>1. req[r].pc # "respond" /\ hash' = hash /\ cookie' = cookie
      BY <1>5 DEF ReadUser, rows
    <2>2. PICK q : q.pc # "respond" /\ req' = [req EXCEPT ![r] = q]
      BY <1>5 DEF ReadUser, Goto, Idle
    <2> QED
      BY <1>3, <2>1, <2>2
  <1>6. ASSUME NEW r \in Requests, RaiseAlarm(r) \/ RevokeSession(r) \/ RevokeAll(r)
        PROVE  InHand(s)'
    <2>1. req[r].pc # "respond" /\ hash' = hash /\ cookie' = cookie
      BY <1>6 DEF RaiseAlarm, RevokeSession, RevokeAll
    <2>2. PICK q : q.pc # "respond" /\ req' = [req EXCEPT ![r] = q]
      BY <1>6 DEF RaiseAlarm, RevokeSession, RevokeAll, Goto, Idle
    <2> QED
      BY <1>3, <2>1, <2>2
  <1>7. ASSUME NEW r \in Requests, Progress(r) PROVE InHand(s)'
    BY <1>2, <1>5, <1>6, <1>7, InHandCreate, InHandRotate, InHandRespond, InHandClear
       DEF Progress
  <1>8. CASE SetUsable \/ Tick \/ UNCHANGED vars
    <2>1. req' = req /\ hash' = hash /\ cookie' = cookie
      BY <1>8 DEF SetUsable, Tick, vars, rows
    <2>2. \A r \in Requests : Answers(r, s)' <=> Answers(r, s)
      BY <2>1 DEF Answers
    <2> QED
      BY <1>2, <2>1, <2>2, InHandKept
  <1> QED
    BY <1>2, <1>4, <1>7, <1>8, InHandFail DEF Next

(* Whatever overlaps and fails, the jar of a client has the current token  *)
(* of its session, or the current token is on its way into it, unless      *)
(* answers of the session crossed, went to others or were lost.            *)
THEOREM LockoutsHaveCauses == Spec => []LockoutHasCause
  <1>1. Init => HandsInv
    BY DEF Init, HandsInv, InHand, Answers, Holds, Idle
  <1>2. ASSUME Typed, HandsInv, NEW c \in Clients, cookie[c] # NoToken,
               cookie[c].session \notin astray
        PROVE  LET current == Current(cookie[c].session) IN
               \/ cookie[c] = current
               \/ \E r \in Requests :
                     req[r].pc = "respond" /\ req[r].client = c /\ req[r].new = current
    <2> DEFINE s == cookie[c].session
    <2>1. s \in SessionIds
      BY <1>2 DEF Typed, TypeOK, Token
    <2>2. InHand(s) /\ Holds(c, s)
      BY <1>2, <2>1 DEF HandsInv, Holds
    <2> HIDE DEF s
    <2>3. cookie[c] = Current(s) \/ \E r \in Requests : Answers(r, s)
      BY <2>2 DEF InHand
    <2>4. \A r \in Requests : Answers(r, s) =>
            req[r].pc = "respond" /\ req[r].client = c /\ req[r].new = Current(s)
      BY <2>2 DEF InHand, Answers
    <2> QED
      BY <2>3, <2>4 DEF s
  <1>3. Typed /\ HandsInv => LockoutHasCause
    BY <1>2 DEF LockoutHasCause
  <1> QED
    BY <1>1, <1>3, HandsNext, TypedAlways, PTL DEF Spec

-----------------------------------------------------------------------------
(* Exchanges: any number of overlapping requests, any failures.            *)

\* Why a refresh token that is not current is not: it was exchanged, or an
\* overlapping exchange has overwritten a newer token of its session.
Dead(t) == t \in spent \/ t.session \in overwritten

CurrentOrDead(t) == t = Current(t.session) \/ Dead(t)

ExchangeOK(q) ==
    /\ q.pc = "user" /\ Mismatch(q.token, q.stored) =>
          q.token.kind = "access" \/ Dead(q.token)
    /\ q.pc = "alarm" => q.token.kind = "access" \/ Dead(q.token)
    /\ q.pc = "rotate" => q.token.iat <= q.new.iat
    /\ q.pc \in {"rotate", "respond"} => q.new.iat <= now
    /\ q.pc = "respond" => CurrentOrDead(q.new)

\* Nothing is signed ahead of the clock, what was exchanged is older than the
\* row's token, and what clients hold or are about to is the row's or is dead.
ExchangesInv ==
    /\ Typed
    /\ \A s \in SessionIds : hash[s] <= now
    /\ \A t \in spent : /\ t.kind = "refresh" /\ owner[t.session] # NoUser
                        /\ t.iat < hash[t.session] \/ t.session \in overwritten
    /\ \A t \in issued : t.iat <= now /\ (t.kind = "refresh" => CurrentOrDead(t))
    /\ \A r \in Requests : ExchangeOK(req[r])

LEMMA ExchangesInit == Init => ExchangesInv
  BY TypedInit DEF Init, ExchangesInv, ExchangeOK, Idle

LEMMA StaysDead ==
    ASSUME [Next]_vars
    PROVE  spent \subseteq spent' /\ overwritten \subseteq overwritten'
  BY DEF Next, Progress, vars, rows, past, StartLogin, StartRefresh, StartLogout,
         StartLogoutAll, Fail, SetUsable, Tick, CreateSession, ReadUser, RaiseAlarm, Rotate,
         Respond, RevokeSession, RevokeAll, ClearCookies

(* Steps that leave the tokens and their hashes alone. *)
LEMMA ExchangesQuiet ==
    ASSUME ExchangesInv, Typed', UNCHANGED <<hash, owner, issued, spent, overwritten>>,
           now <= now',
           \A r \in Requests : req'[r] = req[r] \/ ExchangeOK(req'[r])
    PROVE  ExchangesInv'
  <1>1. now \in Nat /\ now' \in Nat /\ \A s \in SessionIds : hash[s] \in Nat
    BY DEF ExchangesInv, Typed, TypeOK
  <1>2. \A t : (Dead(t)' <=> Dead(t)) /\ (CurrentOrDead(t)' <=> CurrentOrDead(t))
    BY DEF Dead, CurrentOrDead, Current
  <1>3. ASSUME NEW r \in Requests PROVE ExchangeOK(req[r])'
    <2>1. req'[r] \in Local /\ ExchangeOK(req'[r])
      BY DEF ExchangesInv, Typed, TypeOK
    <2>2. req'[r].pc \in {"rotate", "respond"} => req'[r].new.iat \in Nat
      BY <2>1, LocalShape DEF Token
    <2>3. req'[r].pc \in {"rotate", "respond"} => req'[r].new.iat <= now'
      <3> DEFINE i == req'[r].new.iat
      <3>1. req'[r].pc \in {"rotate", "respond"} => i \in Nat /\ i <= now
        BY <2>1, <2>2 DEF ExchangeOK
      <3> HIDE DEF i
      <3>2. req'[r].pc \in {"rotate", "respond"} => i <= now'
        BY <1>1, <3>1
      <3> QED
        BY <3>2 DEF i
    <2> QED
      BY <1>2, <2>1, <2>3 DEF ExchangeOK
  <1>4. \A t \in issued : t.iat <= now'
    <2> TAKE t \in issued
    <2>1. t.iat \in Nat /\ t.iat <= now
      BY DEF ExchangesInv, Typed, TypeOK, Token
    <2> QED
      BY <1>1, <2>1
  <1>5. \A s \in SessionIds : hash[s] <= now'
    BY <1>1 DEF ExchangesInv
  <1> QED
    BY <1>2, <1>3, <1>4, <1>5 DEF ExchangesInv

(* A token that is current or dead stays so, whatever is exchanged.        *)
LEMMA RotateLeaves ==
    ASSUME ExchangesInv, [Next]_vars, NEW r \in Requests, Rotate(r),
           NEW t \in Token, t.kind = "refresh", CurrentOrDead(t)
    PROVE  CurrentOrDead(t)'
  <1> DEFINE old == req[r].token
             new == req[r].new
  <1>1. CASE Dead(t)
    BY <1>1, StaysDead DEF Dead, CurrentOrDead
  <1>2. CASE t = Current(t.session)
    <2>1. /\ old \in Token /\ new \in Token /\ new.kind = "refresh" /\ new.session = old.session
          /\ new.session \in SessionIds /\ new.iat \in Nat /\ t.session \in SessionIds
          /\ hash' = [hash EXCEPT ![new.session] = new.iat] /\ hash \in [SessionIds -> Nat]
          /\ spent' = spent \cup ({old} \ {new})
      BY Rotated, TokenIs DEF ExchangesInv, Typed, TypeOK
    <2>2. CASE t.session # new.session
      <3>1. hash'[t.session] = hash[t.session]
        BY <2>1, <2>2
      <3> QED
        BY <1>2, <3>1 DEF CurrentOrDead, Current
    <2>3. CASE t.session = new.session /\ old # Current(old.session)
      <3>1. old.session \in overwritten'
        BY <2>3 DEF Rotate
      <3> QED
        BY <2>1, <2>3, <3>1 DEF CurrentOrDead, Dead
    <2>4. CASE t.session = new.session /\ old = Current(old.session)
      <3>1. t = old
        BY <1>2, <2>1, <2>4
      <3>2. new = Refresh(t.session, hash'[t.session])
        BY <2>1, <2>4, TokenIs
      <3>3. CASE old = new
        BY <3>1, <3>2, <3>3 DEF CurrentOrDead, Current
      <3>4. CASE old # new
        BY <2>1, <3>1, <3>4 DEF CurrentOrDead, Dead
      <3> QED
        BY <3>3, <3>4
    <2> QED
      BY <2>2, <2>3, <2>4
  <1> QED
    BY <1>1, <1>2 DEF CurrentOrDead

LEMMA RotateSpends ==
    ASSUME ExchangesInv, NEW r \in Requests, Rotate(r), NEW t \in spent'
    PROVE  /\ t.kind = "refresh" /\ owner'[t.session] # NoUser
           /\ t.iat < hash'[t.session] \/ t.session \in overwritten'
  <1> DEFINE old == req[r].token
             new == req[r].new
             s == new.session
  <1>1. /\ old \in Token /\ new \in Token /\ old.kind = "refresh" /\ new.kind = "refresh"
        /\ s = old.session /\ s \in SessionIds /\ new.iat \in Nat /\ old.iat \in Nat
        /\ owner[s] # NoUser /\ owner' = owner
        /\ hash' = [hash EXCEPT ![s] = new.iat] /\ hash \in [SessionIds -> Nat]
        /\ spent' = spent \cup ({old} \ {new}) /\ spent \subseteq Token
    BY Rotated DEF ExchangesInv, Typed, TypeOK
  <1>2. old.iat <= new.iat
    BY DEF ExchangesInv, ExchangeOK, Rotate
  <1>3. overwritten \subseteq overwritten' /\ (old = Current(s) \/ s \in overwritten')
    BY <1>1 DEF Rotate
  <1>4. t \in Token /\ t.session \in SessionIds /\ t.iat \in Nat
    BY <1>1 DEF Token
  <1>5. CASE t \in spent
    <2>1. /\ t.kind = "refresh" /\ owner[t.session] # NoUser
          /\ t.iat < hash[t.session] \/ t.session \in overwritten
      BY <1>5 DEF ExchangesInv
    <2>2. CASE t.session # s
      BY <1>1, <1>3, <1>4, <2>1, <2>2
    <2>3. CASE t.session = s /\ s \notin overwritten'
      <3>1. old.iat = hash[s]
        BY <1>1, <1>3, <2>3 DEF Current, Refresh
      <3>2. t.iat < old.iat
        BY <1>3, <2>1, <2>3, <3>1
      <3>3. t.iat < new.iat /\ hash'[s] = new.iat
        BY <1>1, <1>2, <1>4, <3>2
      <3> QED
        BY <1>1, <2>1, <2>3, <3>3
    <2> QED
      BY <1>1, <2>1, <2>2, <2>3
  <1>6. CASE t = old /\ old # new
    <2>1. old.iat # new.iat
      BY <1>1, <1>6, TokenIs
    <2> QED
      BY <1>1, <1>2, <1>6, <2>1
  <1> QED
    BY <1>1, <1>5, <1>6

LEMMA ExchangesRotate ==
    ASSUME ExchangesInv, Typed', [Next]_vars, NEW r \in Requests, Rotate(r)
    PROVE  ExchangesInv'
  <1> DEFINE new == req[r].new
             q == [pc |-> "respond", client |-> req[r].client, new |-> new]
  <1>t. Typed /\ req \in [Requests -> Local]
    BY DEF ExchangesInv, Typed, TypeOK
  <1>1. /\ new \in Token /\ new.kind = "refresh" /\ new.session \in SessionIds
        /\ new.iat \in Nat /\ issued \subseteq Token
        /\ hash' = [hash EXCEPT ![new.session] = new.iat] /\ hash \in [SessionIds -> Nat]
        /\ UNCHANGED <<now, issued>> /\ req' = [req EXCEPT ![r] = q]
    BY <1>t, Rotated DEF Typed, TypeOK
  <1>2. new.iat <= now
    BY DEF ExchangesInv, ExchangeOK, Rotate
  <1>3. \A s \in SessionIds : hash'[s] <= now'
    BY <1>1, <1>2 DEF ExchangesInv
  <1>4. \A t \in issued' : t.iat <= now' /\ (t.kind = "refresh" => CurrentOrDead(t)')
    BY <1>1, RotateLeaves DEF ExchangesInv
  <1>5. new = Refresh(new.session, hash'[new.session])
    BY <1>1, TokenIs
  <1>6. ASSUME NEW p \in Requests PROVE ExchangeOK(req[p])'
    <2>1. CASE p = r
      <3>1. req'[p] = q
        BY <1>t, <1>1, <2>1
      <3>2. req'[p].pc = "respond" /\ req'[p].new = new
        BY <3>1
      <3>3. CurrentOrDead(req[p].new)'
        BY <1>5, <3>2 DEF CurrentOrDead, Current
      <3> QED
        BY <1>1, <1>2, <3>2, <3>3 DEF ExchangeOK
    <2>2. CASE p # r
      <3>1. req'[p] = req[p] /\ req[p] \in Local /\ ExchangeOK(req[p])
            /\ HandlerOK(req[p], issued, owner)
        BY <1>t, <1>1, <2>2, HandlerType DEF ExchangesInv
      <3>2. req[p].pc = "respond" => CurrentOrDead(req[p].new)'
        BY <3>1, LocalShape, RotateLeaves DEF ExchangeOK, HandlerOK
      <3>3. \A t : Dead(t) => Dead(t)'
        BY StaysDead DEF Dead
      <3> QED
        BY <1>1, <3>1, <3>2, <3>3 DEF ExchangeOK
    <2> QED
      BY <2>1, <2>2
  <1> QED
    BY <1>3, <1>4, <1>6, RotateSpends DEF ExchangesInv

LEMMA ExchangesCreate ==
    ASSUME ExchangesInv, Typed', NEW r \in Requests, CreateSession(r)
    PROVE  ExchangesInv'
  <1> DEFINE q(s) == [pc |-> "respond", client |-> req[r].client, new |-> Refresh(s, now)]
  <1>t. Typed /\ req \in [Requests -> Local] /\ now \in Nat
        /\ spent \subseteq Token /\ issued \subseteq Token
    BY DEF ExchangesInv, Typed, TypeOK
  <1>1. PICK s \in SessionIds :
          /\ owner[s] = NoUser
          /\ \A p \in SessionIds : p # s => owner'[p] = owner[p] /\ hash'[p] = hash[p]
          /\ hash'[s] = now
          /\ req' = [req EXCEPT ![r] = q(s)]
    BY <1>t, Created
  <1>2. UNCHANGED <<now, issued, spent, overwritten>>
    BY DEF CreateSession, past
  <1>3. \A p \in SessionIds : hash'[p] <= now'
    BY <1>t, <1>1, <1>2 DEF ExchangesInv
  <1>4. \A t \in Token : owner[t.session] # NoUser =>
          /\ owner'[t.session] = owner[t.session] /\ hash'[t.session] = hash[t.session]
          /\ CurrentOrDead(t)' <=> CurrentOrDead(t)
    BY <1>1, <1>2 DEF Token, CurrentOrDead, Current, Dead
  <1>5. \A t \in spent : /\ t.kind = "refresh" /\ owner'[t.session] # NoUser
                         /\ t.iat < hash'[t.session] \/ t.session \in overwritten
    BY <1>t, <1>4 DEF ExchangesInv
  <1>6. \A t \in issued : t.iat <= now /\ (t.kind = "refresh" => CurrentOrDead(t)')
    BY <1>t, <1>4 DEF ExchangesInv, Typed, TokensKnown
  <1>7. ASSUME NEW p \in Requests PROVE ExchangeOK(req[p])'
    <2>1. CASE p = r
      <3>1. req'[p] = q(s)
        BY <1>t, <1>1, <2>1
      <3>2. q(s).pc = "respond" /\ q(s).new = Refresh(s, now) /\ Refresh(s, now).iat = now
            /\ Refresh(s, now) = Current(s)' /\ Refresh(s, now).session = s
        BY <1>1 DEF Refresh, Current
      <3> HIDE DEF q
      <3> QED
        BY <1>t, <1>2, <3>1, <3>2 DEF ExchangeOK, CurrentOrDead
    <2>2. CASE p # r
      <3>1. req'[p] = req[p] /\ req[p] \in Local /\ ExchangeOK(req[p])
            /\ HandlerOK(req[p], issued, owner)
        BY <1>t, <1>1, <2>2, HandlerType DEF ExchangesInv
      <3>2. req[p].pc = "respond" => CurrentOrDead(req[p].new)'
        BY <1>4, <3>1, LocalShape DEF ExchangeOK, HandlerOK
      <3>3. \A t : Dead(t)' <=> Dead(t)
        BY <1>2 DEF Dead
      <3> QED
        BY <1>2, <3>1, <3>2, <3>3 DEF ExchangeOK
    <2> QED
      BY <2>1, <2>2
  <1> QED
    BY <1>2, <1>3, <1>5, <1>6, <1>7 DEF ExchangesInv

LEMMA ExchangesRespond ==
    ASSUME ExchangesInv, Typed', NEW r \in Requests, Respond(r)
    PROVE  ExchangesInv'
  <1> DEFINE t == req[r].new
             a == Access(t.session, t.iat)
  <1>t. Typed /\ req \in [Requests -> Local]
    BY DEF ExchangesInv, Typed, TypeOK
  <1>1. /\ issued' = issued \cup {t, a} /\ req' = [req EXCEPT ![r] = Idle]
        /\ UNCHANGED <<now, owner, hash, spent, overwritten>>
    BY <1>t, Responded
  <1>2. t.iat <= now /\ CurrentOrDead(t)
    BY DEF ExchangesInv, ExchangeOK, Respond
  <1>3. a.iat = t.iat /\ a.kind = "access"
    BY DEF Access
  <1>4. \A x : (Dead(x)' <=> Dead(x)) /\ (CurrentOrDead(x)' <=> CurrentOrDead(x))
    BY <1>1 DEF Dead, CurrentOrDead, Current
  <1>5. \A x \in issued' : x.iat <= now' /\ (x.kind = "refresh" => CurrentOrDead(x)')
    BY <1>1, <1>2, <1>3, <1>4 DEF ExchangesInv
  <1>6. \A p \in Requests : ExchangeOK(req[p])'
    <2> TAKE p \in Requests
    <2>1. req'[p] = req[p] \/ req'[p] = Idle
      BY <1>t, <1>1
    <2>2. ExchangeOK(req'[p])
      BY <2>1 DEF ExchangesInv, ExchangeOK, Idle
    <2> QED
      BY <1>1, <1>4, <2>2 DEF ExchangeOK
  <1> QED
    BY <1>1, <1>5, <1>6 DEF ExchangesInv

LEMMA ExchangesNext == ExchangesInv /\ [Next]_vars => ExchangesInv'
  <1> SUFFICES ASSUME ExchangesInv, [Next]_vars PROVE ExchangesInv'
    OBVIOUS
  <1>t. Typed /\ Typed' /\ now \in Nat /\ req \in [Requests -> Local]
    BY TypedNext DEF ExchangesInv, Typed, TypeOK
  <1>1. ASSUME NEW r \in Requests, NEW q, req' = [req EXCEPT ![r] = q],
               UNCHANGED <<now, hash, owner, issued, spent, overwritten>>, ExchangeOK(q)
        PROVE  ExchangesInv'
    <2>1. \A p \in Requests : req'[p] = req[p] \/ ExchangeOK(req'[p])
      BY <1>t, <1>1
    <2> QED
      BY <1>t, <1>1, <2>1, ExchangesQuiet
  <1>2. ASSUME NEW r \in Requests, StartLogin(r) \/ StartLogout(r) \/ StartLogoutAll(r)
        PROVE  ExchangesInv'
    <2>1. UNCHANGED <<now, hash, owner, issued, spent, overwritten>>
      BY <1>2 DEF StartLogin, StartLogout, StartLogoutAll, rows, past
    <2>2. ASSUME NEW q, q.pc \in {"login", "logout", "logoutAll", "goodbye"}, Goto(r, q)
          PROVE  ExchangesInv'
      <3>1. ExchangeOK(q)
        BY <2>2 DEF ExchangeOK
      <3> QED
        BY <1>1, <2>1, <2>2, <3>1 DEF Goto
    <2>3. CASE StartLogin(r)
      BY <2>2, <2>3 DEF StartLogin
    <2>4. CASE StartLogout(r)
      <3>1. PICK c \in Clients :
              \/ \E t \in issued : Goto(r, [pc |-> "logout", client |-> c, token |-> t])
              \/ Goto(r, [pc |-> "goodbye", client |-> c])
        BY <2>4 DEF StartLogout
      <3>2. CASE Goto(r, [pc |-> "goodbye", client |-> c])
        BY <2>2, <3>2
      <3>3. ASSUME NEW t \in issued, Goto(r, [pc |-> "logout", client |-> c, token |-> t])
            PROVE  ExchangesInv'
        BY <2>2, <3>3
      <3> QED
        BY <3>1, <3>2, <3>3
    <2>5. CASE StartLogoutAll(r)
      BY <2>2, <2>5 DEF StartLogoutAll
    <2> QED
      BY <1>2, <2>3, <2>4, <2>5
  <1>3. ASSUME NEW r \in Requests, StartRefresh(r) PROVE ExchangesInv'
    <2>1. PICK t \in issued, c \in Clients :
            Goto(r, [pc |-> "user", client |-> c, token |-> t, stored |-> hash[t.session]])
      BY <1>3 DEF StartRefresh
    <2> DEFINE q == [pc |-> "user", client |-> c, token |-> t, stored |-> hash[t.session]]
    <2>2. t.kind \in {"refresh", "access"} /\ (t.kind = "refresh" => CurrentOrDead(t))
      BY <1>t DEF ExchangesInv, Typed, TypeOK, Token
    <2>3. Mismatch(t, hash[t.session]) => t.kind = "access" \/ Dead(t)
      BY <2>2 DEF Mismatch, CurrentOrDead, Current
    <2>4. ExchangeOK(q)
      BY <2>3 DEF ExchangeOK
    <2>5. UNCHANGED <<now, hash, owner, issued, spent, overwritten>>
      BY <1>3 DEF StartRefresh, rows, past
    <2> QED
      BY <1>1, <2>1, <2>4, <2>5 DEF Goto
  <1>4. ASSUME NEW r \in Requests, ReadUser(r) PROVE ExchangesInv'
    <2> DEFINE t == req[r].token
               q == [pc |-> "rotate", client |-> req[r].client, token |-> t,
                     new |-> Refresh(t.session, now)]
               a == [pc |-> "alarm", token |-> t]
    <2>1. UNCHANGED <<now, hash, owner, issued, spent, overwritten>>
      BY <1>4 DEF ReadUser, rows, past
    <2>2. t \in issued /\ t.iat <= now
      BY <1>t, <1>4, PresentedToken DEF ExchangesInv, ReadUser
    <2>3. CASE req' = [req EXCEPT ![r] = Idle]
      BY <1>1, <2>1, <2>3 DEF ExchangeOK, Idle
    <2>4. CASE Mismatch(t, req[r].stored) /\ req' = [req EXCEPT ![r] = a]
      <3>1. t.kind = "access" \/ Dead(t)
        BY <1>4, <2>4 DEF ExchangesInv, ExchangeOK, ReadUser
      <3>2. ExchangeOK(a)
        BY <3>1 DEF ExchangeOK
      <3> QED
        BY <1>1, <2>1, <2>4, <3>2
    <2>5. CASE req' = [req EXCEPT ![r] = q]
      <3>1. q.new.iat = now
        BY DEF Refresh
      <3>2. ExchangeOK(q)
        BY <1>t, <2>2, <3>1 DEF ExchangeOK
      <3> QED
        BY <1>1, <2>1, <2>5, <3>2
    <2> QED
      BY <1>t, <1>4, <2>3, <2>4, <2>5, UserRead
  <1>5. ASSUME NEW r \in Requests,
               \/ RaiseAlarm(r) \/ RevokeSession(r) \/ RevokeAll(r) \/ ClearCookies(r)
               \/ Fail(r)
        PROVE  ExchangesInv'
    <2>1. \E q : q.pc \in {"idle", "goodbye"} /\ req' = [req EXCEPT ![r] = q]
      <3>1. Idle.pc = "idle" /\ [pc |-> "goodbye", client |-> req[r].client].pc = "goodbye"
        BY DEF Idle
      <3> QED
        BY <1>5, <3>1 DEF RaiseAlarm, RevokeSession, RevokeAll, ClearCookies, Fail, Goto
    <2> PICK q : q.pc \in {"idle", "goodbye"} /\ req' = [req EXCEPT ![r] = q]
      BY <2>1
    <2>2. ExchangeOK(q)
      BY DEF ExchangeOK
    <2>3. UNCHANGED <<now, hash, owner, issued, spent, overwritten>>
      BY <1>5 DEF RaiseAlarm, RevokeSession, RevokeAll, ClearCookies, Fail, rows, past
    <2> QED
      BY <1>1, <2>2, <2>3
  <1>6. ASSUME NEW r \in Requests, Progress(r) PROVE ExchangesInv'
    BY <1>t, <1>4, <1>5, <1>6, ExchangesCreate, ExchangesRotate, ExchangesRespond DEF Progress
  <1>7. CASE SetUsable \/ Tick \/ UNCHANGED vars
    <2>1. UNCHANGED <<hash, owner, issued, spent, overwritten, req>> /\ now <= now'
      BY <1>t, <1>7 DEF SetUsable, Tick, vars, rows, past
    <2> QED
      BY <1>t, <2>1, ExchangesQuiet
  <1> QED
    BY <1>2, <1>3, <1>5, <1>6, <1>7 DEF Next

LEMMA ExchangesAlways == Spec => []ExchangesInv
  BY ExchangesInit, ExchangesNext, PTL DEF Spec

(* Whatever overlaps and fails, the alarm goes off for exchanged tokens    *)
(* and access tokens only, unless an exchange has overwritten a newer      *)
(* token of the session.                                                   *)
THEOREM AlarmsHaveCauses == Spec => []AlarmHasCause
  <1>1. ExchangesInv => AlarmHasCause
    BY DEF ExchangesInv, ExchangeOK, Dead, AlarmHasCause
  <1> QED
    BY <1>1, ExchangesAlways, PTL

(* Whatever overlaps and fails, an exchanged token is dead for good unless *)
(* an exchange has overwritten a newer token of its session.               *)
THEOREM SpentTokensDie == Spec => []SpentIsDead
  <1>1. ASSUME ExchangesInv, NEW t \in spent, t = Current(t.session)
        PROVE  t.session \in overwritten
    <2>1. /\ t.iat \in Nat /\ hash[t.session] \in Nat
          /\ t.iat < hash[t.session] \/ t.session \in overwritten
      BY <1>1 DEF ExchangesInv, Typed, TypeOK, Token
    <2>2. t.iat = hash[t.session]
      BY <1>1 DEF Current, Refresh
    <2> QED
      BY <2>1, <2>2
  <1>2. ExchangesInv => SpentIsDead
    BY <1>1 DEF SpentIsDead
  <1> QED
    BY <1>2, ExchangesAlways, PTL

-----------------------------------------------------------------------------
(* One request at a time, any failures.                                    *)

Serial == \A p, q \in Requests : p = q

\* A serial handler's snapshot of the row is still what the row says.
HandlerFresh(q) ==
    /\ q.pc = "user" => q.stored = hash[q.token.session]
    /\ q.pc = "rotate" => q.token = Current(q.token.session)

\* No exchange overwrites a newer token, because none has come in between.
SerialInv ==
    /\ ExchangesInv
    /\ overwritten = {}
    /\ \A r \in Requests : HandlerFresh(req[r])

LEMMA SerialNext == Serial /\ SerialInv /\ [Next]_vars => SerialInv'
  <1> SUFFICES ASSUME Serial, SerialInv, [Next]_vars PROVE SerialInv'
    OBVIOUS
  <1>t. Typed /\ ExchangesInv' /\ req \in [Requests -> Local]
    BY ExchangesNext DEF SerialInv, ExchangesInv, Typed, TypeOK
  <1>1. ASSUME NEW r \in Requests, NEW q, req' = [req EXCEPT ![r] = q],
               q.pc \notin {"user", "rotate"}, overwritten' = overwritten
        PROVE  SerialInv'
    <2>1. \A p \in Requests : req'[p] = q
      BY <1>t, <1>1 DEF Serial
    <2>2. \A p \in Requests : HandlerFresh(req[p])'
      BY <1>1, <2>1 DEF HandlerFresh
    <2> QED
      BY <1>t, <1>1, <2>2 DEF SerialInv
  <1>2. ASSUME NEW r \in Requests, StartRefresh(r) PROVE SerialInv'
    <2>1. PICK t \in issued, c \in Clients :
            Goto(r, [pc |-> "user", client |-> c, token |-> t, stored |-> hash[t.session]])
      BY <1>2 DEF StartRefresh
    <2>2. \A p \in Requests :
            req'[p] = [pc |-> "user", client |-> c, token |-> t, stored |-> hash[t.session]]
      BY <1>t, <2>1 DEF Serial, Goto
    <2>3. hash' = hash /\ overwritten' = overwritten
      BY <1>2 DEF StartRefresh, rows, past
    <2>4. \A p \in Requests : HandlerFresh(req[p])'
      BY <2>2, <2>3 DEF HandlerFresh
    <2> QED
      BY <1>t, <2>3, <2>4 DEF SerialInv
  <1>3. ASSUME NEW r \in Requests, ReadUser(r) PROVE SerialInv'
    <2> DEFINE t == req[r].token
               new == Refresh(t.session, now)
    <2>1. hash' = hash /\ overwritten' = overwritten
      BY <1>3 DEF ReadUser, rows, past
    <2>2. CASE \/ req' = [req EXCEPT ![r] = Idle]
               \/ req' = [req EXCEPT ![r] = [pc |-> "alarm", token |-> t]]
      BY <1>1, <2>1, <2>2 DEF Idle
    <2>3. CASE /\ t.kind = "refresh" /\ t.iat = req[r].stored
               /\ req' = [req EXCEPT ![r] =
                    [pc |-> "rotate", client |-> req[r].client, token |-> t, new |-> new]]
      <3>1. t \in Token /\ req[r].stored = hash[t.session]
        BY <1>t, <1>3, PresentedToken DEF SerialInv, HandlerFresh, ReadUser
      <3>2. t = Current(t.session)'
        BY <2>1, <2>3, <3>1, TokenIs DEF Current
      <3>3. \A p \in Requests : req'[p].pc = "rotate" /\ req'[p].token = t
        BY <1>t, <2>3 DEF Serial
      <3>4. \A p \in Requests : HandlerFresh(req[p])'
        BY <3>2, <3>3 DEF HandlerFresh
      <3> QED
        BY <1>t, <2>1, <3>4 DEF SerialInv
    <2> QED
      BY <1>t, <1>3, <2>2, <2>3, UserRead
  <1>4. ASSUME NEW r \in Requests, Rotate(r) PROVE SerialInv'
    <2>1. req[r].token = Current(req[r].token.session)
      BY <1>4 DEF SerialInv, HandlerFresh, Rotate
    <2>2. overwritten' = overwritten
      BY <1>4, <2>1 DEF Rotate
    <2> QED
      BY <1>1, <1>4, <2>2 DEF Rotate, Goto
  <1>5. ASSUME NEW r \in Requests,
               \/ StartLogin(r) \/ StartLogout(r) \/ StartLogoutAll(r) \/ Fail(r)
               \/ CreateSession(r) \/ Respond(r) \/ RaiseAlarm(r) \/ RevokeSession(r)
               \/ RevokeAll(r) \/ ClearCookies(r)
        PROVE  SerialInv'
    <2>1. PICK q : /\ q.pc \in {"idle", "login", "logout", "logoutAll", "goodbye", "respond"}
                   /\ req' = [req EXCEPT ![r] = q]
      BY <1>5 DEF StartLogin, StartLogout, StartLogoutAll, Fail, CreateSession, Respond,
                  RaiseAlarm, RevokeSession, RevokeAll, ClearCookies, Goto, Idle
    <2>2. overwritten' = overwritten
      BY <1>5 DEF StartLogin, StartLogout, StartLogoutAll, Fail, CreateSession, Respond,
                  RaiseAlarm, RevokeSession, RevokeAll, ClearCookies, past
    <2> QED
      BY <1>1, <2>1, <2>2
  <1>6. CASE SetUsable \/ Tick \/ UNCHANGED vars
    <2>1. UNCHANGED <<hash, overwritten, req>>
      BY <1>6 DEF SetUsable, Tick, vars, rows, past
    <2>2. \A p \in Requests : HandlerFresh(req[p])'
      BY <2>1 DEF SerialInv, HandlerFresh, Current
    <2> QED
      BY <1>t, <2>1, <2>2 DEF SerialInv
  <1> QED
    BY <1>2, <1>3, <1>4, <1>5, <1>6 DEF Next, Progress

LEMMA SerialAlways == Serial /\ Spec => []SerialInv
  <1>1. Init => SerialInv
    BY ExchangesInit DEF Init, SerialInv, HandlerFresh, Idle
  <1>2. ASSUME Serial PROVE Spec => []SerialInv
    <2>1. SerialInv /\ [Next]_vars => SerialInv'
      BY <1>2, SerialNext
    <2> QED
      BY <1>1, <2>1, PTL DEF Spec
  <1> QED
    BY <1>2

(* Without overlapping requests a token is exchanged for another one once. *)
THEOREM SerialSingleUse == Serial /\ Spec => SingleUse
  <1>1. ASSUME SerialInv, NEW r \in Requests, req[r].pc = "rotate"
        PROVE  req[r].token \notin spent
    <2> DEFINE t == req[r].token
    <2>1. t \in Token /\ t = Current(t.session) /\ t.session \notin overwritten
      BY <1>1, PresentedToken DEF SerialInv, ExchangesInv, HandlerFresh
    <2>2. t.iat = hash[t.session] /\ t.iat \in Nat
      BY <2>1 DEF Current, Refresh, Token
    <2>3. ASSUME t \in spent PROVE FALSE
      <3>1. t.iat < hash[t.session]
        BY <1>1, <2>1, <2>3 DEF SerialInv, ExchangesInv
      <3> QED
        BY <2>2, <3>1
    <2> QED
      BY <2>3
  <1>2. SerialInv => [\A r \in Requests :
                        req[r].pc = "rotate" /\ req'[r].pc = "respond"
                          => req[r].token \notin spent]_vars
    BY <1>1
  <1> QED
    BY <1>2, SerialAlways, PTL DEF Spec, SingleUse

=============================================================================
