--------------------------- MODULE ProvidersProofs ---------------------------
(***************************************************************************)
(* Proofs about provider configurations: for any configurations and any    *)
(* number of overlapping requests there is one default at most unless      *)
(* transactions that set one overlapped, and no failure takes it away.     *)
(***************************************************************************)
EXTENDS Providers, TLAPS

ProvidersTyping ==
    /\ config \in [Configs -> Rows]
    /\ request \in [Administrators -> Requests]
    /\ settled \in BOOLEAN

\* Rows that are no configuration are no default.
DefaultsLive == \A k \in Configs : config[k].default => IsLive(k)

\* A request has a target; only a transaction past its first statement has
\* written, and two of them never the same row.
WritesInTx ==
    \A h \in Administrators :
        /\ request[h].pc # "idle" => request[h].target \in Configs
        /\ request[h].pc \notin {"write", "commit"} => DOMAIN request[h].writes = {}
LocksExclude ==
    \A g, h \in Administrators : g # h =>
        DOMAIN request[g].writes \cap DOMAIN request[h].writes = {}

\* What a transaction has written: a setter takes the flag from the others
\* and gives it to its target; no other transaction makes a default.
UnsetOnly(h) ==
    /\ request[h].pc = "unset" => SetsDefault(h)
    /\ request[h].pc = "write" =>
        \A k \in DOMAIN request[h].writes : SetsDefault(h) /\ ~request[h].writes[k].default
SetterWrote(h) ==
    request[h].pc = "commit" /\ SetsDefault(h) =>
        /\ request[h].target \in DOMAIN request[h].writes
        /\ \A k \in DOMAIN request[h].writes :
            request[h].writes[k].default <=> k = request[h].target
        /\ request[h].writes[request[h].target].state = "live"
OtherWrote(h) ==
    request[h].pc = "commit" /\ ~SetsDefault(h) =>
        \A k \in DOMAIN request[h].writes :
            /\ k = request[h].target
            /\ request[h].writes[k].default <=>
                config[k].default /\ request[h].flag = "absent"
WritesMeanIt ==
    /\ \A h \in Administrators : UnsetOnly(h) /\ SetterWrote(h) /\ OtherWrote(h)
    /\ \A h \in Administrators : \A k \in DOMAIN request[h].writes :
        request[h].writes[k].default => request[h].writes[k].state = "live"

\* A setter that has met no other one has in its hands every default there is.
AloneHoldsAll(h) ==
    Setting(h) /\ request[h].alone =>
        /\ \A g \in Administrators \ {h} : ~Setting(g)
        /\ request[h].pc = "unset" => Defaults \subseteq request[h].todo
        /\ request[h].pc # "unset" => Defaults \subseteq DOMAIN request[h].writes
Alone == \A h \in Administrators : AloneHoldsAll(h)

ProvidersInv ==
    /\ ProvidersTyping /\ DefaultsLive /\ WritesInTx /\ LocksExclude /\ WritesMeanIt
    /\ Alone /\ DefaultsOnlyByOverlap

-----------------------------------------------------------------------------
LEMMA EmptyWrites == NoRequest \in Requests /\ DOMAIN NoRequest.writes = {}
<1>1. DOMAIN <<>> = {} /\ <<>> \in [{} -> Rows]
  OBVIOUS
<1>2. {} \in SUBSET Configs
  OBVIOUS
<1>3. <<>> \in UNION {[ks -> Rows] : ks \in SUBSET Configs}
  BY <1>1, <1>2
<1> QED BY <1>1, <1>3 DEF NoRequest, Requests, Flags

LEMMA WritesType ==
    ASSUME NEW S \in SUBSET Configs, NEW f \in [S -> Rows]
    PROVE  f \in UNION {[ks -> Rows] : ks \in SUBSET Configs}
OBVIOUS

LEMMA WritesAre ==
    ASSUME NEW r \in Requests
    PROVE  /\ DOMAIN r.writes \subseteq Configs
           /\ \A k \in DOMAIN r.writes : r.writes[k] \in Rows
           /\ r.writes \in [DOMAIN r.writes -> Rows]
<1>1. r.writes \in UNION {[ks -> Rows] : ks \in SUBSET Configs}
  BY DEF Requests
<1>2. PICK S \in SUBSET Configs : r.writes \in [S -> Rows]
  BY <1>1
<1> QED BY <1>2

-----------------------------------------------------------------------------
LEMMA ProvidersInitHolds == ProvidersInit => ProvidersInv
<1> SUFFICES ASSUME ProvidersInit PROVE ProvidersInv
  OBVIOUS
<1> USE DEF ProvidersInit
<1>1. ProvidersTyping
  BY EmptyWrites DEF ProvidersTyping, NoConfig, Rows
<1>2. DefaultsLive /\ Defaults = {}
  BY DEF DefaultsLive, NoConfig, Defaults, IsLive
<1>3. WritesInTx /\ LocksExclude
  BY EmptyWrites DEF WritesInTx, LocksExclude, NoRequest
<1>4. \A h \in Administrators : request[h].pc = "idle" /\ DOMAIN request[h].writes = {}
  BY EmptyWrites DEF NoRequest
<1>5. WritesMeanIt
  BY <1>4 DEF WritesMeanIt, UnsetOnly, SetterWrote, OtherWrote
<1>6. Alone
  BY <1>4 DEF Alone, AloneHoldsAll, Setting, Open
<1> QED BY <1>1, <1>2, <1>3, <1>5, <1>6 DEF ProvidersInv, DefaultsOnlyByOverlap

\* A request that goes to a place where it has written nothing and holds no
\* transaction disturbs nothing, as long as no row another transaction has
\* written changes, and no default appears that a lone setter has not seen.
LEMMA ProvidersQuiet ==
    ASSUME ProvidersInv, NEW h \in Administrators, NEW r \in Requests,
           request' = [request EXCEPT ![h] = r],
           r.pc \in {"idle", "begin", "delete"}, DOMAIN r.writes = {},
           r.pc # "idle" => r.target \in Configs,
           config' \in [Configs -> Rows], DefaultsLive',
           settled' \in BOOLEAN, DefaultsOnlyByOverlap',
           \/ Defaults' \subseteq Defaults
           \/ \A g \in Administrators \ {h} : ~(Setting(g) /\ request[g].alone),
           \A k \in Configs : config'[k] # config[k] => ~Locked(h, k)
    PROVE  ProvidersInv'
<1> USE DEF ProvidersInv
<1>1. ProvidersTyping'
  BY DEF ProvidersTyping
<1>2. \A g \in Administrators : request'[g] = IF g = h THEN r ELSE request[g]
  BY DEF ProvidersTyping
<1>3. WritesInTx' /\ LocksExclude'
  BY <1>2 DEF WritesInTx, LocksExclude
<1>4. ASSUME NEW g \in Administrators, NEW k \in DOMAIN request[g].writes, g # h
      PROVE  k \in Configs /\ config'[k] = config[k] /\ (k \in Defaults => k \in Defaults')
  <2>1. k \in Configs
    BY WritesAre DEF ProvidersTyping
  <2>2. config'[k] = config[k]
    BY <1>4, <2>1 DEF Locked
  <2> QED BY <2>1, <2>2 DEF Defaults, IsLive
<1>5. WritesMeanIt'
  <2>1. ASSUME NEW g \in Administrators
        PROVE  UnsetOnly(g)' /\ SetterWrote(g)' /\ OtherWrote(g)'
    <3>1. CASE g = h
      BY <3>1, <1>2 DEF UnsetOnly, SetterWrote, OtherWrote
    <3>2. CASE g # h
      <4>1. UnsetOnly(g) /\ SetterWrote(g) /\ OtherWrote(g)
        BY DEF WritesMeanIt
      <4>2. request'[g] = request[g]
        BY <1>2, <3>2
      <4> QED BY <4>1, <4>2, <1>4, <3>2 DEF UnsetOnly, SetterWrote, OtherWrote, SetsDefault
    <3> QED BY <3>1, <3>2
  <2> QED BY <2>1, <1>2 DEF WritesMeanIt
<1>6. Alone'
  <2> SUFFICES ASSUME NEW g \in Administrators PROVE AloneHoldsAll(g)'
    BY DEF Alone
  <2>1. CASE g = h
    BY <2>1, <1>2 DEF AloneHoldsAll, Setting, Open
  <2>2. CASE g # h
    <3>1. request'[g] = request[g] /\ AloneHoldsAll(g)
      BY <2>2, <1>2 DEF Alone
    <3>2. \A f \in Administrators : Setting(f)' => Setting(f)
      BY <1>2 DEF Setting, Open, SetsDefault
    <3> QED BY <3>1, <3>2, <2>2 DEF AloneHoldsAll, Setting, Open, SetsDefault
  <2> QED BY <2>1, <2>2
<1> QED BY <1>1, <1>3, <1>5, <1>6

LEMMA LoadHolds ==
    ASSUME ProvidersInv, NEW h \in Administrators, NEW pc \in {"begin", "delete"}, NEW k \in Configs,
           NEW n \in Names \cup {NoName}, NEW flag \in Flags, Load(h, pc, k, n, flag)
    PROVE  ProvidersInv'
<1> DEFINE r == [NoRequest EXCEPT !.pc = pc, !.target = k, !.name = n, !.flag = flag]
<1>1. r \in Requests /\ r.pc = pc /\ DOMAIN r.writes = {} /\ r.target = k
  BY EmptyWrites DEF NoRequest, Requests
<1>2. request' = [request EXCEPT ![h] = r] /\ config' = config /\ settled' = settled
  BY DEF Load
<1>3. config' \in [Configs -> Rows] /\ DefaultsLive' /\ Defaults' \subseteq Defaults
  BY <1>2 DEF ProvidersInv, ProvidersTyping, DefaultsLive, Defaults, IsLive
<1>4. settled' \in BOOLEAN /\ DefaultsOnlyByOverlap'
  BY <1>2, <1>3 DEF ProvidersInv, ProvidersTyping, DefaultsOnlyByOverlap
<1> HIDE DEF r
<1> QED BY <1>1, <1>2, <1>3, <1>4, ProvidersQuiet

LEMMA AnsweredHolds ==
    ASSUME ProvidersInv, NEW h \in Administrators, Answered(h), settled' = settled,
           \/ config' = config
           \/ \E k \in Configs : ~Locked(h, k) /\ config' = [config EXCEPT ![k] = Gone]
    PROVE  ProvidersInv'
<1>1. NoRequest \in Requests /\ NoRequest.pc = "idle" /\ DOMAIN NoRequest.writes = {}
  BY EmptyWrites DEF NoRequest
<1>2. Gone \in Rows /\ ~Gone.default
  BY DEF Gone, Rows
<1>3. config' \in [Configs -> Rows] /\ DefaultsLive' /\ Defaults' \subseteq Defaults
  BY <1>2 DEF ProvidersInv, ProvidersTyping, DefaultsLive, Defaults, IsLive
<1>4. \A k \in Configs : config'[k] # config[k] => ~Locked(h, k)
  BY DEF ProvidersInv, ProvidersTyping
<1>5. settled' \in BOOLEAN /\ DefaultsOnlyByOverlap'
  BY <1>3 DEF ProvidersInv, ProvidersTyping, DefaultsOnlyByOverlap
<1> QED BY <1>1, <1>3, <1>4, <1>5, ProvidersQuiet DEF Answered

-----------------------------------------------------------------------------
LEMMA ProvidersBeginHolds ==
    ASSUME ProvidersInv, NEW h \in Administrators, BeginTx(h)
    PROVE  ProvidersInv'
<1> USE DEF ProvidersInv
<1> DEFINE met == SetsDefault(h) /\ \E g \in Administrators \ {h} : Setting(g)
<1>1. /\ request[h].pc = "begin"
      /\ config' = config /\ settled' = settled
      /\ request' = [g \in Administrators |->
            IF g = h
            THEN [request[h] EXCEPT
                    !.pc = IF SetsDefault(h) THEN "unset" ELSE "write",
                    !.todo = IF SetsDefault(h) THEN Defaults ELSE {},
                    !.alone = ~met]
            ELSE [request[g] EXCEPT !.alone = @ /\ ~(SetsDefault(h) /\ Setting(g))]]
  BY DEF BeginTx
<1>2. /\ DOMAIN request'[h].writes = {} /\ DOMAIN request[h].writes = {}
      /\ request'[h].flag = request[h].flag
      /\ request'[h].pc = IF SetsDefault(h) THEN "unset" ELSE "write"
      /\ request'[h].todo = IF SetsDefault(h) THEN Defaults ELSE {}
      /\ request'[h].alone = ~met
      /\ request'[h] \in Requests
  <2>1. Defaults \in SUBSET Configs
    BY DEF Defaults
  <2>2. met \in BOOLEAN
    BY DEF SetsDefault
  <2>3. request[h] \in Requests /\ DOMAIN request[h].writes = {}
    BY <1>1 DEF ProvidersTyping, WritesInTx
  <2> HIDE DEF met
  <2> QED BY <1>1, <2>1, <2>2, <2>3 DEF Requests
<1>3. ASSUME NEW g \in Administrators, g # h
      PROVE  /\ request'[g].pc = request[g].pc /\ request'[g].target = request[g].target
             /\ request'[g].flag = request[g].flag /\ request'[g].todo = request[g].todo
             /\ request'[g].writes = request[g].writes
             /\ request'[g].alone => request[g].alone /\ ~(SetsDefault(h) /\ Setting(g))
             /\ request'[g] \in Requests
  <2>1. request[g] \in Requests /\ Setting(g) \in BOOLEAN
    BY DEF ProvidersTyping, Setting, Open, SetsDefault
  <2> QED BY <1>1, <1>3, <2>1 DEF Requests, SetsDefault
<1>4. ProvidersTyping'
  <2>1. \A g \in Administrators : request'[g] \in Requests
    BY <1>2, <1>3
  <2> QED BY <2>1, <1>1 DEF ProvidersTyping
<1>5. DefaultsLive' /\ DefaultsOnlyByOverlap' /\ Defaults' = Defaults
  BY <1>1 DEF DefaultsLive, DefaultsOnlyByOverlap, Defaults, IsLive
<1>6. WritesInTx' /\ LocksExclude'
  <2>1. request'[h].target = request[h].target
    BY <1>1 DEF ProvidersTyping, Requests
  <2> QED BY <1>1, <1>2, <1>3, <2>1 DEF WritesInTx, LocksExclude
<1>7. WritesMeanIt'
  <2>1. ASSUME NEW g \in Administrators
        PROVE  /\ UnsetOnly(g)' /\ SetterWrote(g)' /\ OtherWrote(g)'
               /\ \A k \in DOMAIN request'[g].writes :
                    request'[g].writes[k].default => request'[g].writes[k].state = "live"
    <3>1. CASE g = h
      BY <3>1, <1>2 DEF UnsetOnly, SetterWrote, OtherWrote, SetsDefault
    <3>2. CASE g # h
      <4>1. UnsetOnly(g) /\ SetterWrote(g) /\ OtherWrote(g)
        BY DEF WritesMeanIt
      <4>2. /\ request'[g].pc = request[g].pc /\ request'[g].target = request[g].target
            /\ request'[g].flag = request[g].flag /\ request'[g].writes = request[g].writes
            /\ config' = config
        BY <1>1, <1>3, <3>2
      <4>3. UnsetOnly(g)'
        BY <4>1, <4>2 DEF UnsetOnly, SetsDefault
      <4>4. SetterWrote(g)'
        BY <4>1, <4>2 DEF SetterWrote, SetsDefault
      <4>5. OtherWrote(g)'
        BY <4>1, <4>2 DEF OtherWrote, SetsDefault
      <4>6. \A k \in DOMAIN request'[g].writes :
              request'[g].writes[k].default => request'[g].writes[k].state = "live"
        BY <4>2 DEF WritesMeanIt
      <4> QED BY <4>3, <4>4, <4>5, <4>6
    <3> QED BY <3>1, <3>2
  <2> QED BY <2>1 DEF WritesMeanIt
<1>8. Alone'
  <2> SUFFICES ASSUME NEW g \in Administrators, Setting(g)', request'[g].alone
               PROVE  /\ \A f \in Administrators \ {g} : ~Setting(f)'
                      /\ request'[g].pc = "unset" => Defaults \subseteq request'[g].todo
                      /\ request'[g].pc # "unset" => Defaults \subseteq DOMAIN request'[g].writes
    BY <1>5 DEF Alone, AloneHoldsAll
  <2>0. \A f \in Administrators \ {h} : Setting(f)' = Setting(f)
    BY <1>3 DEF Setting, Open, SetsDefault
  <2>1. CASE g = h
    <3>1. SetsDefault(h)
      BY <2>1, <1>2 DEF Setting, SetsDefault
    <3>2. \A f \in Administrators \ {h} : ~Setting(f)
      BY <1>2, <2>1, <3>1
    <3> QED BY <3>1, <3>2, <2>0, <2>1, <1>2
  <2>2. CASE g # h
    <3>1. Setting(g) /\ request[g].alone /\ ~SetsDefault(h)
      BY <2>0, <2>2, <1>3
    <3>2. AloneHoldsAll(g)
      BY DEF Alone
    <3>3. ~Setting(h)'
      BY <3>1, <1>2 DEF Setting, SetsDefault
    <3> QED BY <3>1, <3>2, <3>3, <2>0, <2>2, <1>3 DEF AloneHoldsAll
  <2> QED BY <2>1, <2>2
<1> QED BY <1>4, <1>5, <1>6, <1>7, <1>8

\* A step inside a transaction leaves rows and other requests alone, and
\* writes rows that no other transaction has locked.
LEMMA ProvidersInside ==
    ASSUME ProvidersInv, NEW h \in Administrators, NEW r \in Requests,
           request' = [request EXCEPT ![h] = r],
           config' = config, settled' = settled,
           Open(h), r.pc \in {"write", "commit"},
           r.flag = request[h].flag, r.alone = request[h].alone, r.target = request[h].target,
           \A k \in DOMAIN r.writes : ~Locked(h, k),
           UnsetOnly(h)', SetterWrote(h)', OtherWrote(h)',
           \A k \in DOMAIN r.writes : r.writes[k].default => r.writes[k].state = "live",
           Setting(h) /\ r.alone => Defaults \subseteq DOMAIN r.writes
    PROVE  ProvidersInv'
<1> USE DEF ProvidersInv
<1>1. ProvidersTyping' /\ DefaultsLive' /\ DefaultsOnlyByOverlap' /\ Defaults' = Defaults
  BY DEF ProvidersTyping, DefaultsLive, DefaultsOnlyByOverlap, Defaults, IsLive
<1>2. \A g \in Administrators : request'[g] = IF g = h THEN r ELSE request[g]
  BY DEF ProvidersTyping
<1>3. WritesInTx'
  BY <1>2 DEF WritesInTx, Open
<1>4. LocksExclude'
  BY <1>2 DEF LocksExclude, Locked
<1>5. WritesMeanIt'
  <2>1. ASSUME NEW g \in Administrators
        PROVE  /\ UnsetOnly(g)' /\ SetterWrote(g)' /\ OtherWrote(g)'
               /\ \A k \in DOMAIN request'[g].writes :
                    request'[g].writes[k].default => request'[g].writes[k].state = "live"
    <3>1. CASE g = h
      BY <3>1, <1>2
    <3>2. CASE g # h
      <4>1. UnsetOnly(g) /\ SetterWrote(g) /\ OtherWrote(g) /\ request'[g] = request[g]
        BY <1>2, <3>2 DEF WritesMeanIt
      <4> QED BY <4>1, <1>1 DEF UnsetOnly, SetterWrote, OtherWrote, SetsDefault, WritesMeanIt
    <3> QED BY <3>1, <3>2
  <2> QED BY <2>1 DEF WritesMeanIt
<1>6. Alone'
  <2> SUFFICES ASSUME NEW g \in Administrators PROVE AloneHoldsAll(g)'
    BY DEF Alone
  <2>0. \A f \in Administrators : Setting(f)' = Setting(f)
    BY <1>2 DEF Setting, Open, SetsDefault
  <2>1. AloneHoldsAll(g)
    BY DEF Alone
  <2>2. CASE g = h
    BY <2>0, <2>1, <2>2, <1>1, <1>2 DEF AloneHoldsAll
  <2>3. CASE g # h
    BY <2>0, <2>1, <2>3, <1>1, <1>2 DEF AloneHoldsAll
  <2> QED BY <2>2, <2>3
<1> QED BY <1>1, <1>3, <1>4, <1>5, <1>6

LEMMA UnsetHolds ==
    ASSUME ProvidersInv, NEW h \in Administrators, UnsetDefault(h)
    PROVE  ProvidersInv'
<1> DEFINE S == request[h].todo \cap Defaults
           w == [k \in S |-> Unset(k)]
           r == [request[h] EXCEPT !.pc = "write", !.todo = {}, !.writes = w]
<1>1. /\ request[h] \in Requests /\ request[h].pc = "unset"
      /\ \A k \in request[h].todo : ~Locked(h, k)
      /\ config' = config /\ settled' = settled
      /\ request' = [request EXCEPT ![h] = r]
  BY DEF ProvidersInv, ProvidersTyping, UnsetDefault
<1>2. S \in SUBSET Configs
  BY DEF Defaults
<1>3. \A k \in Configs : Unset(k) \in Rows /\ ~Unset(k).default
  BY DEF ProvidersInv, ProvidersTyping, Unset, Rows
<1>4. w \in [S -> Rows] /\ \A k \in S : ~w[k].default
  BY <1>2, <1>3
<1> HIDE DEF w
<1>5. w \in UNION {[ks -> Rows] : ks \in SUBSET Configs}
  <2> HIDE DEF S
  <2> QED BY <1>2, <1>4, WritesType
<1>6. r \in Requests /\ r.pc = "write" /\ r.writes = w
      /\ r.flag = request[h].flag /\ r.alone = request[h].alone /\ r.target = request[h].target
  BY <1>1, <1>5 DEF Requests
<1>7. DOMAIN r.writes = S /\ \A k \in DOMAIN r.writes : ~r.writes[k].default
  BY <1>4, <1>6
<1>8. SetsDefault(h) /\ Open(h)
  BY <1>1 DEF ProvidersInv, WritesMeanIt, UnsetOnly, Open
<1>9. Setting(h) /\ r.alone => Defaults \subseteq DOMAIN r.writes
  BY <1>1, <1>6, <1>7 DEF ProvidersInv, Alone, AloneHoldsAll
<1>10. request'[h] = r
  BY <1>1 DEF ProvidersInv, ProvidersTyping
<1> HIDE DEF r
<1>11. UnsetOnly(h)' /\ SetterWrote(h)' /\ OtherWrote(h)'
  BY <1>6, <1>7, <1>8, <1>10 DEF UnsetOnly, SetterWrote, OtherWrote, SetsDefault
<1>12. \A k \in DOMAIN r.writes : ~Locked(h, k)
  BY <1>1, <1>7
<1> QED BY <1>1, <1>6, <1>7, <1>8, <1>9, <1>11, <1>12, ProvidersInside

LEMMA WriteHolds ==
    ASSUME ProvidersInv, NEW h \in Administrators, Write(h)
    PROVE  ProvidersInv'
<1> DEFINE q == request[h]
           k0 == q.target
           S == {k0} \cup DOMAIN q.writes
           w == [k \in S |-> IF k = k0 THEN Updated(h) ELSE q.writes[k]]
           r == [q EXCEPT !.pc = "commit", !.writes = w]
<1>1. /\ q \in Requests /\ q.pc = "write"
      /\ ~Locked(h, k0) /\ config[k0].state # "gone"
      /\ config' = config /\ settled' = settled
      /\ request' = [request EXCEPT ![h] = r]
  BY DEF ProvidersInv, ProvidersTyping, Write, Writable
<1>2. k0 \in Configs
  BY <1>1 DEF ProvidersInv, WritesInTx
<1>3. S \in SUBSET Configs /\ \A k \in DOMAIN q.writes : q.writes[k] \in Rows
  BY <1>1, <1>2, WritesAre
<1>4. Seen(h, k0) \in Rows
  BY <1>2, <1>3 DEF Seen, ProvidersInv, ProvidersTyping
<1>5. /\ Updated(h) \in Rows /\ Updated(h).state = "live"
      /\ Updated(h).default = IF q.flag = "absent" THEN Seen(h, k0).default ELSE q.flag = "true"
  BY <1>1, <1>4 DEF Updated, Row, Rows, Requests
<1>6. w \in [S -> Rows]
  BY <1>3, <1>5
<1>7. w[k0] = Updated(h) /\ \A k \in DOMAIN q.writes \ {k0} : w[k] = q.writes[k]
  OBVIOUS
<1> HIDE DEF w
<1>8. w \in UNION {[ks -> Rows] : ks \in SUBSET Configs}
  <2> HIDE DEF S
  <2> QED BY <1>3, <1>6, WritesType
<1>9. r \in Requests /\ r.pc = "commit" /\ r.writes = w /\ r.target = k0
      /\ r.flag = q.flag /\ r.alone = q.alone
  BY <1>1, <1>8 DEF Requests
<1>10. DOMAIN r.writes = S /\ request'[h] = r
  BY <1>1, <1>6, <1>9 DEF ProvidersInv, ProvidersTyping
<1>11. UnsetOnly(h) /\ \A k \in DOMAIN q.writes : q.writes[k].default => q.writes[k].state = "live"
  BY DEF ProvidersInv, WritesMeanIt
<1> HIDE DEF r
<1>12. UnsetOnly(h)' /\ SetterWrote(h)' /\ OtherWrote(h)'
  <2>1. CASE SetsDefault(h)
    <3>1. \A k \in S : w[k].default <=> k = k0
      BY <1>1, <1>5, <1>7, <1>11, <2>1 DEF UnsetOnly, SetsDefault
    <3> QED BY <3>1, <1>5, <1>7, <1>9, <1>10, <2>1 DEF UnsetOnly, SetterWrote, OtherWrote, SetsDefault
  <2>2. CASE ~SetsDefault(h)
    <3>1. DOMAIN q.writes = {} /\ S = {k0}
      BY <1>1, <1>11, <2>2 DEF UnsetOnly
    <3>2. w[k0].default <=> config[k0].default /\ q.flag = "absent"
      BY <1>4, <1>5, <1>7, <2>2, <3>1 DEF Seen, SetsDefault, Rows
    <3> QED BY <3>1, <3>2, <1>1, <1>9, <1>10, <2>2 DEF UnsetOnly, SetterWrote, OtherWrote, SetsDefault
  <2> QED BY <2>1, <2>2
<1>13. \A k \in DOMAIN r.writes : ~Locked(h, k)
  <2>1. \A k \in DOMAIN q.writes : ~Locked(h, k)
    BY DEF ProvidersInv, LocksExclude, Locked
  <2> QED BY <2>1, <1>1, <1>10
<1>14. \A k \in DOMAIN r.writes : r.writes[k].default => r.writes[k].state = "live"
  BY <1>5, <1>7, <1>9, <1>10, <1>11
<1>15. Open(h) /\ (Setting(h) /\ r.alone => Defaults \subseteq DOMAIN r.writes)
  BY <1>1, <1>9, <1>10 DEF ProvidersInv, Alone, AloneHoldsAll, Open
<1> QED BY <1>1, <1>9, <1>12, <1>13, <1>14, <1>15, ProvidersInside

-----------------------------------------------------------------------------
\* What a commit does to the rows: a lone setter leaves its target the only
\* default, and a transaction that sets none makes none.
LEMMA CommitWrites ==
    ASSUME ProvidersInv, NEW h \in Administrators, Commit(h)
    PROVE  /\ config' \in [Configs -> Rows] /\ DefaultsLive'
           /\ \A k \in Configs \ DOMAIN request[h].writes : config'[k] = config[k]
           /\ SetsDefault(h) => request[h].target \in Defaults'
           /\ SetsDefault(h) /\ request[h].alone =>
                \A k \in Defaults' : k = request[h].target
           /\ ~SetsDefault(h) => Defaults' \subseteq Defaults
           /\ ~SetsDefault(h) => \A k \in Defaults \ Defaults' :
                k = request[h].target /\ request[h].flag = "false"
<1> DEFINE q == request[h]
<1>1. /\ q.pc = "commit" /\ q \in Requests
      /\ config' = [k \in Configs |-> Seen(h, k)]
  BY DEF Commit, ProvidersInv, ProvidersTyping
<1>2. DOMAIN q.writes \subseteq Configs /\ \A k \in DOMAIN q.writes : q.writes[k] \in Rows
  BY <1>1, WritesAre
<1>3. \A k \in Configs : config'[k] = IF k \in DOMAIN q.writes THEN q.writes[k] ELSE config[k]
  BY <1>1 DEF Seen
<1>4. config' \in [Configs -> Rows]
  BY <1>1, <1>2, <1>3 DEF ProvidersInv, ProvidersTyping
<1>5. DefaultsLive'
  BY <1>2, <1>3 DEF ProvidersInv, DefaultsLive, IsLive, WritesMeanIt
<1>6. SetsDefault(h) => q.target \in Defaults'
  BY <1>1, <1>2, <1>3 DEF ProvidersInv, WritesMeanIt, SetterWrote, Defaults, IsLive
<1>7. ASSUME SetsDefault(h), q.alone, NEW k \in Defaults'
      PROVE  k = q.target
  <2>1. Defaults \subseteq DOMAIN q.writes
    BY <1>1, <1>7 DEF ProvidersInv, Alone, AloneHoldsAll, Setting, Open
  <2>2. k \in DOMAIN q.writes
    BY <1>3, <2>1 DEF Defaults, IsLive
  <2>3. q.writes[k].default
    BY <1>3, <2>2 DEF Defaults
  <2> QED BY <1>1, <1>7, <2>2, <2>3 DEF ProvidersInv, WritesMeanIt, SetterWrote
<1>8. ASSUME ~SetsDefault(h)
      PROVE  /\ Defaults' \subseteq Defaults
             /\ \A k \in Defaults \ Defaults' : k = q.target /\ q.flag = "false"
  <2>1. \A k \in DOMAIN q.writes :
            k = q.target /\ (q.writes[k].default <=> config[k].default /\ q.flag = "absent")
    BY <1>1, <1>8 DEF ProvidersInv, WritesMeanIt, OtherWrote
  <2>2. \A k \in Configs : config[k].default => config[k].state = "live"
    BY DEF ProvidersInv, DefaultsLive, IsLive
  <2>3. \A k \in Configs : config'[k].default => config'[k].state = "live"
    BY <1>5 DEF DefaultsLive, IsLive
  <2>4. q.flag \in Flags /\ q.flag # "true"
    BY <1>1, <1>8 DEF Requests, SetsDefault
  <2> QED BY <1>3, <2>1, <2>2, <2>3, <2>4 DEF Defaults, IsLive, Flags
<1> QED BY <1>3, <1>4, <1>5, <1>6, <1>7, <1>8

LEMMA CommitHolds ==
    ASSUME ProvidersInv, NEW h \in Administrators, Commit(h)
    PROVE  ProvidersInv'
<1>1. NoRequest \in Requests /\ NoRequest.pc = "idle" /\ DOMAIN NoRequest.writes = {}
  BY EmptyWrites DEF NoRequest
<1>2. /\ request' = [request EXCEPT ![h] = NoRequest] /\ request[h] \in Requests
      /\ settled' = IF SetsDefault(h) THEN request[h].alone ELSE settled
      /\ request[h].pc = "commit"
  BY DEF Commit, Answered, ProvidersInv, ProvidersTyping
<1>3. settled' \in BOOLEAN
  BY <1>2 DEF ProvidersInv, ProvidersTyping, Requests
<1>4. DefaultsOnlyByOverlap'
  <2>1. CASE SetsDefault(h)
    BY <2>1, <1>2, CommitWrites DEF DefaultsOnlyByOverlap
  <2>2. CASE ~SetsDefault(h)
    BY <2>2, <1>2, CommitWrites DEF DefaultsOnlyByOverlap, ProvidersInv
  <2> QED BY <2>1, <2>2
<1>5. \A k \in Configs : config'[k] # config[k] => ~Locked(h, k)
  BY CommitWrites DEF Locked, ProvidersInv, LocksExclude
<1>6. \/ Defaults' \subseteq Defaults
      \/ \A g \in Administrators \ {h} : ~(Setting(g) /\ request[g].alone)
  <2>1. CASE SetsDefault(h)
    <3>1. Setting(h)
      BY <2>1, <1>2 DEF Setting, Open
    <3> QED BY <3>1 DEF ProvidersInv, Alone, AloneHoldsAll
  <2>2. CASE ~SetsDefault(h)
    BY <2>2, CommitWrites
  <2> QED BY <2>1, <2>2
<1> QED BY <1>1, <1>2, <1>3, <1>4, <1>5, <1>6, CommitWrites, ProvidersQuiet

LEMMA ProvidersNextHolds == ProvidersInv /\ [ProvidersNext]_providersVars => ProvidersInv'
<1>1. ASSUME ProvidersInv, NEW h \in Administrators, ProvidersStep(h) PROVE ProvidersInv'
  <2> USE <1>1
  <2> DEFINE k0 == request[h].target
  <2>0. request[h].pc # "idle" => k0 \in Configs
    BY DEF ProvidersInv, WritesInTx
  <2>1. CASE StartCreate(h)
    BY <2>1, LoadHolds DEF StartCreate, Flags
  <2>2. CASE StartUpdate(h)
    BY <2>2, LoadHolds DEF StartUpdate
  <2>3. CASE StartSetDefault(h)
    BY <2>3, LoadHolds DEF StartSetDefault, Flags
  <2>4. CASE StartDelete(h)
    BY <2>4, LoadHolds DEF StartDelete, Flags
  <2>5. CASE BeginTx(h)
    BY <2>5, ProvidersBeginHolds
  <2>6. CASE UnsetDefault(h)
    BY <2>6, UnsetHolds
  <2>7. CASE Write(h)
    BY <2>7, WriteHolds
  <2>8. CASE Commit(h)
    BY <2>8, CommitHolds
  <2>9. CASE Rollback(h)
    BY <2>9, AnsweredHolds DEF Rollback
  <2>10. CASE DeleteConfig(h)
    BY <2>10, <2>0, AnsweredHolds DEF DeleteConfig
  <2> QED BY <2>1, <2>2, <2>3, <2>4, <2>5, <2>6, <2>7, <2>8, <2>9, <2>10 DEF ProvidersStep
<1>2. ASSUME ProvidersInv, UNCHANGED providersVars PROVE ProvidersInv'
  <2> USE <1>2 DEF providersVars
  <2>1. ProvidersTyping' /\ DefaultsLive' /\ WritesInTx' /\ LocksExclude' /\ DefaultsOnlyByOverlap'
    BY DEF ProvidersInv, ProvidersTyping, DefaultsLive, IsLive, WritesInTx, LocksExclude,
           DefaultsOnlyByOverlap, Defaults
  <2>2. WritesMeanIt'
    BY DEF ProvidersInv, WritesMeanIt, UnsetOnly, SetterWrote, OtherWrote, SetsDefault
  <2>3. Alone'
    BY DEF ProvidersInv, Alone, AloneHoldsAll, Setting, Open, SetsDefault, Defaults, IsLive
  <2> QED BY <2>1, <2>2, <2>3 DEF ProvidersInv
<1> QED BY <1>1, <1>2 DEF ProvidersNext

\* The invariant every step of a request preserves: what a transaction has
\* written, which rows it holds, and what a lone setter has in its hands.
THEOREM InductiveInvariant == ProvidersSpec => []ProvidersInv
<1> QED BY ProvidersInitHolds, ProvidersNextHolds, PTL DEF ProvidersSpec

\* An organization has more than one default only as long as the last
\* transaction that set one (create, update, setDefault) met another: for any
\* number of configurations and overlapping requests.
THEOREM OneDefault == ProvidersSpec => []DefaultsOnlyByOverlap
<1>1. ProvidersInv => DefaultsOnlyByOverlap
  BY DEF ProvidersInv
<1> QED BY <1>1, InductiveInvariant, PTL

\* No rollback and no race takes the default away: it goes by a deletion of
\* it, or by an update that clears its flag.
THEOREM DefaultStays == ProvidersSpec => DefaultGoesOnlyByChoice
<1> DEFINE Gives == \E h \in Administrators :
                        /\ request[h].target \in Defaults
                        /\ request[h].pc = "delete" \/ request[h].flag = "false"
                        /\ request'[h] = NoRequest
           Goes == Defaults # {} /\ Defaults' = {}
<1>1. ASSUME ProvidersInv, ProvidersNext, Goes PROVE Gives
  <2> USE <1>1
  <2>1. PICK h \in Administrators : ProvidersStep(h)
    BY DEF ProvidersNext
  <2>2. PICK d \in Configs : d \in Defaults /\ d \notin Defaults' /\ config'[d] # config[d]
    BY DEF Defaults, IsLive
  <2>3. CASE Commit(h)
    <3>1. ~SetsDefault(h)
      BY <2>3, CommitWrites
    <3>2. d = request[h].target /\ request[h].flag = "false"
      BY <2>2, <2>3, <3>1, CommitWrites
    <3> QED BY <2>2, <2>3, <3>2 DEF Commit, Answered, ProvidersInv, ProvidersTyping
  <2>4. CASE DeleteConfig(h)
    <3>1. d = request[h].target /\ request[h].pc = "delete"
      BY <2>2, <2>4 DEF DeleteConfig, ProvidersInv, ProvidersTyping
    <3> QED BY <2>2, <2>4, <3>1 DEF DeleteConfig, Answered, ProvidersInv, ProvidersTyping
  <2>5. CASE ~Commit(h) /\ ~DeleteConfig(h)
    <3>1. config' = config
      BY <2>1, <2>5 DEF ProvidersStep, StartCreate, StartUpdate, StartSetDefault, StartDelete,
         Load, BeginTx, UnsetDefault, Write, Rollback
    <3> QED BY <2>2, <3>1
  <2> QED BY <2>3, <2>4, <2>5
<1>2. ProvidersInv /\ [ProvidersNext]_providersVars => [Goes => Gives]_providersVars
  BY <1>1
<1> QED BY <1>2, InductiveInvariant, PTL DEF ProvidersSpec, DefaultGoesOnlyByChoice

-----------------------------------------------------------------------------
\* Names.  A transaction renames its target only, to a name that no live row
\* has and that no other transaction has taken or is about to give up.
NamesDiffer ==
    \A j, k \in Configs : IsLive(j) /\ IsLive(k) /\ config[j].name = config[k].name => j = k
NamesKept(h) ==
    \A k \in DOMAIN request[h].writes :
        k # request[h].target \/ request[h].pc = "write" =>
            IsLive(k) /\ request[h].writes[k].name = config[k].name
NameTaken(h) ==
    request[h].pc = "commit" =>
        /\ request[h].target \in DOMAIN request[h].writes
        /\ \A j \in Configs \ {request[h].target} :
            IsLive(j) => config[j].name # request[h].writes[request[h].target].name
NamesApart(g, h) ==
    \A j \in DOMAIN request[g].writes, k \in DOMAIN request[h].writes :
        request[g].writes[j].name # request[h].writes[k].name

NamesInv ==
    /\ NamesDiffer
    /\ \A h \in Administrators : NamesKept(h) /\ NameTaken(h)
    /\ \A g, h \in Administrators : g # h => NamesApart(g, h)

\* A request that has nothing written after a step takes no name, as long as
\* rows only change to go, and none that another transaction has written.
LEMMA NamesQuiet ==
    ASSUME ProvidersInv, NamesInv, NEW h \in Administrators,
           DOMAIN request'[h].writes = {}, request'[h].pc # "commit",
           \A g \in Administrators \ {h} :
              /\ request'[g].writes = request[g].writes
              /\ request'[g].pc = request[g].pc /\ request'[g].target = request[g].target,
           \A k \in Configs : config'[k] = config[k] \/ (~IsLive(k)' /\ ~Locked(h, k))
    PROVE  NamesInv'
<1>1. NamesDiffer'
  BY DEF NamesInv, NamesDiffer, IsLive
<1>2. ASSUME NEW g \in Administrators, g # h PROVE NamesKept(g)' /\ NameTaken(g)'
  <2>1. NamesKept(g) /\ NameTaken(g)
    BY DEF NamesInv
  <2>2. DOMAIN request[g].writes \subseteq Configs
    BY WritesAre DEF ProvidersInv, ProvidersTyping
  <2>3. \A k \in DOMAIN request[g].writes : config'[k] = config[k]
    BY <1>2, <2>2 DEF Locked
  <2>4. NamesKept(g)'
    BY <1>2, <2>1, <2>3 DEF NamesKept, IsLive
  <2>5. NameTaken(g)'
    BY <1>2, <2>1 DEF NameTaken, IsLive
  <2> QED BY <2>4, <2>5
<1>3. NamesKept(h)' /\ NameTaken(h)'
  BY DEF NamesKept, NameTaken
<1>4. ASSUME NEW g \in Administrators, NEW f \in Administrators, g # f PROVE NamesApart(g, f)'
  <2>1. NamesApart(g, f)
    BY <1>4 DEF NamesInv
  <2> QED BY <1>4, <2>1 DEF NamesApart
<1> QED BY <1>1, <1>2, <1>3, <1>4 DEF NamesInv

\* A statement inside h's transaction: rows stay, and what h has written by
\* now takes no name another row or transaction has.
LEMMA NamesInside ==
    ASSUME ProvidersInv, NamesInv, NEW h \in Administrators, config' = config,
           \A g \in Administrators \ {h} : request'[g] = request[g],
           NamesKept(h)', NameTaken(h)',
           \A g \in Administrators \ {h} : NamesApart(g, h)'
    PROVE  NamesInv'
<1>1. NamesDiffer'
  BY DEF NamesInv, NamesDiffer, IsLive
<1>2. ASSUME NEW g \in Administrators, g # h PROVE NamesKept(g)' /\ NameTaken(g)'
  BY <1>2 DEF NamesInv, NamesKept, NameTaken, IsLive
<1>3. ASSUME NEW g \in Administrators, NEW f \in Administrators, g # f PROVE NamesApart(g, f)'
  <2>1. NamesApart(g, f)
    BY <1>3 DEF NamesInv
  <2>2. CASE g # h /\ f # h
    BY <2>1, <2>2 DEF NamesApart
  <2>3. CASE f = h
    BY <1>3, <2>3
  <2>4. CASE g = h
    <3>1. NamesApart(f, g)'
      BY <1>3, <2>4
    <3> QED BY <3>1 DEF NamesApart
  <2> QED BY <2>2, <2>3, <2>4
<1> QED BY <1>1, <1>2, <1>3 DEF NamesInv

\* Taking the flag from a row keeps its name, which no transaction that has
\* written another row has taken.
LEMMA NamesUnset ==
    ASSUME ProvidersInv, NamesInv, NEW h \in Administrators, UnsetDefault(h)
    PROVE  NamesInv'
<1>1. PICK S \in SUBSET Configs : S = request[h].todo \cap Defaults
  BY DEF Defaults
<1>2. /\ request[h] \in Requests /\ request[h].pc = "unset" /\ config' = config
      /\ \A k \in S : ~Locked(h, k)
      /\ request'[h].pc = "write" /\ request'[h].writes = [k \in S |-> Unset(k)]
      /\ \A g \in Administrators \ {h} : request'[g] = request[g]
  BY <1>1 DEF ProvidersInv, ProvidersTyping, UnsetDefault, Requests
<1>3. \A k \in S : IsLive(k) /\ Unset(k).name = config[k].name
  BY <1>1 DEF Defaults, Unset, ProvidersInv, ProvidersTyping, Rows
<1>4. NamesKept(h)' /\ NameTaken(h)'
  BY <1>2, <1>3 DEF NamesKept, NameTaken, IsLive
<1>5. ASSUME NEW g \in Administrators, g # h PROVE NamesApart(g, h)'
  <2> SUFFICES ASSUME NEW j \in DOMAIN request[g].writes, NEW k \in S
               PROVE  request[g].writes[j].name # config[k].name
    BY <1>2, <1>3, <1>5 DEF NamesApart
  <2>1. j \in Configs /\ request[g].pc \in {"write", "commit"}
    BY WritesAre DEF ProvidersInv, ProvidersTyping, WritesInTx
  <2>2. k # j
    BY <1>2, <1>5 DEF Locked
  <2>3. NamesKept(g) /\ NameTaken(g) /\ NamesDiffer
    BY DEF NamesInv
  <2>4. CASE j # request[g].target \/ request[g].pc = "write"
    BY <1>3, <2>1, <2>2, <2>3, <2>4 DEF NamesKept, NamesDiffer
  <2>5. CASE j = request[g].target /\ request[g].pc = "commit"
    BY <1>3, <2>2, <2>3, <2>5 DEF NameTaken
  <2> QED BY <2>1, <2>4, <2>5
<1> QED BY <1>2, <1>4, <1>5, NamesInside

\* The unique index lets a write through that takes a free name.
LEMMA NamesWrite ==
    ASSUME ProvidersInv, NamesInv, NEW h \in Administrators, Write(h)
    PROVE  NamesInv'
<1>1. PICK k0 \in Configs : k0 = request[h].target
  BY DEF Write, ProvidersInv, WritesInTx
<1>2. PICK row : row = Updated(h)
  OBVIOUS
<1>3. PICK S : S = {k0} \cup DOMAIN request[h].writes
  OBVIOUS
<1>4. /\ request[h] \in Requests /\ request[h].pc = "write" /\ config' = config
      /\ NameIsFree(h, row.name)
      /\ request' = [request EXCEPT ![h].pc = "commit",
            ![h].writes = [k \in S |-> IF k = k0 THEN row ELSE request[h].writes[k]]]
  BY <1>1, <1>2, <1>3 DEF ProvidersInv, ProvidersTyping, Write, Writable
<1>5. /\ request'[h].pc = "commit" /\ request'[h].target = k0
      /\ request'[h].writes = [k \in S |-> IF k = k0 THEN row ELSE request[h].writes[k]]
      /\ \A g \in Administrators \ {h} : request'[g] = request[g]
  BY <1>1, <1>4 DEF ProvidersInv, ProvidersTyping, Requests
<1>6. NamesKept(h)'
  BY <1>3, <1>4, <1>5 DEF NamesInv, NamesKept, IsLive
<1>7. NameTaken(h)'
  <2>1. k0 \in DOMAIN request'[h].writes /\ request'[h].writes[k0] = row
    BY <1>3, <1>5
  <2>2. \A j \in Configs \ {k0} : config'[j].name # row.name
    BY <1>1, <1>4 DEF NameIsFree
  <2> QED BY <1>5, <2>1, <2>2 DEF NameTaken
<1>8. ASSUME NEW g \in Administrators, g # h PROVE NamesApart(g, h)'
  <2>1. NamesApart(g, h) /\ DOMAIN request[g].writes \subseteq Configs
    BY <1>8, WritesAre DEF NamesInv, ProvidersInv, ProvidersTyping
  <2>2. k0 \notin DOMAIN request[g].writes
    BY <1>1, <1>8 DEF Write, Writable, Locked
  <2>3. \A j \in DOMAIN request[g].writes : request[g].writes[j].name # row.name
    BY <1>1, <1>4, <1>8, <2>1, <2>2 DEF NameIsFree
  <2> QED BY <1>3, <1>5, <1>8, <2>1, <2>3 DEF NamesApart
<1> QED BY <1>4, <1>5, <1>6, <1>7, <1>8, NamesInside

\* A commit shows the names that nobody else has or has taken.
LEMMA NamesCommit ==
    ASSUME ProvidersInv, NamesInv, NEW h \in Administrators, Commit(h)
    PROVE  NamesInv'
<1>1. /\ request[h].pc = "commit" /\ request[h] \in Requests
      /\ \A k \in Configs : config'[k] =
            IF k \in DOMAIN request[h].writes THEN request[h].writes[k] ELSE config[k]
      /\ request'[h] = NoRequest /\ \A g \in Administrators \ {h} : request'[g] = request[g]
  BY DEF Commit, Answered, Seen, ProvidersInv, ProvidersTyping
<1>2. PICK k0 \in Configs : k0 = request[h].target
  BY <1>1 DEF ProvidersInv, WritesInTx
<1>3. /\ k0 \in DOMAIN request[h].writes
      /\ \A j \in Configs \ {k0} : IsLive(j) => config[j].name # request[h].writes[k0].name
      /\ \A k \in DOMAIN request[h].writes \ {k0} :
            IsLive(k) /\ request[h].writes[k].name = config[k].name
  BY <1>1, <1>2 DEF NamesInv, NameTaken, NamesKept
<1>4. \A k \in Configs \ {k0} : IsLive(k)' => IsLive(k) /\ config'[k].name = config[k].name
  BY <1>1, <1>3 DEF IsLive
<1>5. NamesDiffer'
  <2> SUFFICES ASSUME NEW j \in Configs, NEW k \in Configs, IsLive(j)', IsLive(k)',
                      config'[j].name = config'[k].name
               PROVE  j = k
    BY DEF NamesDiffer
  <2>1. config'[k0].name = request[h].writes[k0].name
    BY <1>1, <1>3
  <2> QED BY <1>3, <1>4, <2>1 DEF NamesInv, NamesDiffer
<1>6. ASSUME NEW g \in Administrators, g # h PROVE NamesKept(g)' /\ NameTaken(g)'
  <2>1. NamesKept(g) /\ NameTaken(g) /\ NamesApart(g, h)
    BY <1>6 DEF NamesInv
  <2>2. \A k \in DOMAIN request[g].writes : k \in Configs /\ config'[k] = config[k]
    <3>1. DOMAIN request[g].writes \subseteq Configs
      BY WritesAre DEF ProvidersInv, ProvidersTyping
    <3> QED BY <1>1, <1>6, <3>1 DEF ProvidersInv, LocksExclude
  <2>3. NamesKept(g)'
    BY <1>1, <1>6, <2>1, <2>2 DEF NamesKept, IsLive
  <2>4. NameTaken(g)'
    BY <1>1, <1>6, <2>1 DEF NameTaken, NamesApart, IsLive
  <2> QED BY <2>3, <2>4
<1>7. NamesKept(h)' /\ NameTaken(h)'
  BY <1>1, EmptyWrites DEF NamesKept, NameTaken, NoRequest
<1>8. ASSUME NEW g \in Administrators, NEW f \in Administrators, g # f PROVE NamesApart(g, f)'
  <2>1. NamesApart(g, f)
    BY <1>8 DEF NamesInv
  <2> QED BY <1>1, <2>1, EmptyWrites DEF NamesApart
<1> QED BY <1>5, <1>6, <1>7, <1>8 DEF NamesInv

LEMMA NamesNextHolds ==
    ProvidersInv /\ NamesInv /\ [ProvidersNext]_providersVars => NamesInv'
<1>1. ASSUME ProvidersInv, NamesInv, NEW h \in Administrators, ProvidersStep(h) PROVE NamesInv'
  <2> USE <1>1
  <2>1. \A g \in Administrators : request[g] \in Requests
    BY DEF ProvidersInv, ProvidersTyping
  <2>2. CASE Answered(h) /\ config' = config
    <3>1. request'[h] = NoRequest /\ \A g \in Administrators \ {h} : request'[g] = request[g]
      BY <2>2 DEF Answered, ProvidersInv, ProvidersTyping
    <3>2. DOMAIN request'[h].writes = {} /\ request'[h].pc # "commit"
      BY <3>1, EmptyWrites DEF NoRequest
    <3> QED BY <2>2, <3>1, <3>2, NamesQuiet
  <2>3. CASE DeleteConfig(h)
    <3>1. request'[h] = NoRequest /\ \A g \in Administrators \ {h} : request'[g] = request[g]
      BY <2>3 DEF DeleteConfig, Answered, ProvidersInv, ProvidersTyping
    <3>2. \A k \in Configs : config'[k] = config[k] \/ (~IsLive(k)' /\ ~Locked(h, k))
      <4>1. PICK k0 \in Configs : k0 = request[h].target
        BY <2>3 DEF DeleteConfig, ProvidersInv, WritesInTx
      <4>2. config' = [config EXCEPT ![k0] = Gone] /\ ~Locked(h, k0)
        BY <2>3, <4>1 DEF DeleteConfig
      <4>3. /\ config'[k0] = Gone /\ Gone.state # "live"
            /\ \A k \in Configs \ {k0} : config'[k] = config[k]
        BY <4>2 DEF Gone, ProvidersInv, ProvidersTyping
      <4> QED BY <4>2, <4>3 DEF IsLive
    <3>3. DOMAIN request'[h].writes = {} /\ request'[h].pc # "commit"
      BY <3>1, EmptyWrites DEF NoRequest
    <3> QED BY <3>1, <3>2, <3>3, NamesQuiet
  <2>4. CASE BeginTx(h)
    <3>1. /\ config' = config
          /\ request'[h].writes = request[h].writes /\ request'[h].pc # "commit"
          /\ \A g \in Administrators \ {h} :
                /\ request'[g].writes = request[g].writes
                /\ request'[g].pc = request[g].pc /\ request'[g].target = request[g].target
      BY <2>1, <2>4 DEF BeginTx, Requests
    <3>2. DOMAIN request'[h].writes = {}
      BY <2>4, <3>1 DEF BeginTx, ProvidersInv, WritesInTx
    <3> QED BY <3>1, <3>2, NamesQuiet
  <2>5. ASSUME NEW pc, NEW k \in Configs, NEW n, NEW flag, Load(h, pc, k, n, flag),
               pc \in {"begin", "delete"}
        PROVE  NamesInv'
    <3>1. /\ config' = config /\ DOMAIN request'[h].writes = {} /\ request'[h].pc # "commit"
          /\ \A g \in Administrators \ {h} : request'[g] = request[g]
      BY <2>5, EmptyWrites DEF Load, NoRequest, ProvidersInv, ProvidersTyping
    <3> QED BY <3>1, NamesQuiet
  <2>6. CASE StartCreate(h) \/ StartUpdate(h) \/ StartSetDefault(h) \/ StartDelete(h)
    BY <2>5, <2>6 DEF StartCreate, StartUpdate, StartSetDefault, StartDelete
  <2> QED BY <2>2, <2>3, <2>4, <2>6, NamesUnset, NamesWrite, NamesCommit
         DEF ProvidersStep, Rollback
<1>2. ASSUME NamesInv, UNCHANGED providersVars PROVE NamesInv'
  BY <1>2 DEF providersVars, NamesInv, NamesDiffer, NamesKept, NameTaken, NamesApart, IsLive
<1> QED BY <1>1, <1>2 DEF ProvidersNext

\* The names of an organization's configurations differ, whatever requests
\* that looked for a free name overlap: the unique index over what their
\* transactions write.
THEOREM ProvidersTyped == ProvidersSpec => []ProvidersTypeOK
<1>1. ProvidersInit => NamesInv
  <2> SUFFICES ASSUME ProvidersInit PROVE NamesInv
    OBVIOUS
  <2>1. /\ \A k \in Configs : ~IsLive(k)
        /\ \A h \in Administrators : request[h].pc = "idle" /\ DOMAIN request[h].writes = {}
    BY EmptyWrites DEF ProvidersInit, IsLive, NoConfig, NoRequest
  <2> QED BY <2>1 DEF NamesInv, NamesDiffer, NamesKept, NameTaken, NamesApart
<1>2. ProvidersInv /\ NamesInv => ProvidersTypeOK
  BY DEF ProvidersInv, ProvidersTyping, NamesInv, NamesDiffer, ProvidersTypeOK
<1> QED BY <1>1, <1>2, InductiveInvariant, NamesNextHolds, PTL DEF ProvidersSpec
=============================================================================
