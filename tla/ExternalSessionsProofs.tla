----------------------- MODULE ExternalSessionsProofs -----------------------
(***************************************************************************)
(* Theorems about ExternalSessions, for every number of callers, endpoints *)
(* and changes.  The operations read the session in use, the generation    *)
(* and the metadata at different times and under different locks, so the   *)
(* invariant says what a caller may still rely on at each of its places.   *)
(***************************************************************************)
EXTENDS ExternalSessions, TLAPS, FiniteSetTheorems

\* Where a caller goes on after a cleanup.
Nexts == {"idle", "live", "lock", "snapshot", "relive"}

\* The records of callers and of sessions.
CallerStates == [
  at : Places, s : 0..MaxEndpoints, base : 0..MaxChanges, lost : Nat,
  res : {"none", "failed", "retryable", "unavailable", "closed"},
  next : {"idle", "live", "lock", "snapshot", "relive"}]
SessionStates == [
  gen : 0..MaxChanges, meta : Metas \cup {None}, reader : BOOLEAN,
  child : {"none", "running", "broken", "exited"},
  state : {"initializing", "ready", "closing", "closed"},
  closer : {"none", "begin", "shutdown", "reap"},
  pending : SUBSET Callers]

TypeInv ==
  /\ ext \in [session : 0..MaxEndpoints, gen : 0..MaxChanges,
              refused : BOOLEAN, dropped : BOOLEAN]
  /\ meta \in Metas \cup {None}
  /\ launch \in Callers \cup {None}
  /\ ses \in [Sessions -> SessionStates]
  /\ pc \in [Callers -> CallerStates]

\* Callers that start an endpoint, and callers on their way to a request.
Starting == {"connecting", "initialized", "publish"}
AtEndpoint == {"start", "register", "waiting"}

\* Where a caller has a session, it is one.
PlaceInv ==
  \A c \in Callers :
    pc[c].at \in Starting \cup AtEndpoint \cup {"returned", "closing"} => pc[c].s \in Sessions

\* From the second look at the session to its publication a caller holds the
\* launch lock, also while it waits for a cleanup in between.
Owns(c) ==
  \/ pc[c].at \in Starting \cup {"relive", "snapshot"}
  \/ pc[c].at = "closing" /\ pc[c].next \in {"snapshot", "relive"}
LaunchInv == \A c \in Callers : Owns(c) => launch = c

\* Past that second look nobody else publishes a session.
Launches(c) ==
  \/ pc[c].at \in Starting \cup {"snapshot"}
  \/ pc[c].at = "closing" /\ pc[c].next = "snapshot"
EmptyInv == \A c \in Callers : Launches(c) => ext.session = 0

\* An endpoint that is being started belongs to its caller.
StartInv ==
  \A c \in Callers : pc[c].at \in Starting =>
    /\ ses[pc[c].s].child # "none" /\ ses[pc[c].s].closer = "none"
    /\ \A d \in Callers : d # c => pc[d].s # pc[c].s

\* The session in use has an endpoint, nobody cleans it up, and it was
\* initialized with the inputs in force.
UseInv ==
  ext.session # 0 =>
    /\ ses[ext.session].child # "none" /\ ses[ext.session].closer = "none"
    /\ ses[ext.session].gen = ext.gen
    /\ ses[ext.session].meta \in {meta, None}

\* The endpoint a request is meant for keeps its record until it is reaped.
EndpointInv ==
  \A c \in Callers :
    /\ pc[c].base <= ext.gen
    /\ pc[c].at \in AtEndpoint =>
         /\ ses[pc[c].s].child = "none" \/ ses[pc[c].s].gen >= pc[c].base
         /\ ses[pc[c].s].meta \in {meta, None}

\* Whoever has an entry in `pending` waits for that session.
PendingInv ==
  \A n \in Sessions, c \in Callers :
    c \in ses[n].pending => pc[c].at = "waiting" /\ pc[c].s = n

\* What is unknown of earlier requests of an operation, at each place.
LostOk(c) ==
  /\ pc[c].lost <= 1
  /\ pc[c].at \notin {"waiting", "returned", "closing"} => pc[c].lost = 0
  /\ pc[c].at = "waiting" => pc[c].lost = 1
  /\ pc[c].at = "returned" /\ pc[c].res \in Transient => pc[c].lost = 0
  /\ pc[c].at = "closing" /\ pc[c].next # "idle" => pc[c].lost = 0
LostInv == \A c \in Callers : LostOk(c)

\* Permits are never handed out beyond the limit.
PermitInv == \A n \in Sessions : Cardinality(Holders(n)) <= MaxInFlight

IInv == TypeInv /\ PlaceInv /\ LaunchInv /\ EmptyInv /\ StartInv /\ UseInv
        /\ EndpointInv /\ PendingInv /\ LostInv /\ PermitInv /\ NoOrphans

USE SizesAssumption

----------------------------------------------------------------------------
(* Types *)

\* Records with a field replaced keep their type.
LEMMA Records ==
  /\ NoSession \in SessionStates /\ Idle \in CallerStates
  /\ \A r \in SessionStates : Failed(r) \in SessionStates
  /\ \A r \in SessionStates, at \in {"none", "begin", "shutdown", "reap"} :
       [r EXCEPT !.closer = at] \in SessionStates
  /\ \A r \in CallerStates, at \in Places : [r EXCEPT !.at = at] \in CallerStates
  /\ \A r \in CallerStates, at \in Places, n \in 0..MaxEndpoints :
       [r EXCEPT !.at = at, !.s = n] \in CallerStates
  /\ \A r \in SessionStates, P \in SUBSET Callers : [r EXCEPT !.pending = P] \in SessionStates
  /\ \A r \in SessionStates, at \in {"ready", "closing"} : [r EXCEPT !.state = at] \in SessionStates
  /\ \A r \in CallerStates, at \in Places, k \in Nat :
       [r EXCEPT !.at = at, !.lost = k] \in CallerStates
<1>1. NoSession \in SessionStates
  BY DEF NoSession, SessionStates
<1>2. Idle \in CallerStates
  BY DEF Idle, CallerStates, Places
<1>3. ASSUME NEW r \in SessionStates PROVE Failed(r) \in SessionStates
  BY <1>3 DEF Failed, SessionStates
<1>4. ASSUME NEW r \in SessionStates, NEW at \in {"none", "begin", "shutdown", "reap"}
      PROVE  [r EXCEPT !.closer = at] \in SessionStates
  BY <1>4 DEF SessionStates
<1>5. ASSUME NEW r \in CallerStates, NEW at \in Places
      PROVE  [r EXCEPT !.at = at] \in CallerStates
  BY <1>5 DEF CallerStates
<1>6. ASSUME NEW r \in CallerStates, NEW at \in Places, NEW n \in 0..MaxEndpoints
      PROVE  [r EXCEPT !.at = at, !.s = n] \in CallerStates
  BY <1>6 DEF CallerStates
<1>7. ASSUME NEW r \in SessionStates, NEW P \in SUBSET Callers
      PROVE  [r EXCEPT !.pending = P] \in SessionStates
  BY <1>7 DEF SessionStates
<1>8. ASSUME NEW r \in SessionStates, NEW at \in {"ready", "closing"}
      PROVE  [r EXCEPT !.state = at] \in SessionStates
  BY <1>8 DEF SessionStates
<1>9. ASSUME NEW r \in CallerStates, NEW at \in Places, NEW k \in Nat
      PROVE  [r EXCEPT !.at = at, !.lost = k] \in CallerStates
  BY <1>9 DEF CallerStates
<1> QED BY <1>1, <1>2, <1>3, <1>4, <1>5, <1>6, <1>7, <1>8, <1>9

\* A caller goes through the branches of CloseLive, Resume and Finish with a
\* record of its type.
LEMMA TypeStep ==
  ASSUME TypeInv, PlaceInv, LostInv, PendingInv, Next
  PROVE  TypeInv'
<1> USE DEF TypeInv, Nexts
<1> DEFINE Results == {"none", "failed", "retryable", "unavailable", "closed"}
<1>0. NoSession \in SessionStates /\ Idle \in CallerStates
  BY Records
<1>p. \A c \in Callers : pc[c] \in CallerStates
  OBVIOUS
<1>s. \A n \in Sessions : ses[n] \in SessionStates /\ n \in 0..MaxEndpoints
  BY DEF Sessions
<1>f. \A n \in Sessions : Failed(ses[n]) \in SessionStates
  BY <1>s, Records
<1>c. ASSUME NEW c \in Callers, NEW n \in Sessions, NEW next \in Nexts, CloseLive(c, n, next)
      PROVE  ses' \in [Sessions -> SessionStates] /\ pc' \in [Callers -> CallerStates]
  <2> HIDE DEF TypeInv
  <2>1. [pc[c] EXCEPT !.at = "closing", !.s = n, !.next = next, !.res = "none"] \in CallerStates
    BY <1>p, <1>s DEF CallerStates, Places
  <2>2. [ses[n] EXCEPT !.closer = "begin"] \in SessionStates
    BY <1>s, Records
  <2> QED BY <1>c, <2>1, <2>2 DEF CloseLive, TypeInv
<1>n. ASSUME NEW c \in Callers, Finish(c)
      PROVE  pc' \in [Callers -> CallerStates] /\ launch' \in Callers \cup {None}
  BY <1>0, <1>n DEF Finish
<1>r. ASSUME NEW c \in Callers, NEW next \in Nexts, Resume(c, next)
      PROVE  pc' \in [Callers -> CallerStates] /\ launch' \in Callers \cup {None}
  <2>1. CASE next = "idle"
    BY <1>r, <2>1, <1>n DEF Resume
  <2>2. CASE next # "idle"
    <3>1. [Idle EXCEPT !.at = next, !.base = pc[c].base, !.lost = pc[c].lost] \in CallerStates
      <4> HIDE DEF TypeInv
      <4> QED BY <1>p, <1>0 DEF CallerStates, Places
    <3> QED BY <1>r, <2>2, <3>1 DEF Resume
  <2> QED BY <2>1, <2>2
<1>g. ASSUME NEW c \in Callers, NEW at \in Places, Goto(c, at) PROVE pc' \in [Callers -> CallerStates]
  BY <1>g, <1>p, Records DEF Goto
<1>t. ASSUME NEW c \in Callers, NEW res \in Results, Returned(c, res)
      PROVE  pc' \in [Callers -> CallerStates]
  <2>1. [pc[c] EXCEPT !.at = "returned", !.res = res] \in CallerStates
    <3> HIDE DEF TypeInv
    <3> QED BY <1>p DEF CallerStates, Places
  <2> QED BY <1>t, <2>1 DEF Returned
<1>1. ASSUME NEW c \in Callers, Begin(c) PROVE TypeInv'
  BY <1>1, <1>0 DEF Begin, Idle, CallerStates, Places
<1>2. ASSUME NEW c \in Callers, LiveSession(c) PROVE TypeInv'
  <2>1. CASE Finish(c) /\ UNCHANGED <<ext, ses>>
    BY <1>2, <2>1, <1>n DEF LiveSession
  <2>2. ASSUME NEW next \in {"lock", "snapshot"}, Goto(c, next), UNCHANGED <<ext, launch, ses>>
        PROVE  TypeInv'
    BY <1>2, <2>2, <1>g DEF LiveSession, Places
  <2>3. CASE /\ ext.session # 0
             /\ pc' = [pc EXCEPT ![c].at = "start", ![c].s = ext.session]
             /\ launch' = IF launch = c THEN None ELSE launch
             /\ UNCHANGED <<ext, ses>>
    <3>1. [pc[c] EXCEPT !.at = "start", !.s = ext.session] \in CallerStates
      BY <1>p, Records DEF Places
    <3> QED BY <1>2, <2>3, <3>1 DEF LiveSession
  <2>4. ASSUME NEW next \in {"lock", "snapshot"}, ext.session # 0, ext' = [ext EXCEPT !.session = 0],
               CloseLive(c, ext.session, next), UNCHANGED launch
        PROVE  TypeInv'
    BY <1>2, <2>4, <1>c DEF LiveSession, Sessions
  <2> QED BY <1>2, <2>1, <2>2, <2>3, <2>4 DEF LiveSession
<1>3. ASSUME NEW c \in Callers, LockLaunch(c) PROVE TypeInv'
  BY <1>3, <1>g DEF LockLaunch, Places
<1>4. ASSUME NEW c \in Callers, Spawn(c) PROVE TypeInv'
  <2>1. \A m \in Reports : Started(m) \in SessionStates
    BY DEF Reports, Started, NoSession, SessionStates
  <2>2. CASE Finish(c) /\ UNCHANGED ses
    BY <1>4, <2>2, <1>n DEF Spawn
  <2>3. ASSUME NEW n \in Sessions, NEW m \in Reports, ses' = [ses EXCEPT ![n] = Started(m)],
               pc' = [pc EXCEPT ![c].at = "connecting", ![c].s = n], UNCHANGED launch
        PROVE  TypeInv'
    <3>1. [pc[c] EXCEPT !.at = "connecting", !.s = n] \in CallerStates
      BY <1>p, <1>s, Records DEF Places
    <3> QED BY <1>4, <2>1, <2>3, <3>1 DEF Spawn
  <2> QED BY <1>4, <2>2, <2>3 DEF Spawn
<1>5. ASSUME NEW c \in Callers, Initialized(c) PROVE TypeInv'
  BY <1>5, <1>g DEF Initialized, Places
<1>6. ASSUME NEW c \in Callers, ConnectFails(c) PROVE TypeInv'
  BY <1>6, <1>n, <1>0 DEF ConnectFails
<1>7. ASSUME NEW c \in Callers, Ready(c) PROVE TypeInv'
  <2>1. ses' \in [Sessions -> SessionStates]
    <3>1. pc[c].s \in Sessions
      BY <1>7 DEF PlaceInv, Ready, Starting
    <3>2. [ses[pc[c].s] EXCEPT !.state = "ready"] \in SessionStates
      BY <3>1, <1>s, Records
    <3> QED BY <1>7, <3>2 DEF Ready
  <2> QED BY <1>7, <2>1, <1>g DEF Ready, Places
<1>8. ASSUME NEW c \in Callers, Publish(c) PROVE TypeInv'
  <2>1. pc[c].s \in Sessions
    BY <1>8 DEF Publish, PlaceInv, Starting
  <2>2. ses[pc[c].s].meta \in Metas \cup {None}
    BY <2>1, <1>s DEF SessionStates
  <2> QED BY <1>8, <2>1, <2>2, <1>c, <1>g DEF Publish, Places, Sessions
<1>9. ASSUME NEW c \in Callers, Start(c) PROVE TypeInv'
  BY <1>9, <1>g, <1>t DEF Start, Places
<1>10. ASSUME NEW c \in Callers, Register(c) PROVE TypeInv'
  <2>1. CASE ses' = [ses EXCEPT ![pc[c].s].pending = @ \cup {c}]
             /\ pc' = [pc EXCEPT ![c].at = "waiting", ![c].lost = @ + 1]
    <3>1. /\ [ses[pc[c].s] EXCEPT !.pending = @ \cup {c}] \in SessionStates
          /\ [pc[c] EXCEPT !.at = "waiting", !.lost = @ + 1] \in CallerStates
      <4>1. ses[pc[c].s] \in SessionStates /\ pc[c] \in CallerStates
        BY <1>10, <1>s, <1>p DEF PlaceInv, Register, AtEndpoint
      <4>2. ses[pc[c].s].pending \cup {c} \in SUBSET Callers /\ pc[c].lost + 1 \in Nat
        BY <4>1 DEF SessionStates, CallerStates
      <4> HIDE DEF TypeInv
      <4> QED BY <4>1, <4>2, Records DEF Places
    <3> QED BY <1>10, <2>1, <3>1 DEF Register
  <2>2. CASE ses' = [ses EXCEPT ![pc[c].s] = Failed(@)] /\ Returned(c, "closed")
    BY <1>10, <2>2, <1>t, <1>f DEF Register
  <2>3. CASE Returned(c, "failed") /\ UNCHANGED ses
    BY <1>10, <2>3, <1>t DEF Register
  <2> QED BY <1>10, <2>1, <2>2, <2>3 DEF Register
<1>11. ASSUME NEW c \in Callers, NEW n \in Sessions, Answer(n, c) PROVE TypeInv'
  <2>0. pc[c].lost = 1
    BY <1>11 DEF Answer, PendingInv, LostInv, LostOk
  <2>1. ses' \in [Sessions -> SessionStates]
    <3>1. [ses[n] EXCEPT !.pending = @ \ {c}] \in SessionStates
      <4>1. ses[n].pending \ {c} \in SUBSET Callers
        BY <1>s DEF SessionStates
      <4> QED BY <1>s, <4>1, Records
    <3> QED BY <1>11, <3>1 DEF Answer
  <2>2. pc' \in [Callers -> CallerStates]
    <3>1. \A res \in {"failed", "retryable"} :
            [pc[c] EXCEPT !.at = "returned", !.res = res, !.lost = @ - 1] \in CallerStates
      <4> DEFINE r(res) == [pc[c] EXCEPT !.at = "returned", !.res = res]
      <4>1. \A res \in {"failed", "retryable"} : r(res) \in CallerStates
        <5> HIDE DEF TypeInv
        <5> QED BY <1>p DEF CallerStates, Places
      <4>2. \A res \in {"failed", "retryable"} : [r(res) EXCEPT !.lost = 0] \in CallerStates
        <5> HIDE DEF TypeInv, r
        <5> QED BY <4>1 DEF CallerStates
      <4>3. \A res \in {"failed", "retryable"} :
              [pc[c] EXCEPT !.at = "returned", !.res = res, !.lost = @ - 1] = [r(res) EXCEPT !.lost = 0]
        <5> HIDE DEF TypeInv
        <5>1. pc[c].lost - 1 = 0
          BY <2>0
        <5> QED BY <5>1
      <4> HIDE DEF r, TypeInv
      <4> QED BY <4>2, <4>3
    <3>2. CASE pc' = [pc EXCEPT ![c] = Idle]
      BY <3>2, <1>0
    <3>3. ASSUME NEW res \in {"failed", "retryable"},
                 pc' = [pc EXCEPT ![c].at = "returned", ![c].res = res, ![c].lost = @ - 1]
          PROVE  pc' \in [Callers -> CallerStates]
      BY <3>3, <3>1
    <3> QED BY <1>11, <3>2, <3>3 DEF Answer
  <2> QED BY <1>11, <2>1, <2>2 DEF Answer
<1>12. ASSUME NEW c \in Callers, WaitClosed(c) PROVE TypeInv'
  BY <1>12, <1>t DEF WaitClosed
<1>13. ASSUME NEW c \in Callers, WaitDeadline(c) PROVE TypeInv'
  <2>1. ses' \in [Sessions -> SessionStates]
    <3>1. /\ [ses[pc[c].s] EXCEPT !.pending = @ \ {c}] \in SessionStates
          /\ Failed(ses[pc[c].s]) \in SessionStates
      <4>1. pc[c].s \in Sessions
        BY <1>13 DEF PlaceInv, WaitDeadline, AtEndpoint
      <4>2. ses[pc[c].s].pending \ {c} \in SUBSET Callers
        BY <1>s, <4>1 DEF SessionStates
      <4> QED BY <1>s, <1>f, <4>1, <4>2, Records
    <3> QED BY <1>13, <3>1 DEF WaitDeadline
  <2> QED BY <1>13, <2>1, <1>t DEF WaitDeadline
<1>14. ASSUME NEW c \in Callers, Return(c) PROVE TypeInv'
  <2>1. PICK next \in Resumes(pc[c].res) :
           IF ses[pc[c].s].state = "closed" /\ ext.session = pc[c].s
           THEN /\ ext' = [ext EXCEPT !.session = 0]
                /\ CloseLive(c, pc[c].s, next)
                /\ UNCHANGED launch
           ELSE /\ Resume(c, next)
                /\ UNCHANGED <<ext, ses>>
    BY <1>14 DEF Return
  <2>2. next \in {"idle", "live"} /\ pc[c].s \in Sessions /\ UNCHANGED meta
    BY <1>14 DEF Return, Resumes, PlaceInv
  <2> QED BY <2>1, <2>2, <1>c, <1>r
<1>15. ASSUME NEW c \in Callers, Closing(c) PROVE TypeInv'
  <2>1. pc[c].next \in {"idle", "live", "lock", "snapshot", "relive"}
    BY <1>p DEF CallerStates
  <2> QED BY <1>15, <2>1, <1>r DEF Closing
<1>16. ASSUME NEW c \in Callers, SetInput(c) \/ DropProvider(c) PROVE TypeInv'
  <2> DEFINE Exts == [session : 0..MaxEndpoints, gen : 0..MaxChanges, refused : BOOLEAN, dropped : BOOLEAN]
  <2>0. ext' \in Exts
    <3>1. CASE SetInput(c)
      <4>1. ext.gen + 1 \in 0..MaxChanges /\ 0 \in 0..MaxEndpoints
        BY <3>1 DEF SetInput
      <4>2. ext' = [ext EXCEPT !.gen = ext.gen + 1, !.session = 0]
        BY <3>1 DEF SetInput
      <4>3. [ext EXCEPT !.gen = ext.gen + 1] \in Exts
        BY <4>1
      <4> QED BY <4>1, <4>2, <4>3
    <3>2. CASE DropProvider(c)
      <4>1. ext' = [ext EXCEPT !.dropped = TRUE, !.session = 0] /\ 0 \in 0..MaxEndpoints
        BY <3>2 DEF DropProvider
      <4>2. [ext EXCEPT !.dropped = TRUE] \in Exts
        OBVIOUS
      <4> QED BY <4>1, <4>2
    <3> QED BY <1>16, <3>1, <3>2
  <2>3. UNCHANGED <<meta, launch>>
    BY <1>16 DEF SetInput, DropProvider
  <2>1. CASE ext.session # 0
    <3>1. ext.session \in Sessions /\ CloseLive(c, ext.session, "idle")
      BY <1>16, <2>1 DEF SetInput, DropProvider, Sessions
    <3> QED BY <2>0, <2>3, <3>1, <1>c
  <2>2. CASE ext.session = 0
    BY <1>16, <2>0, <2>2, <2>3 DEF SetInput, DropProvider
  <2> QED BY <2>1, <2>2
<1>17. CASE WithBaseDir
  BY <1>17 DEF WithBaseDir
<1>18. ASSUME NEW n \in Sessions, SessionStep(n) \/ Exit(n) \/ Break(n) PROVE TypeInv'
  <2>1. \A r \in SessionStates :
          /\ [r EXCEPT !.closer = "reap"] \in SessionStates
          /\ [r EXCEPT !.state = "closing", !.closer = "shutdown"] \in SessionStates
          /\ [Failed(r) EXCEPT !.reader = FALSE, !.closer = "reap"] \in SessionStates
          /\ [Failed(r) EXCEPT !.reader = FALSE] \in SessionStates
          /\ Failed(r) \in SessionStates
          /\ Reaped(r) \in SessionStates
          /\ [r EXCEPT !.child = "exited"] \in SessionStates
          /\ [r EXCEPT !.child = "broken"] \in SessionStates
    <3> HIDE DEF TypeInv
    <3> SUFFICES ASSUME NEW r \in SessionStates
                 PROVE  /\ [r EXCEPT !.closer = "reap"] \in SessionStates
                        /\ [r EXCEPT !.state = "closing", !.closer = "shutdown"] \in SessionStates
                        /\ [Failed(r) EXCEPT !.reader = FALSE, !.closer = "reap"] \in SessionStates
                        /\ [Failed(r) EXCEPT !.reader = FALSE] \in SessionStates
                        /\ Failed(r) \in SessionStates
                        /\ Reaped(r) \in SessionStates
                        /\ [r EXCEPT !.child = "exited"] \in SessionStates
                        /\ [r EXCEPT !.child = "broken"] \in SessionStates
      OBVIOUS
    <3>1. Failed(r) \in SessionStates
      BY Records
    <3>2. Reaped(r) \in SessionStates
      <4>1. [r EXCEPT !.child = "none", !.closer = "none"] \in SessionStates
        BY DEF SessionStates
      <4> QED BY <4>1, Records DEF Reaped
    <3>3. /\ [r EXCEPT !.closer = "reap"] \in SessionStates
          /\ [r EXCEPT !.state = "closing", !.closer = "shutdown"] \in SessionStates
          /\ [r EXCEPT !.child = "exited"] \in SessionStates
          /\ [r EXCEPT !.child = "broken"] \in SessionStates
      BY DEF SessionStates
    <3>4. /\ [Failed(r) EXCEPT !.reader = FALSE, !.closer = "reap"] \in SessionStates
          /\ [Failed(r) EXCEPT !.reader = FALSE] \in SessionStates
      BY <3>1 DEF SessionStates
    <3> QED BY <3>1, <3>2, <3>3, <3>4
  <2>2. ses' \in [Sessions -> SessionStates]
    <3>1. \E r \in SessionStates : ses' = [ses EXCEPT ![n] = r]
      <4> HIDE DEF TypeInv
      <4> QED BY <1>18, <2>1, <1>0, <1>s
          DEF SessionStep, CloseWire, CloseShutdown, CloseReap, ReaderEnds, Monitor, Exit, Break
    <3> QED BY <3>1
  <2> QED BY <1>18, <2>2 DEF SessionStep, CloseWire, CloseShutdown, CloseReap, ReaderEnds, Monitor, Exit, Break
<1> QED BY <1>1, <1>2, <1>3, <1>4, <1>5, <1>6, <1>7, <1>8, <1>9, <1>10, <1>11, <1>12, <1>13,
          <1>14, <1>15, <1>16, <1>17, <1>18 DEF Next, CallerStep

----------------------------------------------------------------------------
(* What the parts of an action do to the caller and its session *)

\* close_live_session takes its caller to the session it cleans up.
LEMMA CloseLiveEffects ==
  ASSUME TypeInv, NEW c \in Callers, NEW n \in Sessions, NEW next \in Nexts, CloseLive(c, n, next)
  PROVE  /\ pc'[c].at = "closing" /\ pc'[c].s = n /\ pc'[c].next = next
         /\ pc'[c].base = pc[c].base /\ pc'[c].lost = pc[c].lost
<1>1. pc \in [Callers -> CallerStates] /\ pc[c] \in CallerStates
  BY DEF TypeInv
<1>2. pc'[c] = [pc[c] EXCEPT !.at = "closing", !.s = n, !.next = next, !.res = "none"]
  BY <1>1 DEF CloseLive
<1> QED BY <1>1, <1>2 DEF CallerStates

\* It marks that session for the cleanup.
LEMMA CloseLiveMarks ==
  ASSUME TypeInv, NEW c \in Callers, NEW n \in Sessions, NEW next \in Nexts, CloseLive(c, n, next)
  PROVE  /\ ses'[n] = [ses[n] EXCEPT !.closer = "begin"]
         /\ \A k \in Sessions : k # n => ses'[k] = ses[k]
BY DEF TypeInv, CloseLive

\* Goto, Returned, Finish and Resume leave the other callers alone.
LEMMA CallerEffects ==
  ASSUME TypeInv, NEW c \in Callers
  PROVE  /\ \A at : Goto(c, at) =>
              /\ pc'[c].at = at /\ pc'[c].s = pc[c].s
              /\ pc'[c].base = pc[c].base /\ pc'[c].lost = pc[c].lost
              /\ \A d \in Callers : d # c => pc'[d] = pc[d]
         /\ \A res : Returned(c, res) =>
              /\ pc'[c].at = "returned" /\ pc'[c].res = res /\ pc'[c].s = pc[c].s
              /\ pc'[c].base = pc[c].base /\ pc'[c].lost = pc[c].lost
              /\ \A d \in Callers : d # c => pc'[d] = pc[d]
         /\ Finish(c) => /\ pc'[c] = Idle
                         /\ \A d \in Callers : d # c => pc'[d] = pc[d]
                         /\ launch' = IF launch = c THEN None ELSE launch
         /\ \A next : Resume(c, next) =>
              /\ pc'[c].at = next /\ pc'[c].s = 0
              /\ next = "idle" => pc'[c] = Idle
              /\ next # "idle" => pc'[c].base = pc[c].base /\ pc'[c].lost = pc[c].lost
              /\ \A d \in Callers : d # c => pc'[d] = pc[d]
              /\ launch' = IF next = "idle" /\ launch = c THEN None ELSE launch
<1>0. /\ pc \in [Callers -> CallerStates] /\ ses \in [Sessions -> SessionStates]
      /\ pc[c] \in CallerStates
  BY DEF TypeInv
<1> HIDE DEF TypeInv
<1>1. ASSUME NEW at, Goto(c, at)
      PROVE  /\ pc'[c].at = at /\ pc'[c].s = pc[c].s
             /\ pc'[c].base = pc[c].base /\ pc'[c].lost = pc[c].lost
             /\ \A d \in Callers : d # c => pc'[d] = pc[d]
  BY <1>0, <1>1 DEF Goto, CallerStates
<1>2. ASSUME NEW res, Returned(c, res)
      PROVE  /\ pc'[c].at = "returned" /\ pc'[c].res = res /\ pc'[c].s = pc[c].s
             /\ pc'[c].base = pc[c].base /\ pc'[c].lost = pc[c].lost
             /\ \A d \in Callers : d # c => pc'[d] = pc[d]
  BY <1>0, <1>2 DEF Returned, CallerStates
<1>3. ASSUME Finish(c)
      PROVE  /\ pc'[c] = Idle
             /\ \A d \in Callers : d # c => pc'[d] = pc[d]
             /\ launch' = IF launch = c THEN None ELSE launch
  BY <1>0, <1>3 DEF Finish
<1>4. ASSUME NEW next, Resume(c, next)
      PROVE  /\ pc'[c].at = next /\ pc'[c].s = 0
             /\ next = "idle" => pc'[c] = Idle
             /\ next # "idle" => pc'[c].base = pc[c].base /\ pc'[c].lost = pc[c].lost
             /\ \A d \in Callers : d # c => pc'[d] = pc[d]
             /\ launch' = IF next = "idle" /\ launch = c THEN None ELSE launch
  <2>1. CASE next = "idle"
    BY <1>3, <1>4, <2>1 DEF Resume, Idle
  <2>2. CASE next # "idle"
    <3>1. pc' = [pc EXCEPT ![c] = [Idle EXCEPT !.at = next, !.base = pc[c].base, !.lost = pc[c].lost]]
          /\ UNCHANGED launch
      BY <1>4, <2>2 DEF Resume
    <3>2. pc'[c] = [Idle EXCEPT !.at = next, !.base = pc[c].base, !.lost = pc[c].lost]
      BY <1>0, <3>1
    <3>3. pc'[c].at = next /\ pc'[c].s = 0 /\ pc'[c].base = pc[c].base /\ pc'[c].lost = pc[c].lost
      BY <3>2 DEF Idle
    <3> QED BY <1>0, <2>2, <3>1, <3>3
  <2> QED BY <2>1, <2>2
<1> QED BY <1>1, <1>2, <1>3, <1>4

\* The steps of a caller and of a session.
OfCaller(c) ==
  \/ Begin(c) \/ CallerStep(c) \/ LockLaunch(c) \/ Initialized(c)
  \/ SetInput(c) \/ DropProvider(c)
  \/ \E n \in Sessions : Answer(n, c)
OfSession(n) == SessionStep(n) \/ Exit(n) \/ Break(n)

\* A step of one caller leaves the others where they are, and the launch lock
\* with its holder; only that holder publishes a session.
LEMMA Bystanders ==
  ASSUME TypeInv, PlaceInv, LaunchInv, NEW c \in Callers, OfCaller(c), NEW d \in Callers, d # c
  PROVE  /\ pc'[d] = pc[d]
         /\ launch = d => launch' = d
         /\ ext'.session \in {ext.session, 0} \/ launch = c
<1>0. /\ pc \in [Callers -> CallerStates]
      /\ ext.session = 0 \/ ext.session \in Sessions
      /\ d # None
      /\ \A n : [ext EXCEPT !.session = n].session = n
  BY DEF TypeInv, Sessions
<1>1. CASE Begin(c) \/ Spawn(c) \/ ConnectFails(c) \/ Ready(c) \/ Start(c) \/ Register(c)
           \/ WaitClosed(c) \/ WaitDeadline(c) \/ Initialized(c) \/ \E n \in Sessions : Answer(n, c)
  <2>1. UNCHANGED ext /\ (launch' = launch \/ launch' = IF launch = c THEN None ELSE launch)
    BY <1>1 DEF Begin, Spawn, ConnectFails, Ready, Start, Register, WaitClosed, WaitDeadline,
                Initialized, Answer, Finish
  <2>2. pc'[d] = pc[d]
    BY <1>1, <1>0 DEF Begin, Spawn, ConnectFails, Ready, Start, Register, WaitClosed, WaitDeadline,
                Initialized, Answer, Finish, Goto, Returned
  <2> QED BY <2>1, <2>2
<1>2. CASE LiveSession(c)
  <2>1. UNCHANGED ext \/ ext' = [ext EXCEPT !.session = 0]
    BY <1>2 DEF LiveSession
  <2>2. launch' = launch \/ launch' = IF launch = c THEN None ELSE launch
    BY <1>2 DEF LiveSession, Finish
  <2>3. pc'[d] = pc[d]
    BY <1>2, <1>0 DEF LiveSession, Finish, Goto, CloseLive
  <2> QED BY <2>1, <2>2, <2>3, <1>0
<1>3. CASE LockLaunch(c)
  BY <1>0, <1>3 DEF LockLaunch, Goto
<1>4. CASE Publish(c)
  <2>1. launch = c
    BY <1>4 DEF Publish, LaunchInv, Owns, Starting
  <2>2. pc'[d] = pc[d]
    BY <1>4, <1>0 DEF Publish, CloseLive, Goto
  <2> QED BY <2>1, <2>2
<1>5. CASE Return(c) \/ Closing(c)
  <2>1. UNCHANGED ext \/ ext' = [ext EXCEPT !.session = 0]
    BY <1>5 DEF Return, Closing
  <2>2. launch' = launch \/ launch' = IF launch = c THEN None ELSE launch
    BY <1>5 DEF Return, Closing, Resume, Finish
  <2>3. pc'[d] = pc[d]
    BY <1>5, <1>0 DEF Return, Closing, Resume, Finish, CloseLive
  <2> QED BY <2>1, <2>2, <2>3, <1>0
<1>6. CASE SetInput(c) \/ DropProvider(c)
  <2>1. UNCHANGED launch /\ ext'.session = 0
    BY <1>6 DEF SetInput, DropProvider, TypeInv
  <2>2. pc'[d] = pc[d]
    BY <1>6, <1>0 DEF SetInput, DropProvider, CloseLive
  <2> QED BY <2>1, <2>2
<1> QED BY <1>1, <1>2, <1>3, <1>4, <1>5, <1>6 DEF OfCaller, CallerStep

\* A step of a session changes the record of that session only.
LEMMA SessionMoves ==
  ASSUME TypeInv, NEW n \in Sessions, OfSession(n)
  PROVE  /\ UNCHANGED <<ext, meta, launch, pc>>
         /\ \A k \in Sessions : k # n => ses'[k] = ses[k]
BY DEF TypeInv, OfSession, SessionStep, CloseWire, CloseShutdown, CloseReap, ReaderEnds, Monitor,
       Exit, Break

\* A step is one of a caller, one of a session or with_base_dir().
LEMMA Steps ==
  ASSUME Next
  PROVE  \/ \E c \in Callers : OfCaller(c)
         \/ \E n \in Sessions : OfSession(n)
         \/ WithBaseDir
BY DEF Next, OfCaller, OfSession

----------------------------------------------------------------------------
(* The callers *)

\* What a caller holds at its place, and what is unknown of its requests.
CallerInv(c) ==
  /\ pc[c].at \in Starting \cup AtEndpoint \cup {"returned", "closing"} => pc[c].s \in Sessions
  /\ Owns(c) => launch = c
  /\ Launches(c) => ext.session = 0
  /\ LostOk(c)

\* A caller that another one's step leaves alone.
LEMMA BystanderStep ==
  ASSUME IInv, NEW c \in Callers, OfCaller(c), NEW d \in Callers, d # c
  PROVE  CallerInv(d)'
<1>1. /\ pc'[d] = pc[d]
      /\ launch = d => launch' = d
      /\ ext'.session \in {ext.session, 0} \/ launch = c
  BY Bystanders DEF IInv
<1>2. Launches(d) => Owns(d)
  BY DEF Launches, Owns
<1>3. CallerInv(d)
  BY DEF CallerInv, IInv, PlaceInv, LaunchInv, EmptyInv, LostInv
<1> QED BY <1>1, <1>2, <1>3 DEF CallerInv, Owns, Launches, LostOk

\* A caller takes a step.
LEMMA OwnStep ==
  ASSUME IInv, NEW c \in Callers, OfCaller(c)
  PROVE  CallerInv(c)'
<1>0. TypeInv /\ CallerInv(c) /\ pc[c] \in CallerStates
  BY DEF IInv, PlaceInv, LaunchInv, EmptyInv, LostInv, CallerInv, TypeInv
<1>t. TypeInv
  BY <1>0
<1>k. c # None /\ (ext.session = 0 \/ ext.session \in Sessions)
  BY <1>0 DEF TypeInv, Sessions
<1>i. Idle.at = "idle" /\ Idle.lost = 0 /\ Idle.s = 0
  BY DEF Idle
<1>l. pc[c].next \in {"idle", "live", "lock", "snapshot", "relive"} /\ pc[c].lost \in Nat
  BY <1>0 DEF CallerStates
<1>n. ASSUME NEW n, ext' = [ext EXCEPT !.session = n] PROVE ext'.session = n
  BY <1>0, <1>n DEF TypeInv
<1> USE DEF CallerInv, Owns, Launches, Starting, AtEndpoint, LostOk, Transient
<1>1. CASE Begin(c)
  <2>1. pc'[c].at = "live" /\ pc'[c].lost = 0
    BY <1>0, <1>1 DEF Begin, Idle, TypeInv
  <2> QED BY <2>1
<1>2. CASE LiveSession(c)
  <2>1. CASE Finish(c) /\ UNCHANGED <<ext, ses>>
    BY <1>0, <2>1, <1>i, CallerEffects
  <2>2. CASE Goto(c, IF pc[c].at = "live" THEN "lock" ELSE "snapshot")
             /\ ext.session = 0 /\ UNCHANGED <<ext, launch, ses>>
    BY <1>0, <1>2, <2>2, <1>l, CallerEffects DEF LiveSession
  <2>3. CASE /\ ext.session # 0
             /\ pc' = [pc EXCEPT ![c].at = "start", ![c].s = ext.session]
    <3>1. pc'[c].at = "start" /\ pc'[c].s = ext.session /\ pc'[c].lost = pc[c].lost
      BY <1>0, <2>3 DEF TypeInv, CallerStates
    <3> QED BY <1>0, <1>2, <1>k, <1>l, <2>3, <3>1 DEF LiveSession
  <2>4. CASE /\ ext.session # 0 /\ ext' = [ext EXCEPT !.session = 0] /\ UNCHANGED launch
             /\ CloseLive(c, ext.session, IF pc[c].at = "live" THEN "lock" ELSE "snapshot")
    <3>1. ext'.session = 0 /\ ext.session \in Sessions
      BY <1>k, <1>n, <2>4
    <3>2. /\ pc'[c].at = "closing" /\ pc'[c].s = ext.session /\ pc'[c].lost = pc[c].lost
          /\ pc'[c].next = IF pc[c].at = "live" THEN "lock" ELSE "snapshot"
      BY <1>0, <2>4, <3>1, CloseLiveEffects DEF Nexts
    <3> QED BY <1>0, <1>2, <1>l, <2>4, <3>1, <3>2 DEF LiveSession
  <2> QED BY <1>2, <2>1, <2>2, <2>3, <2>4 DEF LiveSession
<1>3. CASE LockLaunch(c)
  BY <1>0, <1>3, <1>l, CallerEffects DEF LockLaunch
<1>4. CASE Spawn(c)
  <2>1. CASE Finish(c)
    BY <1>0, <1>4, <2>1, <1>i, CallerEffects DEF Spawn
  <2>2. ASSUME NEW n \in Sessions, pc' = [pc EXCEPT ![c].at = "connecting", ![c].s = n], UNCHANGED launch
        PROVE  CallerInv(c)'
    <3>1. pc'[c].at = "connecting" /\ pc'[c].s = n /\ pc'[c].lost = pc[c].lost
      BY <1>0, <2>2 DEF TypeInv, CallerStates
    <3> QED BY <1>0, <1>4, <1>l, <2>2, <3>1 DEF Spawn
  <2> QED BY <1>4, <2>1, <2>2 DEF Spawn
<1>5. CASE Initialized(c) \/ Ready(c)
  BY <1>0, <1>5, <1>l, CallerEffects DEF Initialized, Ready
<1>6. CASE ConnectFails(c)
  BY <1>0, <1>6, <1>i, CallerEffects DEF ConnectFails
<1>8. CASE Publish(c)
  <2>1. pc[c].s \in Sessions /\ launch = c /\ pc[c].lost = 0 /\ ext.session = 0
    BY <1>0, <1>8 DEF Publish
  <2>2. ASSUME UNCHANGED <<ext, launch>>, NEW next \in {"idle", "relive"}, CloseLive(c, pc[c].s, next)
        PROVE  CallerInv(c)'
    <3>1. /\ pc'[c].at = "closing" /\ pc'[c].s = pc[c].s
          /\ pc'[c].next = next /\ pc'[c].lost = pc[c].lost
      <4>1. PICK n \in Sessions : n = pc[c].s
        BY <2>1
      <4>2. CloseLive(c, n, next) /\ next \in Nexts
        BY <2>2, <4>1 DEF Nexts
      <4>3. /\ pc'[c].at = "closing" /\ pc'[c].s = n
            /\ pc'[c].next = next /\ pc'[c].lost = pc[c].lost
        BY <1>t, <4>2, CloseLiveEffects
      <4> QED BY <4>1, <4>3
    <3> QED BY <1>0, <2>1, <2>2, <3>1
  <2>3. CASE launch' = None /\ Goto(c, "start")
    BY <1>0, <2>1, <2>3, CallerEffects
  <2> QED BY <1>8, <2>2, <2>3 DEF Publish
<1>9. CASE Start(c)
  BY <1>0, <1>9, <1>l, CallerEffects DEF Start
<1>10. CASE Register(c)
  <2>1. CASE pc' = [pc EXCEPT ![c].at = "waiting", ![c].lost = @ + 1]
    <3>1. pc'[c].at = "waiting" /\ pc'[c].s = pc[c].s /\ pc'[c].lost = pc[c].lost + 1
      BY <1>0, <2>1 DEF TypeInv, CallerStates
    <3> QED BY <1>0, <1>10, <1>l, <3>1 DEF Register
  <2>2. CASE \E res \in {"closed", "failed"} : Returned(c, res)
    BY <1>0, <1>10, <1>l, <2>2, CallerEffects DEF Register
  <2> QED BY <1>10, <2>1, <2>2 DEF Register
<1>11. ASSUME NEW n \in Sessions, Answer(n, c) PROVE CallerInv(c)'
  <2>0. pc[c].at = "waiting" /\ pc[c].lost = 1
    BY <1>0, <1>11 DEF Answer, IInv, PendingInv
  <2>1. CASE pc' = [pc EXCEPT ![c] = Idle]
    <3>1. pc'[c] = Idle
      BY <1>0, <2>1 DEF TypeInv
    <3> QED BY <3>1, <1>i
  <2>2. ASSUME NEW res, pc' = [pc EXCEPT ![c].at = "returned", ![c].res = res, ![c].lost = @ - 1]
        PROVE  CallerInv(c)'
    <3>1. pc'[c].at = "returned" /\ pc'[c].s = pc[c].s /\ pc'[c].lost = 0
      BY <1>0, <2>0, <2>2 DEF TypeInv, CallerStates
    <3> QED BY <1>0, <2>0, <3>1
  <2> QED BY <1>11, <2>1, <2>2 DEF Answer
<1>13. CASE WaitDeadline(c) \/ WaitClosed(c)
  <2>1. pc[c].at = "waiting" /\ \E res \in {"closed", "failed"} : Returned(c, res)
    BY <1>13 DEF WaitDeadline, WaitClosed
  <2> QED BY <1>0, <2>1, CallerEffects
<1>14. CASE Return(c)
  <2>1. pc[c].s \in Sessions /\ pc[c].at = "returned"
    BY <1>0, <1>14 DEF Return
  <2>2. PICK next \in Nexts :
           /\ next \in Resumes(pc[c].res)
           /\ CloseLive(c, pc[c].s, next) \/ Resume(c, next)
    BY <1>14 DEF Return, Resumes, Nexts
  <2>3. next = "idle" \/ (next = "live" /\ pc[c].lost = 0)
    BY <2>1, <2>2, <1>0 DEF Resumes
  <2>4. CASE CloseLive(c, pc[c].s, next)
    <3>1. pc'[c].at = "closing" /\ pc'[c].s = pc[c].s /\ pc'[c].next = next /\ pc'[c].lost = pc[c].lost
      <4>1. PICK n \in Sessions : n = pc[c].s
        BY <2>1
      <4>2. CloseLive(c, n, next)
        BY <2>4, <4>1
      <4>3. /\ pc'[c].at = "closing" /\ pc'[c].s = n
            /\ pc'[c].next = next /\ pc'[c].lost = pc[c].lost
        BY <1>t, <4>2, CloseLiveEffects
      <4> QED BY <4>1, <4>3
    <3> QED BY <1>0, <2>1, <2>3, <3>1
  <2>5. CASE Resume(c, next)
    BY <1>0, <1>i, <2>1, <2>3, <2>5, CallerEffects
  <2> QED BY <2>2, <2>4, <2>5
<1>15. CASE Closing(c)
  BY <1>0, <1>15, <1>i, <1>l, CallerEffects DEF Closing
<1>16. CASE SetInput(c) \/ DropProvider(c)
  <2>1. ext'.session = 0 /\ UNCHANGED launch /\ pc[c].at = "idle"
    BY <1>16, <1>0 DEF SetInput, DropProvider, TypeInv
  <2>2. CASE ext.session \in Sessions /\ CloseLive(c, ext.session, "idle")
    <3>1. /\ pc'[c].at = "closing" /\ pc'[c].s = ext.session
          /\ pc'[c].next = "idle" /\ pc'[c].lost = pc[c].lost
      BY <1>0, <2>2, CloseLiveEffects DEF Nexts
    <3> QED BY <1>0, <2>1, <2>2, <3>1
  <2>3. CASE UNCHANGED pc
    BY <1>0, <2>1, <2>3
  <2> QED BY <1>16, <1>k, <2>2, <2>3 DEF SetInput, DropProvider
<1> QED BY <1>1, <1>2, <1>3, <1>4, <1>5, <1>6, <1>8, <1>9, <1>10, <1>11, <1>13,
          <1>14, <1>15, <1>16 DEF OfCaller, CallerStep

\* The callers keep what they hold.
LEMMA CallersStep ==
  ASSUME IInv, Next
  PROVE  PlaceInv' /\ LaunchInv' /\ EmptyInv' /\ LostInv'
<1> SUFFICES ASSUME NEW d \in Callers PROVE CallerInv(d)'
  BY DEF CallerInv, PlaceInv, LaunchInv, EmptyInv, LostInv
<1>0. TypeInv /\ CallerInv(d)
  BY DEF CallerInv, IInv, PlaceInv, LaunchInv, EmptyInv, LostInv
<1>1. CASE \E c \in Callers : OfCaller(c)
  BY <1>1, BystanderStep, OwnStep
<1>2. CASE \E n \in Sessions : OfSession(n)
  BY <1>0, <1>2, SessionMoves DEF CallerInv, Owns, Launches, LostOk
<1>3. CASE WithBaseDir
  BY <1>0, <1>3 DEF WithBaseDir, CallerInv, Owns, Launches, LostOk, TypeInv
<1> QED BY <1>1, <1>2, <1>3, Steps

----------------------------------------------------------------------------
(* What the steps of a caller do to the sessions *)

\* The endpoint of session n is the one it was.
Kept(n) ==
  /\ ses'[n].gen = ses[n].gen /\ ses'[n].meta = ses[n].meta
  /\ ses'[n].child = ses[n].child

\* The caller moves on: to a request only with the session in use or with the
\* one it has, and it neither starts nor leaves an endpoint.
Quiet(c) ==
  /\ UNCHANGED meta /\ ext'.session = ext.session /\ ext'.gen = ext.gen
  /\ \A n \in Sessions : Kept(n) /\ ses'[n].closer = ses[n].closer
  /\ pc'[c].base \in {pc[c].base, 0, ext.gen}
  /\ pc'[c].s \in {pc[c].s, 0, ext.session}
  /\ pc[c].at \in Starting <=> pc'[c].at \in Starting
  /\ pc'[c].at \in Starting => pc'[c].s = pc[c].s
  /\ pc'[c].at \in AtEndpoint =>
       /\ pc'[c].base = pc[c].base
       /\ \/ pc[c].at \in AtEndpoint /\ pc'[c].s = pc[c].s
          \/ ext.session # 0 /\ pc'[c].s = ext.session

\* The caller detaches the session in use, or gives up the one it started,
\* and cleans it up.
Closes(c, n) ==
  /\ UNCHANGED meta /\ ext'.session = 0 /\ ext'.gen >= ext.gen
  /\ \A k \in Sessions : Kept(k)
  /\ ses'[n].closer = "begin"
  /\ \A k \in Sessions : k # n => ses'[k].closer = ses[k].closer
  /\ \/ ext.session = n
     \/ ext.session = 0 /\ pc[c].at = "publish" /\ pc[c].s = n
  /\ pc'[c].at = "closing" /\ pc'[c].s = n /\ pc'[c].base = pc[c].base

\* Nothing is in use and nothing happens but a change of the inputs.
Changes == UNCHANGED <<meta, ses, pc>> /\ ext.session = 0 /\ ext'.session = 0 /\ ext'.gen >= ext.gen

\* The caller starts an endpoint, loses it or puts it to use.
Starts(c, n) ==
  /\ pc[c].at = "snapshot" /\ Free(n) /\ UNCHANGED <<ext, meta>>
  /\ ses'[n].child # "none" /\ ses'[n].closer = "none"
  /\ \A k \in Sessions : k # n => ses'[k] = ses[k]
  /\ pc'[c].at = "connecting" /\ pc'[c].s = n /\ pc'[c].base = pc[c].base
Loses(c, n) ==
  /\ pc[c].at \in Starting /\ pc[c].s = n /\ UNCHANGED <<ext, meta>>
  /\ ses'[n] = NoSession
  /\ \A k \in Sessions : k # n => ses'[k] = ses[k]
  /\ pc'[c] = Idle
Uses(c, n) ==
  /\ pc[c].at = "publish" /\ pc[c].s = n /\ UNCHANGED ses
  /\ meta \in {None, ses[n].meta} /\ meta' = ses[n].meta
  /\ ses[n].gen = ext.gen /\ ext'.gen = ext.gen /\ ext'.session = n
  /\ pc'[c].at = "start" /\ pc'[c].s = n /\ pc'[c].base = pc[c].base

\* A step that keeps the sessions in order is quiet.
LEMMA QuietSteps ==
  ASSUME IInv, NEW c \in Callers,
         \/ Begin(c) \/ LockLaunch(c) \/ Initialized(c) \/ Ready(c) \/ Start(c) \/ Register(c)
         \/ WaitClosed(c) \/ WaitDeadline(c) \/ Closing(c) \/ \E n \in Sessions : Answer(n, c)
  PROVE  Quiet(c)
<1>t. TypeInv
  BY DEF IInv
<1>0. pc[c] \in CallerStates /\ pc \in [Callers -> CallerStates] /\ ses \in [Sessions -> SessionStates]
  BY <1>t DEF TypeInv
<1>p. pc[c].at \in Starting \cup AtEndpoint => pc[c].s \in Sessions
  BY DEF IInv, PlaceInv
<1>i. Idle.at = "idle" /\ Idle.base = 0 /\ Idle.s = 0
  BY DEF Idle
<1> USE DEF Starting, AtEndpoint
<1>u. ASSUME UNCHANGED ses, NEW n \in Sessions PROVE Kept(n) /\ ses'[n].closer = ses[n].closer
  BY <1>u DEF Kept
<1>f. \A n \in Sessions : LET r == Failed(ses[n]) IN
        /\ r.gen = ses[n].gen /\ r.meta = ses[n].meta /\ r.child = ses[n].child
        /\ r.closer = ses[n].closer
  BY <1>0 DEF Failed, SessionStates
<1>1. CASE Begin(c)
  <2>1. pc'[c].at = "live" /\ pc'[c].base = ext.gen /\ pc'[c].s = 0
    BY <1>0, <1>1 DEF Begin, Idle
  <2> QED BY <1>1, <2>1, <1>u DEF Begin, Quiet
<1>2. CASE LockLaunch(c) \/ Initialized(c)
  BY <1>2, <1>t, <1>u, CallerEffects DEF LockLaunch, Initialized, Quiet
<1>3. CASE Ready(c)
  <2>1. pc[c].s \in Sessions
    BY <1>3, <1>p DEF Ready
  <2>2. \A n \in Sessions : Kept(n) /\ ses'[n].closer = ses[n].closer
    BY <1>0, <1>3, <2>1 DEF Ready, Kept, SessionStates
  <2> QED BY <1>3, <1>t, <2>2, CallerEffects DEF Ready, Quiet
<1>4. CASE Start(c) \/ WaitClosed(c)
  BY <1>4, <1>t, <1>u, CallerEffects DEF Start, WaitClosed, Quiet
<1>5. CASE Register(c)
  <2>1. pc[c].s \in Sessions
    BY <1>5, <1>p DEF Register
  <2>2. \A n \in Sessions : Kept(n) /\ ses'[n].closer = ses[n].closer
    <3>1. CASE ses' = [ses EXCEPT ![pc[c].s].pending = @ \cup {c}]
      BY <1>0, <2>1, <3>1 DEF Kept, SessionStates
    <3>2. CASE ses' = [ses EXCEPT ![pc[c].s] = Failed(@)]
      BY <1>0, <1>f, <2>1, <3>2 DEF Kept
    <3> QED BY <1>5, <1>u, <3>1, <3>2 DEF Register
  <2>3. CASE pc' = [pc EXCEPT ![c].at = "waiting", ![c].lost = @ + 1]
    <3>1. pc'[c].at = "waiting" /\ pc'[c].s = pc[c].s /\ pc'[c].base = pc[c].base
      BY <1>0, <2>3 DEF CallerStates
    <3> QED BY <1>5, <2>2, <3>1 DEF Register, Quiet
  <2>4. CASE \E res : Returned(c, res)
    BY <1>5, <1>t, <2>2, <2>4, CallerEffects DEF Register, Quiet
  <2> QED BY <1>5, <2>3, <2>4 DEF Register
<1>6. CASE WaitDeadline(c)
  <2>1. pc[c].s \in Sessions
    BY <1>6, <1>p DEF WaitDeadline
  <2>2. \A n \in Sessions : Kept(n) /\ ses'[n].closer = ses[n].closer
    <3>1. CASE ses' = [ses EXCEPT ![pc[c].s].pending = @ \ {c}]
      BY <1>0, <2>1, <3>1 DEF Kept, SessionStates
    <3>2. CASE ses' = [ses EXCEPT ![pc[c].s] = Failed(@)]
      BY <1>0, <1>f, <2>1, <3>2 DEF Kept
    <3> QED BY <1>6, <3>1, <3>2 DEF WaitDeadline
  <2> QED BY <1>6, <1>t, <2>2, CallerEffects DEF WaitDeadline, Quiet
<1>7. CASE Closing(c)
  <2>1. pc[c].next \in {"idle", "live", "lock", "snapshot", "relive"}
    BY <1>0 DEF CallerStates
  <2> QED BY <1>7, <1>t, <1>u, <1>i, <2>1, CallerEffects DEF Closing, Quiet
<1>8. ASSUME NEW n \in Sessions, Answer(n, c) PROVE Quiet(c)
  <2>1. pc[c].at = "waiting"
    BY <1>8 DEF Answer, IInv, PendingInv
  <2>2. \A k \in Sessions : Kept(k) /\ ses'[k].closer = ses[k].closer
    BY <1>0, <1>8 DEF Answer, Kept, SessionStates
  <2>3. CASE pc' = [pc EXCEPT ![c] = Idle]
    <3>1. pc'[c] = Idle
      BY <1>0, <2>3
    <3> QED BY <1>8, <1>i, <2>1, <2>2, <3>1 DEF Answer, Quiet
  <2>4. ASSUME NEW res, pc' = [pc EXCEPT ![c].at = "returned", ![c].res = res, ![c].lost = @ - 1]
        PROVE  Quiet(c)
    <3>1. pc'[c].at = "returned" /\ pc'[c].s = pc[c].s /\ pc'[c].base = pc[c].base
      BY <1>0, <2>4 DEF CallerStates
    <3> QED BY <1>8, <2>1, <2>2, <3>1 DEF Answer, Quiet
  <2> QED BY <1>8, <2>3, <2>4 DEF Answer
<1> QED BY <1>1, <1>2, <1>3, <1>4, <1>5, <1>6, <1>7, <1>8

\* close_live_session of the session in use, or of one that was just started.
LEMMA ClosingSteps ==
  ASSUME IInv, NEW c \in Callers, NEW n \in Sessions, NEW next \in Nexts, CloseLive(c, n, next),
         UNCHANGED meta, ext'.session = 0, ext'.gen >= ext.gen,
         \/ ext.session = n
         \/ ext.session = 0 /\ pc[c].at = "publish" /\ pc[c].s = n
  PROVE  Closes(c, n)
<1>t. TypeInv
  BY DEF IInv
<1>1. /\ pc'[c].at = "closing" /\ pc'[c].s = n /\ pc'[c].base = pc[c].base
  BY <1>t, CloseLiveEffects
<1>2. ses'[n] = [ses[n] EXCEPT !.closer = "begin"] /\ \A k \in Sessions : k # n => ses'[k] = ses[k]
  BY <1>t, CloseLiveMarks
<1>3. ses[n] \in SessionStates
  BY <1>t DEF TypeInv
<1>4. Kept(n) /\ ses'[n].closer = "begin"
  BY <1>2, <1>3 DEF Kept, SessionStates
<1>5. \A k \in Sessions : k # n => Kept(k) /\ ses'[k].closer = ses[k].closer
  BY <1>2 DEF Kept
<1> QED BY <1>1, <1>4, <1>5 DEF Closes

\* Every step of a caller is of one of these kinds.
LEMMA Kinds ==
  ASSUME IInv, NEW c \in Callers, OfCaller(c)
  PROVE  \/ Quiet(c) \/ Changes
         \/ \E n \in Sessions : Closes(c, n) \/ Starts(c, n) \/ Loses(c, n) \/ Uses(c, n)
<1>t. TypeInv
  BY DEF IInv
<1>0. pc[c] \in CallerStates /\ pc \in [Callers -> CallerStates] /\ ses \in [Sessions -> SessionStates]
  BY <1>t DEF TypeInv
<1>e. /\ ext.session = 0 \/ ext.session \in Sessions
      /\ ext.gen \in Nat
      /\ \A n : [ext EXCEPT !.session = n].session = n /\ [ext EXCEPT !.session = n].gen = ext.gen
  BY <1>t DEF TypeInv, Sessions
<1>p. pc[c].at \in Starting \cup {"returned"} => pc[c].s \in Sessions
  BY DEF IInv, PlaceInv
<1>i. Idle.at = "idle" /\ Idle.base = 0 /\ Idle.s = 0
  BY DEF Idle
<1>u. ASSUME UNCHANGED ses, NEW n \in Sessions PROVE Kept(n) /\ ses'[n].closer = ses[n].closer
  BY <1>u DEF Kept
<1> USE DEF Starting, AtEndpoint
<1>1. CASE LiveSession(c)
  <2>1. CASE Finish(c) /\ UNCHANGED <<ext, ses>>
    <3>1. Quiet(c)
      BY <1>1, <2>1, <1>t, <1>i, <1>u, CallerEffects DEF LiveSession, Quiet
    <3> QED BY <3>1
  <2>2. ASSUME NEW next \in {"lock", "snapshot"}, Goto(c, next), UNCHANGED <<ext, launch, ses>>
        PROVE  Quiet(c)
    BY <1>1, <2>2, <1>t, <1>u, CallerEffects DEF LiveSession, Quiet
  <2>3. CASE /\ ext.session # 0 /\ UNCHANGED <<ext, ses>>
             /\ pc' = [pc EXCEPT ![c].at = "start", ![c].s = ext.session]
    <3>1. pc'[c].at = "start" /\ pc'[c].s = ext.session /\ pc'[c].base = pc[c].base
      BY <1>0, <2>3 DEF CallerStates
    <3>2. Quiet(c)
      BY <1>1, <2>3, <3>1, <1>u DEF LiveSession, Quiet
    <3> QED BY <3>2
  <2>4. ASSUME ext.session # 0, ext' = [ext EXCEPT !.session = 0], NEW next \in {"lock", "snapshot"},
               CloseLive(c, ext.session, next)
        PROVE  \E n \in Sessions : Closes(c, n)
    <3>1. PICK n \in Sessions : n = ext.session
      BY <1>e, <2>4
    <3>2. CloseLive(c, n, next) /\ next \in Nexts
      BY <2>4, <3>1 DEF Nexts
    <3>3. ext'.session = 0 /\ ext'.gen >= ext.gen /\ UNCHANGED meta
      BY <1>1, <1>e, <2>4 DEF LiveSession
    <3> QED BY <3>1, <3>2, <3>3, ClosingSteps
  <2> QED BY <1>1, <2>1, <2>2, <2>3, <2>4 DEF LiveSession
<1>2. CASE Spawn(c)
  <2>1. CASE Finish(c) /\ UNCHANGED ses
    <3>1. Quiet(c)
      BY <1>2, <2>1, <1>t, <1>i, <1>u, CallerEffects DEF Spawn, Quiet
    <3> QED BY <3>1
  <2>2. ASSUME NEW n \in Sessions, NEW m \in Reports, Free(n), ses' = [ses EXCEPT ![n] = Started(m)],
               pc' = [pc EXCEPT ![c].at = "connecting", ![c].s = n]
        PROVE  Starts(c, n)
    <3>1. pc'[c].at = "connecting" /\ pc'[c].s = n /\ pc'[c].base = pc[c].base
      BY <1>0, <2>2 DEF CallerStates
    <3>2. ses'[n] = Started(m) /\ \A k \in Sessions : k # n => ses'[k] = ses[k]
      BY <1>0, <2>2
    <3>3. Started(m).child = "running" /\ Started(m).closer = "none"
      BY DEF Started, NoSession
    <3> QED BY <1>2, <2>2, <3>1, <3>2, <3>3 DEF Spawn, Starts
  <2> QED BY <1>2, <2>1, <2>2 DEF Spawn
<1>3. CASE ConnectFails(c)
  <2>1. pc[c].s \in Sessions /\ pc[c].at \in Starting
    BY <1>3, <1>p DEF ConnectFails
  <2>2. Loses(c, pc[c].s)
    BY <1>0, <1>3, <1>t, <2>1, CallerEffects DEF ConnectFails, Loses
  <2> QED BY <2>1, <2>2
<1>4. CASE Publish(c)
  <2>1. pc[c].s \in Sessions /\ pc[c].at = "publish" /\ ext.session = 0
    BY <1>4, <1>p DEF Publish, IInv, EmptyInv, Launches
  <2>2. ASSUME UNCHANGED <<ext, meta>>, NEW next \in {"idle", "relive"}, CloseLive(c, pc[c].s, next)
        PROVE  \E n \in Sessions : Closes(c, n)
    <3>1. PICK n \in Sessions : n = pc[c].s
      BY <2>1
    <3>2. CloseLive(c, n, next) /\ next \in Nexts
      BY <2>2, <3>1 DEF Nexts
    <3>3. ext'.session = 0 /\ ext'.gen >= ext.gen
      BY <1>e, <2>1, <2>2
    <3> QED BY <2>1, <2>2, <3>1, <3>2, <3>3, ClosingSteps
  <2>3. CASE /\ meta \in {None, ses[pc[c].s].meta} /\ ses[pc[c].s].gen = ext.gen
             /\ meta' = ses[pc[c].s].meta /\ ext' = [ext EXCEPT !.session = pc[c].s]
             /\ Goto(c, "start") /\ UNCHANGED ses
    <3>1. Uses(c, pc[c].s)
      BY <1>t, <1>e, <2>1, <2>3, CallerEffects DEF Uses
    <3> QED BY <2>1, <3>1
  <2> QED BY <1>4, <2>2, <2>3 DEF Publish
<1>5. CASE Return(c)
  <2>1. pc[c].s \in Sessions /\ pc[c].at = "returned"
    BY <1>5, <1>p DEF Return
  <2>2. ASSUME ext.session = pc[c].s, ext' = [ext EXCEPT !.session = 0], NEW next \in {"idle", "live"},
               CloseLive(c, pc[c].s, next)
        PROVE  \E n \in Sessions : Closes(c, n)
    <3>1. PICK n \in Sessions : n = pc[c].s
      BY <2>1
    <3>2. CloseLive(c, n, next) /\ next \in Nexts
      BY <2>2, <3>1 DEF Nexts
    <3>3. ext'.session = 0 /\ ext'.gen >= ext.gen /\ UNCHANGED meta
      BY <1>5, <1>e, <2>2 DEF Return
    <3> QED BY <2>2, <3>1, <3>2, <3>3, ClosingSteps
  <2>3. ASSUME NEW next \in {"idle", "live"}, Resume(c, next), UNCHANGED <<ext, ses>>
        PROVE  Quiet(c)
    BY <1>5, <2>1, <2>3, <1>t, <1>i, <1>u, CallerEffects DEF Return, Quiet
  <2> QED BY <1>5, <2>2, <2>3 DEF Return, Resumes
<1>6. CASE SetInput(c) \/ DropProvider(c)
  <2>1. ext'.session = 0 /\ ext'.gen >= ext.gen /\ UNCHANGED meta
    <3>1. CASE SetInput(c)
      <4>1. ext'.session = 0 /\ ext'.gen = ext.gen + 1
        BY <3>1, <1>t DEF SetInput, TypeInv
      <4> QED BY <3>1, <4>1, <1>e DEF SetInput
    <3>2. CASE DropProvider(c)
      <4>1. ext'.session = 0 /\ ext'.gen = ext.gen
        BY <3>2, <1>t DEF DropProvider, TypeInv
      <4> QED BY <3>2, <4>1, <1>e DEF DropProvider
    <3> QED BY <1>6, <3>1, <3>2
  <2>2. CASE ext.session # 0
    <3>1. PICK n \in Sessions : n = ext.session
      BY <1>e, <2>2
    <3>2. CloseLive(c, n, "idle") /\ "idle" \in Nexts
      BY <1>6, <2>2, <3>1 DEF SetInput, DropProvider, Nexts
    <3>3. Closes(c, n)
      BY <2>1, <3>1, <3>2, ClosingSteps
    <3> QED BY <3>3
  <2>3. CASE ext.session = 0
    BY <1>6, <2>1, <2>3 DEF SetInput, DropProvider, Changes
  <2> QED BY <2>2, <2>3
<1> QED BY <1>1, <1>2, <1>3, <1>4, <1>5, <1>6, QuietSteps DEF OfCaller, CallerStep

\* A step of a session reaps its endpoint or keeps it; it keeps one that
\* nobody cleans up, and the cleanup lasts as long as the endpoint.
LEMMA SessionEffects ==
  ASSUME TypeInv, NEW n \in Sessions, OfSession(n)
  PROVE  /\ \/ /\ ses'[n].gen = ses[n].gen /\ ses'[n].meta = ses[n].meta
               /\ ses[n].child = "none" => ses'[n].child = "none"
            \/ ses'[n].child = "none" /\ ses'[n].meta = None
         /\ ses[n].child # "none" /\ ses[n].closer = "none" =>
              /\ ses'[n].gen = ses[n].gen /\ ses'[n].meta = ses[n].meta
              /\ ses'[n].child # "none" /\ ses'[n].closer = "none"
         /\ ses'[n].child # "none" => ses[n].child # "none"
         /\ ses'[n].child # "none" /\ ses[n].closer # "none" => ses'[n].closer # "none"
         /\ ses'[n].pending \subseteq ses[n].pending
<1>0. ses \in [Sessions -> SessionStates] /\ ses[n] \in SessionStates
  BY DEF TypeInv
<1>f. LET r == Failed(ses[n]) IN
        /\ r.gen = ses[n].gen /\ r.meta = ses[n].meta /\ r.child = ses[n].child
        /\ r.closer = ses[n].closer /\ r.pending = {}
  BY <1>0 DEF Failed, SessionStates
<1>g. Failed(ses[n]) \in SessionStates
  BY <1>0, Records
<1>n. NoSession.child = "none" /\ NoSession.meta = None /\ NoSession.pending = {}
  BY DEF NoSession
<1> HIDE DEF Failed, NoSession
<1>1. CASE CloseWire(n)
  <2>1. \/ ses'[n] = [ses[n] EXCEPT !.closer = "reap"]
        \/ ses'[n] = [ses[n] EXCEPT !.state = "closing", !.closer = "shutdown"]
        \/ ses'[n] = [Failed(ses[n]) EXCEPT !.reader = FALSE, !.closer = "reap"]
    BY <1>0, <1>1 DEF CloseWire
  <2>2. /\ ses'[n].gen = ses[n].gen /\ ses'[n].meta = ses[n].meta /\ ses'[n].child = ses[n].child
        /\ ses'[n].closer # "none" /\ ses'[n].pending \subseteq ses[n].pending
    <3>1. CASE ses'[n] = [ses[n] EXCEPT !.closer = "reap"]
      BY <1>0, <3>1 DEF SessionStates
    <3>2. CASE ses'[n] = [ses[n] EXCEPT !.state = "closing", !.closer = "shutdown"]
      BY <1>0, <3>2 DEF SessionStates
    <3>3. CASE ses'[n] = [Failed(ses[n]) EXCEPT !.reader = FALSE, !.closer = "reap"]
      BY <1>f, <1>g, <3>3 DEF SessionStates
    <3> QED BY <2>1, <3>1, <3>2, <3>3
  <2> QED BY <1>1, <2>2 DEF CloseWire
<1>2. CASE CloseShutdown(n)
  <2>1. ses'[n] = [Failed(ses[n]) EXCEPT !.reader = FALSE, !.closer = "reap"]
    BY <1>0, <1>2 DEF CloseShutdown
  <2>2. /\ ses'[n].gen = ses[n].gen /\ ses'[n].meta = ses[n].meta /\ ses'[n].child = ses[n].child
        /\ ses'[n].closer # "none" /\ ses'[n].pending \subseteq ses[n].pending
    BY <1>f, <1>g, <2>1 DEF SessionStates
  <2> QED BY <1>2, <2>2 DEF CloseShutdown
<1>3. CASE CloseReap(n)
  <2>1. ses'[n] = [ses[n] EXCEPT !.child = "none", !.closer = "none"] \/ ses'[n] = NoSession
    BY <1>0, <1>3 DEF CloseReap, Reaped
  <2>2. CASE ses'[n] = [ses[n] EXCEPT !.child = "none", !.closer = "none"]
    <3>1. /\ ses'[n].gen = ses[n].gen /\ ses'[n].meta = ses[n].meta /\ ses'[n].child = "none"
          /\ ses'[n].pending = ses[n].pending
      BY <1>0, <2>2 DEF SessionStates
    <3> QED BY <1>3, <3>1 DEF CloseReap
  <2>3. CASE ses'[n] = NoSession
    BY <1>3, <1>n, <2>3 DEF CloseReap
  <2> QED BY <2>1, <2>2, <2>3
<1>4. CASE ReaderEnds(n)
  <2>1. CASE ses[n].child = "none"
    BY <1>0, <1>4, <1>n, <2>1 DEF ReaderEnds
  <2>2. CASE ses[n].child # "none"
    <3>1. ses'[n] = [Failed(ses[n]) EXCEPT !.reader = FALSE]
      BY <1>0, <1>4, <2>2 DEF ReaderEnds
    <3>2. /\ ses'[n].gen = ses[n].gen /\ ses'[n].meta = ses[n].meta /\ ses'[n].child = ses[n].child
          /\ ses'[n].closer = ses[n].closer /\ ses'[n].pending \subseteq ses[n].pending
      BY <1>f, <1>g, <3>1 DEF SessionStates
    <3> QED BY <2>2, <3>2
  <2> QED BY <2>1, <2>2
<1>5. CASE Monitor(n)
  <2>1. ses'[n] = Failed(ses[n])
    BY <1>0, <1>5 DEF Monitor
  <2> QED BY <1>f, <2>1
<1>6. CASE Exit(n) \/ Break(n)
  <2>1. \E ch \in {"exited", "broken"} : ses'[n] = [ses[n] EXCEPT !.child = ch]
    BY <1>0, <1>6 DEF Exit, Break
  <2>2. /\ ses'[n].gen = ses[n].gen /\ ses'[n].meta = ses[n].meta /\ ses'[n].child # "none"
        /\ ses'[n].closer = ses[n].closer /\ ses'[n].pending = ses[n].pending
    BY <1>0, <2>1 DEF SessionStates
  <2>3. ses[n].child # "none"
    BY <1>6 DEF Exit, Break
  <2> QED BY <2>2, <2>3
<1> QED BY <1>1, <1>2, <1>3, <1>4, <1>5, <1>6 DEF OfSession, SessionStep

----------------------------------------------------------------------------
(* The sessions *)

\* Who starts an endpoint holds the launch lock, and nothing is in use.
LEMMA OneStarts ==
  ASSUME IInv, NEW c \in Callers, pc[c].at \in Starting
  PROVE  /\ ext.session = 0 /\ pc[c].s \in Sessions
         /\ \A d \in Callers : Owns(d) => d = c
BY DEF IInv, EmptyInv, Launches, LaunchInv, Owns, PlaceInv

\* An endpoint under way stays with the caller that starts it.
LEMMA StartStep ==
  ASSUME IInv, Next
  PROVE  StartInv'
<1> SUFFICES ASSUME NEW d \in Callers, pc'[d].at \in Starting
             PROVE  /\ ses'[pc'[d].s].child # "none" /\ ses'[pc'[d].s].closer = "none"
                    /\ \A e \in Callers : e # d => pc'[e].s # pc'[d].s
  BY DEF StartInv
<1>t. TypeInv /\ PlaceInv /\ LaunchInv
  BY DEF IInv
<1>z. 0 \notin Sessions
  BY DEF Sessions
<1>s. ASSUME NEW e \in Callers, pc[e].at \in Starting
      PROVE  /\ ses[pc[e].s].child # "none" /\ ses[pc[e].s].closer = "none"
             /\ \A f \in Callers : f # e => pc[f].s # pc[e].s
             /\ ext.session = 0 /\ pc[e].s \in Sessions
             /\ \A f \in Callers : Owns(f) => f = e
  BY <1>s, OneStarts DEF IInv, StartInv
<1>1. ASSUME NEW c \in Callers, OfCaller(c)
      PROVE  /\ ses'[pc'[d].s].child # "none" /\ ses'[pc'[d].s].closer = "none"
             /\ \A e \in Callers : e # d => pc'[e].s # pc'[d].s
  <2>b. \A e \in Callers : e # c => pc'[e] = pc[e]
    BY <1>1, <1>t, Bystanders
  <2>1. CASE Quiet(c)
    <3>1. pc[d].at \in Starting /\ pc'[d].s = pc[d].s
      BY <2>1, <2>b DEF Quiet
    <3>2. ses'[pc[d].s].child # "none" /\ ses'[pc[d].s].closer = "none"
      BY <2>1, <3>1, <1>s DEF Quiet, Kept
    <3>3. \A e \in Callers : e # d => pc'[e].s # pc[d].s
      BY <2>1, <2>b, <3>1, <1>s, <1>z DEF Quiet
    <3> QED BY <3>1, <3>2, <3>3
  <2>2. CASE Changes
    BY <2>2, <1>s DEF Changes
  <2>3. ASSUME NEW n \in Sessions, Closes(c, n) PROVE FALSE
    <3>1. d # c /\ pc[d].at \in Starting
      BY <2>3, <2>b DEF Closes, Starting
    <3>2. pc[c].at = "publish" /\ Owns(c)
      BY <2>3, <3>1, <1>s, <1>z DEF Closes, Owns, Starting
    <3> QED BY <3>1, <3>2, <1>s
  <2>4. ASSUME NEW n \in Sessions, Starts(c, n)
        PROVE  /\ ses'[pc'[d].s].child # "none" /\ ses'[pc'[d].s].closer = "none"
               /\ \A e \in Callers : e # d => pc'[e].s # pc'[d].s
    <3>1. CASE d = c
      BY <2>4, <2>b, <3>1 DEF Starts, Free
    <3>2. CASE d # c
      BY <2>4, <2>b, <3>2, <1>s DEF Starts, Free
    <3> QED BY <3>1, <3>2
  <2>5. ASSUME NEW n \in Sessions, Loses(c, n) PROVE FALSE
    <3>1. d # c /\ pc[d].at \in Starting
      BY <2>5, <2>b DEF Loses, Starting, Idle
    <3> QED BY <2>5, <3>1, <1>s DEF Loses, Owns
  <2>6. ASSUME NEW n \in Sessions, Uses(c, n) PROVE FALSE
    <3>1. d # c /\ pc[d].at \in Starting
      BY <2>6, <2>b DEF Uses, Starting
    <3> QED BY <2>6, <3>1, <1>s DEF Uses, Owns, Starting
  <2> QED BY <1>1, <2>1, <2>2, <2>3, <2>4, <2>5, <2>6, Kinds
<1>2. ASSUME NEW n \in Sessions, OfSession(n)
      PROVE  /\ ses'[pc'[d].s].child # "none" /\ ses'[pc'[d].s].closer = "none"
             /\ \A e \in Callers : e # d => pc'[e].s # pc'[d].s
  <2>1. UNCHANGED pc /\ \A k \in Sessions : k # n => ses'[k] = ses[k]
    BY <1>2, <1>t, SessionMoves
  <2>2. pc[d].at \in Starting
    BY <2>1
  <2>3. /\ ses[n].child # "none" /\ ses[n].closer = "none" =>
              ses'[n].child # "none" /\ ses'[n].closer = "none"
    BY <1>2, <1>t, SessionEffects
  <2> QED BY <2>1, <2>2, <2>3, <1>s
<1>3. CASE WithBaseDir
  BY <1>3, <1>s DEF WithBaseDir
<1> QED BY <1>1, <1>2, <1>3, Steps

\* The session in use is the one the inputs in force asked for.
LEMMA UseStep ==
  ASSUME IInv, Next
  PROVE  UseInv'
<1> SUFFICES ASSUME ext'.session # 0
             PROVE  /\ ses'[ext'.session].child # "none" /\ ses'[ext'.session].closer = "none"
                    /\ ses'[ext'.session].gen = ext'.gen
                    /\ ses'[ext'.session].meta \in {meta', None}
  BY DEF UseInv
<1>t. TypeInv /\ UseInv /\ StartInv /\ (ext.session = 0 \/ ext.session \in Sessions)
  BY DEF IInv, TypeInv, Sessions
<1>1. ASSUME NEW c \in Callers, OfCaller(c)
      PROVE  /\ ses'[ext'.session].child # "none" /\ ses'[ext'.session].closer = "none"
             /\ ses'[ext'.session].gen = ext'.gen
             /\ ses'[ext'.session].meta \in {meta', None}
  <2>1. CASE Quiet(c)
    <3>1. ext.session \in Sessions /\ ext'.session = ext.session
      BY <2>1, <1>t DEF Quiet
    <3> QED BY <2>1, <3>1, <1>t DEF Quiet, Kept, UseInv
  <2>2. CASE Changes
    BY <2>2 DEF Changes
  <2>3. ASSUME NEW n \in Sessions, Closes(c, n) PROVE FALSE
    BY <2>3 DEF Closes
  <2>4. ASSUME NEW n \in Sessions, Starts(c, n)
        PROVE  /\ ses'[ext'.session].child # "none" /\ ses'[ext'.session].closer = "none"
               /\ ses'[ext'.session].gen = ext'.gen
               /\ ses'[ext'.session].meta \in {meta', None}
    BY <2>4, <1>t DEF Starts, Free, UseInv
  <2>5. ASSUME NEW n \in Sessions, Loses(c, n) PROVE FALSE
    BY <2>5, OneStarts DEF Loses
  <2>6. ASSUME NEW n \in Sessions, Uses(c, n)
        PROVE  /\ ses'[ext'.session].child # "none" /\ ses'[ext'.session].closer = "none"
               /\ ses'[ext'.session].gen = ext'.gen
               /\ ses'[ext'.session].meta \in {meta', None}
    BY <2>6, <1>t DEF Uses, StartInv, Starting
  <2> QED BY <1>1, <2>1, <2>2, <2>3, <2>4, <2>5, <2>6, Kinds
<1>2. ASSUME NEW n \in Sessions, OfSession(n)
      PROVE  /\ ses'[ext'.session].child # "none" /\ ses'[ext'.session].closer = "none"
             /\ ses'[ext'.session].gen = ext'.gen
             /\ ses'[ext'.session].meta \in {meta', None}
  <2>1. UNCHANGED <<ext, meta>> /\ \A k \in Sessions : k # n => ses'[k] = ses[k]
    BY <1>2, <1>t, SessionMoves
  <2>2. ses[n].child # "none" /\ ses[n].closer = "none" =>
              /\ ses'[n].gen = ses[n].gen /\ ses'[n].meta = ses[n].meta
              /\ ses'[n].child # "none" /\ ses'[n].closer = "none"
    BY <1>2, <1>t, SessionEffects
  <2> QED BY <2>1, <2>2, <1>t DEF UseInv
<1>3. CASE WithBaseDir
  <2>1. ext'.session = ext.session /\ ext'.gen = ext.gen
    BY <1>3, <1>t DEF WithBaseDir, TypeInv
  <2> QED BY <1>3, <2>1, <1>t DEF WithBaseDir, UseInv
<1> QED BY <1>1, <1>2, <1>3, Steps

\* A caller's endpoint, for one caller.
EndpointOk(d) ==
  /\ pc[d].base <= ext.gen
  /\ pc[d].at \in AtEndpoint =>
       /\ ses[pc[d].s].child = "none" \/ ses[pc[d].s].gen >= pc[d].base
       /\ ses[pc[d].s].meta \in {meta, None}

\* Requests keep the endpoint they are meant for.
LEMMA EndpointStep ==
  ASSUME IInv, Next
  PROVE  EndpointInv'
<1> SUFFICES ASSUME NEW d \in Callers PROVE EndpointOk(d)'
  BY DEF EndpointInv, EndpointOk
<1>t. TypeInv /\ PlaceInv /\ LaunchInv /\ UseInv
  BY DEF IInv
<1>g. ext.gen \in Nat /\ (ext.session = 0 \/ ext.session \in Sessions) /\ pc[d].base \in Nat
  BY <1>t DEF TypeInv, Sessions, CallerStates
<1>d. EndpointOk(d)
  BY DEF IInv, EndpointInv, EndpointOk
<1>p. pc[d].at \in AtEndpoint => pc[d].s \in Sessions
  BY <1>t DEF PlaceInv
<1>s. \A n \in Sessions : ses[n].gen \in Nat
  BY <1>t DEF TypeInv, SessionStates
<1>1. ASSUME NEW c \in Callers, OfCaller(c) PROVE EndpointOk(d)'
  <2>b. d # c => pc'[d] = pc[d]
    BY <1>1, <1>t, Bystanders
  <2>1. CASE Quiet(c)
    <3>1. CASE d # c
      BY <2>1, <2>b, <3>1, <1>d, <1>p DEF Quiet, Kept, EndpointOk
    <3>2. CASE d = c
      <4>1. pc'[d].base <= ext'.gen
        BY <2>1, <3>2, <1>d, <1>g DEF Quiet, EndpointOk
      <4>2. ASSUME pc'[d].at \in AtEndpoint, pc[d].at \in AtEndpoint, pc'[d].s = pc[d].s
            PROVE  EndpointOk(d)'
        BY <2>1, <3>2, <4>1, <4>2, <1>d, <1>p DEF Quiet, Kept, EndpointOk
      <4>3. ASSUME pc'[d].at \in AtEndpoint, ext.session # 0, pc'[d].s = ext.session
            PROVE  EndpointOk(d)'
        <5>1. ext.session \in Sessions /\ pc'[d].base <= ses[ext.session].gen
              /\ ses[ext.session].meta \in {meta, None}
          BY <2>1, <3>2, <4>1, <4>3, <1>t, <1>g DEF Quiet, UseInv
        <5>2. ses'[ext.session].gen = ses[ext.session].gen /\ ses'[ext.session].meta = ses[ext.session].meta
          BY <2>1, <5>1 DEF Quiet, Kept
        <5>3. ses[ext.session].gen >= pc'[d].base /\ meta' = meta
          BY <2>1, <3>2, <4>3, <5>1, <1>g, <1>s DEF Quiet
        <5> QED BY <4>1, <4>3, <5>1, <5>2, <5>3 DEF EndpointOk
      <4> QED BY <2>1, <3>2, <4>1, <4>2, <4>3 DEF Quiet, EndpointOk
    <3> QED BY <3>1, <3>2
  <2>2. CASE Changes
    <3>1. pc[d].base <= ext'.gen
      <4>1. ext'.gen \in Nat
        BY TypeStep DEF IInv, TypeInv
      <4> QED BY <2>2, <4>1, <1>d, <1>g DEF Changes, EndpointOk
    <3> QED BY <2>2, <3>1, <1>d DEF Changes, EndpointOk
  <2>3. ASSUME NEW n \in Sessions, Closes(c, n) PROVE EndpointOk(d)'
    <3>1. pc[d].base <= ext'.gen
      <4>1. ext'.gen \in Nat
        BY TypeStep DEF IInv, TypeInv
      <4> QED BY <2>3, <4>1, <1>d, <1>g DEF Closes, EndpointOk
    <3>2. CASE d # c
      BY <2>3, <2>b, <3>1, <3>2, <1>d, <1>p DEF Closes, Kept, EndpointOk
    <3>3. CASE d = c
      BY <2>3, <3>1, <3>3 DEF Closes, EndpointOk, AtEndpoint
    <3> QED BY <3>2, <3>3
  <2>4. ASSUME NEW n \in Sessions, Starts(c, n) PROVE EndpointOk(d)'
    <3>1. CASE d # c
      BY <2>4, <2>b, <3>1, <1>d, <1>p DEF Starts, Free, EndpointOk
    <3>2. CASE d = c
      BY <2>4, <3>2, <1>d DEF Starts, EndpointOk, AtEndpoint
    <3> QED BY <3>1, <3>2
  <2>5. ASSUME NEW n \in Sessions, Loses(c, n) PROVE EndpointOk(d)'
    <3>1. CASE d # c
      <4>1. pc[d].s # n
        BY <2>5, <3>1 DEF Loses, IInv, StartInv
      <4> QED BY <2>5, <2>b, <3>1, <4>1, <1>d, <1>p DEF Loses, EndpointOk
    <3>2. CASE d = c
      BY <2>5, <3>2, <1>g DEF Loses, EndpointOk, AtEndpoint, Idle
    <3> QED BY <3>1, <3>2
  <2>6. ASSUME NEW n \in Sessions, Uses(c, n) PROVE EndpointOk(d)'
    <3>1. CASE d # c
      BY <2>6, <2>b, <3>1, <1>d, <1>p DEF Uses, EndpointOk
    <3>2. CASE d = c
      BY <2>6, <3>2, <1>d, <1>g DEF Uses, EndpointOk
    <3> QED BY <3>1, <3>2
  <2> QED BY <1>1, <2>1, <2>2, <2>3, <2>4, <2>5, <2>6, Kinds
<1>2. ASSUME NEW n \in Sessions, OfSession(n) PROVE EndpointOk(d)'
  <2>1. UNCHANGED <<ext, meta, pc>> /\ \A k \in Sessions : k # n => ses'[k] = ses[k]
    BY <1>2, <1>t, SessionMoves
  <2>2. \/ /\ ses'[n].gen = ses[n].gen /\ ses'[n].meta = ses[n].meta
           /\ ses[n].child = "none" => ses'[n].child = "none"
        \/ ses'[n].child = "none" /\ ses'[n].meta = None
    BY <1>2, <1>t, SessionEffects
  <2> QED BY <2>1, <2>2, <1>d, <1>p DEF EndpointOk
<1>3. CASE WithBaseDir
  <2>1. ext'.session = ext.session /\ ext'.gen = ext.gen
    BY <1>3, <1>t DEF WithBaseDir, TypeInv
  <2> QED BY <1>3, <2>1, <1>d DEF WithBaseDir, EndpointOk
<1> QED BY <1>1, <1>2, <1>3, Steps

\* Somebody answers for endpoint n.
Kin(n) ==
  \/ ext.session = n
  \/ ses[n].closer # "none"
  \/ \E c \in Callers : pc[c].s = n /\ pc[c].at \in Starting

\* No step forgets an endpoint.
LEMMA OrphanStep ==
  ASSUME IInv, Next
  PROVE  NoOrphans'
<1> SUFFICES ASSUME NEW k \in Sessions, ses'[k].child # "none" PROVE Kin(k)'
  BY DEF NoOrphans, Kin, Starting
<1>t. TypeInv /\ PlaceInv /\ LaunchInv
  BY DEF IInv
<1>o. ses[k].child # "none" => Kin(k)
  BY DEF IInv, NoOrphans, Kin, Starting
<1>z. k # 0
  BY DEF Sessions
<1>1. ASSUME NEW c \in Callers, OfCaller(c) PROVE Kin(k)'
  <2>b. \A d \in Callers : d # c => pc'[d] = pc[d]
    BY <1>1, <1>t, Bystanders
  <2>1. CASE Quiet(c)
    <3>1. Kin(k) /\ ext'.session = ext.session /\ ses'[k].closer = ses[k].closer
      BY <2>1, <1>o DEF Quiet, Kept
    <3>2. ASSUME NEW d \in Callers, pc[d].s = k, pc[d].at \in Starting
          PROVE  pc'[d].s = k /\ pc'[d].at \in Starting
      BY <2>1, <2>b, <3>2 DEF Quiet
    <3> QED BY <3>1, <3>2 DEF Kin
  <2>2. CASE Changes
    BY <2>2, <1>o DEF Changes, Kin
  <2>3. ASSUME NEW n \in Sessions, Closes(c, n) PROVE Kin(k)'
    <3>1. CASE k = n
      BY <2>3, <3>1 DEF Closes, Kin
    <3>2. CASE k # n
      <4>1. Kin(k) /\ ses'[k].closer = ses[k].closer /\ ext.session # k
        BY <2>3, <3>2, <1>o, <1>z DEF Closes, Kept
      <4>2. ASSUME NEW d \in Callers, pc[d].s = k, pc[d].at \in Starting
            PROVE  pc'[d].s = k /\ pc'[d].at \in Starting
        <5>1. ext.session = 0
          BY <4>2, OneStarts
        <5>2. d # c
          BY <2>3, <3>2, <4>2, <5>1 DEF Closes, Sessions
        <5> QED BY <2>b, <4>2, <5>2
      <4> QED BY <4>1, <4>2 DEF Kin
    <3> QED BY <3>1, <3>2
  <2>4. ASSUME NEW n \in Sessions, Starts(c, n) PROVE Kin(k)'
    <3>1. CASE k = n
      BY <2>4, <3>1 DEF Starts, Kin, Starting
    <3>2. CASE k # n
      <4>0. pc[c].at = "snapshot"
        BY <1>1, <2>4, <1>t DEF Starts
      <4>1. Kin(k) /\ ses'[k] = ses[k] /\ ext' = ext
        BY <2>4, <3>2, <1>o DEF Starts
      <4> QED BY <2>b, <4>0, <4>1 DEF Kin, Starting
    <3> QED BY <3>1, <3>2
  <2>5. ASSUME NEW n \in Sessions, Loses(c, n) PROVE Kin(k)'
    <3>1. k # n
      BY <2>5 DEF Loses, NoSession
    <3>2. Kin(k) /\ ses'[k] = ses[k] /\ ext' = ext /\ pc[c].s # k
      BY <2>5, <3>1, <1>o DEF Loses
    <3> QED BY <2>b, <3>2 DEF Kin
  <2>6. ASSUME NEW n \in Sessions, Uses(c, n) PROVE Kin(k)'
    <3>1. CASE k = n
      BY <2>6, <3>1 DEF Uses, Kin
    <3>2. CASE k # n
      <4>1. Kin(k) /\ ses'[k] = ses[k] /\ pc[c].s # k /\ pc[c].at \in Starting
        BY <2>6, <3>2, <1>o DEF Uses, Starting
      <4>2. ext.session # k
        BY <4>1, <1>z, OneStarts
      <4> QED BY <2>b, <4>1, <4>2 DEF Kin
    <3> QED BY <3>1, <3>2
  <2> QED BY <1>1, <2>1, <2>2, <2>3, <2>4, <2>5, <2>6, Kinds
<1>2. ASSUME NEW n \in Sessions, OfSession(n) PROVE Kin(k)'
  <2>1. UNCHANGED <<ext, pc>> /\ \A j \in Sessions : j # n => ses'[j] = ses[j]
    BY <1>2, <1>t, SessionMoves
  <2>2. /\ ses'[n].child # "none" => ses[n].child # "none"
        /\ ses'[n].child # "none" /\ ses[n].closer # "none" => ses'[n].closer # "none"
    BY <1>2, <1>t, SessionEffects
  <2> QED BY <2>1, <2>2, <1>o DEF Kin
<1>3. CASE WithBaseDir
  <2>1. ext'.session = ext.session
    BY <1>3, <1>t DEF WithBaseDir, TypeInv
  <2> QED BY <1>3, <2>1, <1>o DEF WithBaseDir, Kin
<1> QED BY <1>1, <1>2, <1>3, Steps

----------------------------------------------------------------------------
(* Requests *)

\* Only start and wait change who is waited for; every other step of a caller
\* leaves or shrinks `pending` and enters no request.
LEMMA OtherSteps ==
  ASSUME IInv, NEW c \in Callers, OfCaller(c),
         ~Start(c), ~Register(c), ~WaitClosed(c), ~WaitDeadline(c),
         \A n \in Sessions : ~Answer(n, c)
  PROVE  /\ pc[c].at # "waiting"
         /\ pc'[c].at \notin {"register", "waiting"}
         /\ \A n \in Sessions : ses'[n].pending \subseteq ses[n].pending
<1>t. TypeInv
  BY DEF IInv
<1>0. pc[c] \in CallerStates /\ pc \in [Callers -> CallerStates] /\ ses \in [Sessions -> SessionStates]
  BY <1>t DEF TypeInv
<1>e. ext.session = 0 \/ ext.session \in Sessions
  BY <1>t DEF TypeInv, Sessions
<1>p. pc[c].at \in Starting \cup {"returned"} => pc[c].s \in Sessions
  BY DEF IInv, PlaceInv
<1>i. Idle.at = "idle"
  BY DEF Idle
<1>c. ASSUME NEW n \in Sessions, NEW next \in Nexts, CloseLive(c, n, next)
      PROVE  /\ pc'[c].at \notin {"register", "waiting"}
             /\ \A k \in Sessions : ses'[k].pending \subseteq ses[k].pending
  <2>1. pc'[c].at = "closing"
    BY <1>c, <1>t, CloseLiveEffects
  <2>2. ses'[n] = [ses[n] EXCEPT !.closer = "begin"] /\ \A k \in Sessions : k # n => ses'[k] = ses[k]
    BY <1>c, <1>t, CloseLiveMarks
  <2>3. ses'[n].pending = ses[n].pending
    BY <1>0, <2>2 DEF SessionStates
  <2> QED BY <2>1, <2>2, <2>3
<1>1. CASE Begin(c)
  <2>1. pc'[c].at = "live"
    BY <1>0, <1>1 DEF Begin, Idle
  <2> QED BY <1>1, <2>1 DEF Begin
<1>2. CASE LiveSession(c)
  <2>1. CASE Finish(c) /\ UNCHANGED ses
    BY <1>2, <2>1, <1>t, <1>i, CallerEffects DEF LiveSession
  <2>2. ASSUME NEW next \in {"lock", "snapshot"}, Goto(c, next), UNCHANGED ses
        PROVE  /\ pc'[c].at \notin {"register", "waiting"}
               /\ \A n \in Sessions : ses'[n].pending \subseteq ses[n].pending
    BY <2>2, <1>t, CallerEffects
  <2>3. CASE pc' = [pc EXCEPT ![c].at = "start", ![c].s = ext.session] /\ UNCHANGED ses
    <3>1. pc'[c].at = "start"
      BY <1>0, <2>3 DEF CallerStates
    <3> QED BY <1>2, <2>3, <3>1 DEF LiveSession
  <2>4. ASSUME NEW next \in {"lock", "snapshot"}, ext.session # 0, CloseLive(c, ext.session, next)
        PROVE  /\ pc'[c].at \notin {"register", "waiting"}
               /\ \A n \in Sessions : ses'[n].pending \subseteq ses[n].pending
    <3>1. PICK n \in Sessions : n = ext.session
      BY <1>e, <2>4
    <3>2. CloseLive(c, n, next) /\ next \in Nexts
      BY <2>4, <3>1 DEF Nexts
    <3> QED BY <3>2, <1>c
  <2>5. pc[c].at # "waiting"
    BY <1>2 DEF LiveSession
  <2> QED BY <1>2, <2>1, <2>2, <2>3, <2>4, <2>5 DEF LiveSession
<1>3. CASE LockLaunch(c) \/ Initialized(c)
  BY <1>3, <1>t, CallerEffects DEF LockLaunch, Initialized
<1>4. CASE Spawn(c)
  <2>1. CASE Finish(c) /\ UNCHANGED ses
    BY <1>4, <2>1, <1>t, <1>i, CallerEffects DEF Spawn
  <2>2. ASSUME NEW n \in Sessions, NEW m \in Reports, ses' = [ses EXCEPT ![n] = Started(m)],
               pc' = [pc EXCEPT ![c].at = "connecting", ![c].s = n]
        PROVE  /\ pc'[c].at \notin {"register", "waiting"}
               /\ \A k \in Sessions : ses'[k].pending \subseteq ses[k].pending
    <3>1. pc'[c].at = "connecting"
      BY <1>0, <2>2 DEF CallerStates
    <3>2. ses'[n] = Started(m) /\ \A k \in Sessions : k # n => ses'[k] = ses[k]
      BY <1>0, <2>2
    <3>3. Started(m).pending = {}
      BY DEF Started, NoSession
    <3> QED BY <3>1, <3>2, <3>3
  <2> QED BY <1>4, <2>1, <2>2 DEF Spawn
<1>5. CASE ConnectFails(c)
  <2>1. pc'[c].at = "idle"
    BY <1>5, <1>t, <1>i, CallerEffects DEF ConnectFails
  <2>2. NoSession.pending = {}
    BY DEF NoSession
  <2> QED BY <1>0, <1>5, <2>1, <2>2 DEF ConnectFails
<1>6. CASE Ready(c)
  <2>1. pc'[c].at = "publish"
    BY <1>6, <1>t, CallerEffects DEF Ready
  <2>2. pc[c].s \in Sessions
    BY <1>6, <1>p DEF Ready, Starting
  <2>3. \A n \in Sessions : ses'[n].pending = ses[n].pending
    BY <1>0, <1>6, <2>2 DEF Ready, SessionStates
  <2> QED BY <1>6, <2>1, <2>3 DEF Ready
<1>7. CASE Publish(c)
  <2>1. PICK n \in Sessions : n = pc[c].s
    BY <1>7, <1>p DEF Publish, Starting
  <2>2. ASSUME NEW next \in {"idle", "relive"}, CloseLive(c, pc[c].s, next)
        PROVE  /\ pc'[c].at \notin {"register", "waiting"}
               /\ \A k \in Sessions : ses'[k].pending \subseteq ses[k].pending
    <3>1. CloseLive(c, n, next) /\ next \in Nexts
      BY <2>1, <2>2 DEF Nexts
    <3> QED BY <3>1, <1>c
  <2>3. CASE Goto(c, "start") /\ UNCHANGED ses
    BY <1>7, <1>t, <2>3, CallerEffects DEF Publish
  <2>4. pc[c].at # "waiting"
    BY <1>7 DEF Publish
  <2> QED BY <1>7, <2>2, <2>3, <2>4 DEF Publish
<1>8. CASE Return(c)
  <2>1. PICK n \in Sessions : n = pc[c].s
    BY <1>8, <1>p DEF Return
  <2>2. ASSUME NEW next \in {"idle", "live"}, CloseLive(c, pc[c].s, next)
        PROVE  /\ pc'[c].at \notin {"register", "waiting"}
               /\ \A k \in Sessions : ses'[k].pending \subseteq ses[k].pending
    <3>1. CloseLive(c, n, next) /\ next \in Nexts
      BY <2>1, <2>2 DEF Nexts
    <3> QED BY <3>1, <1>c
  <2>3. ASSUME NEW next \in {"idle", "live"}, Resume(c, next), UNCHANGED ses
        PROVE  /\ pc'[c].at \notin {"register", "waiting"}
               /\ \A k \in Sessions : ses'[k].pending \subseteq ses[k].pending
    BY <1>t, <2>3, CallerEffects
  <2>4. pc[c].at # "waiting"
    BY <1>8 DEF Return
  <2> QED BY <1>8, <2>2, <2>3, <2>4 DEF Return, Resumes
<1>9. CASE Closing(c)
  <2>1. pc[c].next \in {"idle", "live", "lock", "snapshot", "relive"}
    BY <1>0 DEF CallerStates
  <2> QED BY <1>9, <1>t, <2>1, CallerEffects DEF Closing
<1>10. CASE SetInput(c) \/ DropProvider(c)
  <2>1. pc[c].at = "idle"
    BY <1>10 DEF SetInput, DropProvider
  <2>2. CASE ext.session # 0
    <3>1. PICK n \in Sessions : n = ext.session
      BY <1>e, <2>2
    <3>2. CloseLive(c, n, "idle") /\ "idle" \in Nexts
      BY <1>10, <2>2, <3>1 DEF SetInput, DropProvider, Nexts
    <3> QED BY <2>1, <3>2, <1>c
  <2>3. CASE ext.session = 0
    BY <1>10, <2>1, <2>3 DEF SetInput, DropProvider
  <2> QED BY <2>2, <2>3
<1> QED BY <1>1, <1>2, <1>3, <1>4, <1>5, <1>6, <1>7, <1>8, <1>9, <1>10 DEF OfCaller, CallerStep

\* The caller of a step has an entry in `pending` only where it waits, and
\* enters no other.
LEMMA OwnEntries ==
  ASSUME IInv, NEW c \in Callers, OfCaller(c), NEW n \in Sessions
  PROVE  /\ ses'[n].pending \subseteq ses[n].pending \cup {c}
         /\ c \in ses'[n].pending => pc'[c].at = "waiting" /\ pc'[c].s = n
<1>t. TypeInv
  BY DEF IInv
<1>0. pc[c] \in CallerStates /\ pc \in [Callers -> CallerStates] /\ ses \in [Sessions -> SessionStates]
  BY <1>t DEF TypeInv
<1>p. pc[c].at \in AtEndpoint => pc[c].s \in Sessions
  BY DEF IInv, PlaceInv
<1>n. \A k \in Sessions : c \in ses[k].pending => pc[c].at = "waiting" /\ pc[c].s = k
  BY DEF IInv, PendingInv
<1>f. \A k \in Sessions : Failed(ses[k]).pending = {}
  BY <1>0 DEF Failed, SessionStates
<1>1. CASE Start(c)
  BY <1>1, <1>n DEF Start
<1>2. CASE Register(c)
  <2>1. pc[c].s \in Sessions /\ pc[c].at = "register"
    BY <1>2, <1>p DEF Register, AtEndpoint
  <2>2. CASE /\ ses' = [ses EXCEPT ![pc[c].s].pending = @ \cup {c}]
             /\ pc' = [pc EXCEPT ![c].at = "waiting", ![c].lost = @ + 1]
    <3>1. pc'[c].at = "waiting" /\ pc'[c].s = pc[c].s
      BY <1>0, <2>2 DEF CallerStates
    <3>2. ses'[n].pending = IF n = pc[c].s THEN ses[n].pending \cup {c} ELSE ses[n].pending
      BY ZenonT(60), <1>0, <2>1, <2>2 DEF SessionStates
    <3> QED BY <1>n, <2>1, <3>1, <3>2
  <2>3. CASE ses' = [ses EXCEPT ![pc[c].s] = Failed(@)]
    BY <1>0, <1>f, <1>n, <2>1, <2>3
  <2>4. CASE UNCHANGED ses
    BY <1>n, <2>1, <2>4
  <2> QED BY <1>2, <2>2, <2>3, <2>4 DEF Register
<1>3. CASE WaitClosed(c)
  BY <1>3, <1>n DEF WaitClosed
<1>4. CASE WaitDeadline(c)
  <2>1. pc[c].s \in Sessions
    BY <1>4, <1>p DEF WaitDeadline, AtEndpoint
  <2>2. CASE ses' = [ses EXCEPT ![pc[c].s].pending = @ \ {c}]
    <3>1. ses'[n].pending = IF n = pc[c].s THEN ses[n].pending \ {c} ELSE ses[n].pending
      <4>1. CASE n = pc[c].s
        <5>1. ses'[n] = [ses[n] EXCEPT !.pending = ses[n].pending \ {c}]
          BY <1>0, <2>2, <4>1
        <5> QED BY <1>0, <4>1, <5>1 DEF SessionStates
      <4>2. CASE n # pc[c].s
        BY <1>0, <2>2, <4>2
      <4> QED BY <4>1, <4>2
    <3> QED BY <1>n, <3>1
  <2>3. CASE ses' = [ses EXCEPT ![pc[c].s] = Failed(@)]
    BY <1>0, <1>f, <1>n, <2>1, <2>3
  <2> QED BY <1>4, <2>2, <2>3 DEF WaitDeadline
<1>5. ASSUME NEW k \in Sessions, Answer(k, c)
      PROVE  /\ ses'[n].pending \subseteq ses[n].pending \cup {c}
             /\ c \in ses'[n].pending => pc'[c].at = "waiting" /\ pc'[c].s = n
  <2>1. ses'[n].pending = IF n = k THEN ses[n].pending \ {c} ELSE ses[n].pending
    BY ZenonT(60), <1>0, <1>5 DEF Answer, SessionStates
  <2> QED BY <1>5, <1>n, <2>1 DEF Answer
<1> QED BY <1>1, <1>2, <1>3, <1>4, <1>5, <1>n, OtherSteps

\* Entries in `pending` belong to callers that wait.
LEMMA PendingStep ==
  ASSUME IInv, Next
  PROVE  PendingInv'
<1> SUFFICES ASSUME NEW n \in Sessions, NEW d \in Callers, d \in ses'[n].pending
             PROVE  pc'[d].at = "waiting" /\ pc'[d].s = n
  BY DEF PendingInv
<1>t. TypeInv /\ PlaceInv /\ LaunchInv
  BY DEF IInv
<1>n. \A k \in Sessions : d \in ses[k].pending => pc[d].at = "waiting" /\ pc[d].s = k
  BY DEF IInv, PendingInv
<1>1. ASSUME NEW c \in Callers, OfCaller(c) PROVE pc'[d].at = "waiting" /\ pc'[d].s = n
  <2>1. CASE d = c
    BY <1>1, <2>1, OwnEntries
  <2>2. CASE d # c
    <3>1. pc'[d] = pc[d]
      BY <1>1, <1>t, <2>2, Bystanders
    <3>2. d \in ses[n].pending
      BY <1>1, <2>2, OwnEntries
    <3> QED BY <3>1, <3>2, <1>n
  <2> QED BY <2>1, <2>2
<1>2. ASSUME NEW k \in Sessions, OfSession(k) PROVE pc'[d].at = "waiting" /\ pc'[d].s = n
  <2>1. UNCHANGED pc /\ \A j \in Sessions : j # k => ses'[j] = ses[j]
    BY <1>2, <1>t, SessionMoves
  <2>2. ses'[k].pending \subseteq ses[k].pending
    BY <1>2, <1>t, SessionEffects
  <2> QED BY <2>1, <2>2, <1>n
<1>3. CASE WithBaseDir
  BY <1>3, <1>n DEF WithBaseDir
<1> QED BY <1>1, <1>2, <1>3, Steps

\* A caller gets a permit in start, where there is one left.
LEMMA NewHolders ==
  ASSUME IInv, NEW c \in Callers, OfCaller(c), NEW n \in Sessions, c \notin Holders(n),
         pc'[c].s = n, pc'[c].at \in {"register", "waiting"}
  PROVE  ~(Cardinality(Holders(n)) >= MaxInFlight)
<1>t. TypeInv
  BY DEF IInv
<1>0. pc[c] \in CallerStates /\ pc \in [Callers -> CallerStates]
  BY <1>t DEF TypeInv
<1>1. CASE Start(c)
  <2>1. pc'[c].s = pc[c].s
    BY <1>1, <1>t, CallerEffects DEF Start
  <2>2. Goto(c, "register") /\ ~(Cardinality(Holders(pc[c].s)) >= MaxInFlight)
    BY <1>1, <1>t, CallerEffects DEF Start
  <2> QED BY <2>1, <2>2
<1>2. CASE Register(c)
  <2>1. pc'[c].s = pc[c].s /\ pc[c].at = "register"
    <3>1. CASE pc' = [pc EXCEPT ![c].at = "waiting", ![c].lost = @ + 1]
      BY <1>0, <1>2, <3>1 DEF Register, CallerStates
    <3>2. CASE \E res : Returned(c, res)
      BY <1>2, <1>t, <3>2, CallerEffects DEF Register
    <3> QED BY <1>2, <3>1, <3>2 DEF Register
  <2> QED BY <2>1 DEF Holders
<1>3. CASE WaitClosed(c) \/ WaitDeadline(c)
  <2>1. \E res : Returned(c, res)
    BY <1>3 DEF WaitClosed, WaitDeadline
  <2> QED BY <1>t, <2>1, CallerEffects
<1>4. ASSUME NEW k \in Sessions, Answer(k, c) PROVE FALSE
  <2>1. CASE pc' = [pc EXCEPT ![c] = Idle]
    BY <1>0, <2>1 DEF Idle
  <2>2. ASSUME NEW res, pc' = [pc EXCEPT ![c].at = "returned", ![c].res = res, ![c].lost = @ - 1]
        PROVE  FALSE
    <3>1. pc'[c].at = "returned"
      BY <1>0, <2>2 DEF CallerStates
    <3> QED BY <3>1
  <2> QED BY <1>4, <2>1, <2>2 DEF Answer
<1> QED BY <1>1, <1>2, <1>3, <1>4, OtherSteps

\* No more requests are in flight than a session has permits.
LEMMA PermitStep ==
  ASSUME IInv, Next
  PROVE  PermitInv'
<1> SUFFICES ASSUME NEW n \in Sessions PROVE Cardinality(Holders(n)') <= MaxInFlight
  BY DEF PermitInv
<1>t. TypeInv /\ PlaceInv /\ LaunchInv /\ Cardinality(Holders(n)) <= MaxInFlight
  BY DEF IInv, PermitInv
<1> DEFINE H == Holders(n)
           G == Holders(n)'
<1>f. /\ IsFiniteSet(H) /\ Cardinality(H) \in Nat
      /\ IsFiniteSet(G) /\ Cardinality(G) \in Nat
  <2>1. H \subseteq Callers /\ G \subseteq Callers
    BY DEF Holders
  <2> HIDE DEF H, G
  <2> QED BY <2>1, FS_Subset, FS_CardinalityType
<1>s. ASSUME G \subseteq H PROVE Cardinality(G) <= MaxInFlight
  <2> HIDE DEF H, G
  <2>1. Cardinality(G) <= Cardinality(H)
    BY <1>s, <1>f, FS_Subset
  <2>2. Cardinality(H) <= MaxInFlight
    BY <1>t DEF H
  <2> QED BY <2>1, <2>2, <1>f
<1>1. ASSUME NEW c \in Callers, OfCaller(c) PROVE Cardinality(G) <= MaxInFlight
  <2>1. \A d \in Callers : d # c => pc'[d] = pc[d]
    BY <1>1, <1>t, Bystanders
  <2>2. CASE c \in G /\ c \notin H
    <3>1. ~(Cardinality(H) >= MaxInFlight)
      BY <1>1, <2>2, NewHolders DEF Holders
    <3>2. G \subseteq H \cup {c}
      BY <2>1 DEF Holders
    <3> HIDE DEF H, G
    <3>3. /\ IsFiniteSet(H \cup {c}) /\ Cardinality(H \cup {c}) = Cardinality(H) + 1
      BY <1>f, <2>2, FS_AddElement
    <3>4. Cardinality(G) <= Cardinality(H \cup {c})
      BY <3>2, <3>3, FS_Subset
    <3> QED BY <1>f, <3>1, <3>3, <3>4
  <2>3. CASE ~(c \in G /\ c \notin H)
    <3>1. G \subseteq H
      BY <2>1, <2>3 DEF Holders
    <3> QED BY <3>1, <1>s
  <2> QED BY <2>2, <2>3
<1>2. ASSUME NEW k \in Sessions, OfSession(k) PROVE Cardinality(G) <= MaxInFlight
  <2>1. UNCHANGED pc
    BY <1>2, <1>t, SessionMoves
  <2> QED BY <2>1, <1>s DEF Holders
<1>3. CASE WithBaseDir
  BY <1>3, <1>s DEF WithBaseDir, Holders
<1> QED BY <1>1, <1>2, <1>3, Steps

----------------------------------------------------------------------------
\* Nothing has been started and nobody is under way.
LEMMA InitIInv == Init => IInv
<1> SUFFICES ASSUME Init PROVE IInv
  OBVIOUS
<1>1. TypeInv
  <2>1. ext \in [session : 0..MaxEndpoints, gen : 0..MaxChanges, refused : BOOLEAN, dropped : BOOLEAN]
    BY DEF Init
  <2>2. ses \in [Sessions -> SessionStates] /\ pc \in [Callers -> CallerStates]
    BY Records DEF Init
  <2> QED BY <2>1, <2>2 DEF Init, TypeInv
<1>2. \A c \in Callers : pc[c] = Idle
  BY DEF Init
<1>3. Idle.at = "idle" /\ Idle.s = 0 /\ Idle.base = 0 /\ Idle.lost = 0
  BY DEF Idle
<1>4. ext.session = 0 /\ ext.gen = 0
  BY DEF Init
<1>5. \A n \in Sessions : ses[n].child = "none" /\ ses[n].pending = {}
  BY DEF Init, NoSession
<1>6. PlaceInv /\ LaunchInv /\ EmptyInv /\ StartInv /\ LostInv
  BY <1>2, <1>3, <1>4 DEF PlaceInv, LaunchInv, Owns, EmptyInv, Launches, StartInv, LostInv, LostOk,
     Starting, AtEndpoint
<1>7. UseInv /\ EndpointInv /\ PendingInv /\ NoOrphans
  BY <1>2, <1>3, <1>4, <1>5 DEF UseInv, EndpointInv, AtEndpoint, PendingInv, NoOrphans
<1>8. PermitInv
  <2>1. \A n \in Sessions : Holders(n) = {}
    BY <1>2, <1>3 DEF Holders
  <2> QED BY <2>1, FS_EmptySet DEF PermitInv
<1> QED BY <1>1, <1>6, <1>7, <1>8 DEF IInv

\* The inductive invariant holds in every reachable state of a provider, its
\* callers and its endpoints.
THEOREM Invariance == Spec => []IInv
<1>1. IInv /\ [Next]_vars => IInv'
  <2> SUFFICES ASSUME IInv, [Next]_vars PROVE IInv'
    OBVIOUS
  <2>1. CASE Next
    <3>1. TypeInv'
      BY <2>1, TypeStep DEF IInv
    <3> QED BY <2>1, <3>1, CallersStep, StartStep, UseStep, EndpointStep, PendingStep, PermitStep,
               OrphanStep DEF IInv
  <2>2. CASE UNCHANGED vars
    BY <2>2 DEF vars, IInv, TypeInv, PlaceInv, LaunchInv, Owns, EmptyInv, Launches, StartInv, UseInv,
       EndpointInv, PendingInv, LostInv, LostOk, PermitInv, Holders, NoOrphans
  <2> QED BY <2>1, <2>2
<1> QED BY <1>1, InitIInv, PTL DEF Spec

\* The state keeps its type, and never are more requests in flight in a session
\* than start has permits for.
THEOREM TypeCorrect == Spec => []TypeOK
<1>1. IInv => TypeOK
  BY DEF IInv, TypeInv, PermitInv, TypeOK, SessionStates, CallerStates
<1> QED BY <1>1, Invariance, PTL

\* A request reaches only an endpoint that was initialized with the inputs in
\* force when its operation began, or later ones, and that reported what the
\* provider reports.
THEOREM RequestsReachTheRightEndpoint == Spec => []RightEndpoint
<1>1. IInv => RightEndpoint
  BY DEF IInv, EndpointInv, AtEndpoint, RightEndpoint
<1> QED BY <1>1, Invariance, PTL

\* The retry layer never repeats a request whose fate is unknown.
THEOREM NoReplay == Spec => []NotReplayed
<1>1. IInv => NotReplayed
  BY DEF IInv, LostInv, LostOk, NotReplayed
<1> QED BY <1>1, Invariance, PTL

\* Every endpoint process is in use, being started or being cleaned up.
THEOREM EndpointsAreOwned == Spec => []NoOrphans
<1>1. IInv => NoOrphans
  BY DEF IInv
<1> QED BY <1>1, Invariance, PTL

\* live_session, call and launch_session take away no session that works.
THEOREM OnlySettersDetach == Spec => HealthySessionsStay
<1>1. IInv /\ [Next]_vars =>
        [ext.session # 0 /\ ext'.session # ext.session =>
           \/ ses[ext.session].state = "closed"
           \/ ext'.gen # ext.gen
           \/ ext'.dropped]_vars
  <2> SUFFICES ASSUME IInv, Next, ext.session # 0, ext'.session # ext.session
               PROVE  \/ ses[ext.session].state = "closed"
                      \/ ext'.gen # ext.gen
                      \/ ext'.dropped
    BY DEF vars
  <2>t. TypeInv
    BY DEF IInv
  <2>1. ASSUME NEW c \in Callers, OfCaller(c)
        PROVE  \/ ses[ext.session].state = "closed"
               \/ ext'.gen # ext.gen
               \/ ext'.dropped
    <3>1. CASE LiveSession(c) \/ Return(c)
      BY <3>1 DEF LiveSession, Return
    <3>2. CASE Publish(c)
      BY <3>2, OneStarts DEF Publish, Starting
    <3>3. CASE SetInput(c)
      <4>1. ext'.gen = ext.gen + 1 /\ ext.gen \in Nat
        BY <3>3, <2>t DEF SetInput, TypeInv
      <4> QED BY <4>1
    <3>4. CASE DropProvider(c)
      BY <3>4, <2>t DEF DropProvider, TypeInv
    <3>5. CASE UNCHANGED ext
      BY <3>5
    <3> QED BY <2>1, <3>1, <3>2, <3>3, <3>4, <3>5
        DEF OfCaller, CallerStep, Begin, LockLaunch, Initialized, Answer, Spawn, ConnectFails, Ready,
            Start, Register, WaitClosed, WaitDeadline, Closing
  <2>2. CASE \E n \in Sessions : OfSession(n)
    BY <2>2, <2>t, SessionMoves
  <2>3. CASE WithBaseDir
    BY <2>3, <2>t DEF WithBaseDir, TypeInv
  <2> QED BY <2>1, <2>2, <2>3, Steps
<1> QED BY <1>1, Invariance, PTL DEF Spec, HealthySessionsStay
=============================================================================
