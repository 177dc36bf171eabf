------------------------- MODULE RpcCallbacksProofs -------------------------
(***************************************************************************)
(* Theorems about RpcCallbacks, for every number of requests and callbacks *)
(* and every limit.  The client refuses what it does not expect and sees   *)
(* nothing of the endpoint's state, so the invariant has to say what the   *)
(* frames under way mean on both sides: a callback is at one place at a    *)
(* time, and as long as it is anywhere the endpoint expects its answer.    *)
(* The theorems about Deadline, the time a callback may take, and about    *)
(* ResolverLeases, what the calls around it leave behind, follow.          *)
(***************************************************************************)
EXTENDS RpcCallbacks, Deadline, ResolverLeases, TLAPS, FiniteSetTheorems, SequenceTheorems

\* What travels in each direction.
ClientFrames == [type : {"callback"}, id : CallIds, parent : Parents, late : BOOLEAN]
                \cup [type : {"response"}, id : {0}, parent : Parents]
ServerFrames == [type : {"answer"}, id : CallIds, parent : {NoOne}]
                \cup [type : {"cancel"}, id : {0}, parent : Parents]

TypeInv == TypeOK /\ toClient \in Seq(ClientFrames) /\ toServer \in Seq(ServerFrames)

\* Each Peer::call uses up at most one ID.
Started == {k \in Callers : caller[k] \notin {"idle", "permit"}}
CountInv == nextId \in 1 .. Cardinality(Started) + 1

\* What a Peer::call has at each point; IDs are never shared, and the holder
\* of the order lock is the only one between its ID and the queue.
Unsent == {"sending", "checked"}
CallerOk(k) ==
  /\ caller[k] # "idle" => parent[k] \in Parents
  /\ caller[k] \in {"idle", "permit"} => callId[k] = 0
  /\ caller[k] \in Unsent \cup {"queued"} => callId[k] # 0
  /\ order = k <=> caller[k] \in Unsent
  /\ callId[k] < nextId
  /\ \A j \in Callers : callId[j] = callId[k] /\ callId[k] # 0 => j = k
CallerInv == \A k \in Callers : CallerOk(k)

\* IDs below the horizon have been sent or never will be.
Frontier == IF order = NoOne THEN nextId ELSE callId[order]

IsCallback(f, id) == f.type = "callback" /\ f.id = id
IsAnswer(f, id) == f.type = "answer" /\ f.id = id

\* Callbacks travel in the order of their IDs, behind the last one seen.
OrderInv ==
  /\ lastSeen < Frontier
  /\ \A i \in DOMAIN toClient : toClient[i].type = "callback"
       => lastSeen < toClient[i].id /\ toClient[i].id < Frontier
  /\ \A i, j \in DOMAIN toClient :
       i < j /\ toClient[i].type = "callback" /\ toClient[j].type = "callback"
       => toClient[i].id < toClient[j].id
  /\ \A id \in CallIds : callback[id] # "none" => id <= lastSeen

\* A callback is on its way, being served, or its answer is on its way.
Asked(id) == \E i \in DOMAIN toClient : IsCallback(toClient[i], id)
Served(id) == callback[id] \in {"running", "answering", "panicked"}
Replied(id) == \E i \in DOMAIN toServer : IsAnswer(toServer[i], id)
InFlight(id) == Asked(id) \/ Served(id) \/ Replied(id)

\* An answer is sent once, by a task that is done with it.
AnswerInv ==
  /\ \A i \in DOMAIN toServer, j \in DOMAIN toServer :
       toServer[i].type = "answer" /\ toServer[j].type = "answer"
         /\ toServer[i].id = toServer[j].id => i = j
  /\ \A i \in DOMAIN toServer :
       toServer[i].type = "answer" => callback[toServer[i].id] = "answered"

\* The endpoint expects an answer exactly for what is under way.
ExpectInv ==
  /\ \A id \in CallIds : InFlight(id) => id \in pending \cup abandoned
  /\ \A id \in pending : \E k \in Callers :
       callId[k] = id /\ caller[k] \in Unsent \cup {"queued"}
  /\ \A k \in Callers : caller[k] \in Unsent => callId[k] \in pending
  /\ \A id \in abandoned : \E k \in Callers : callId[k] = id /\ caller[k] = "done"
  /\ failed = "no" =>
       /\ \A id \in abandoned : InFlight(id)
       /\ \A k \in Callers, id \in pending :
            caller[k] = "queued" /\ callId[k] = id => InFlight(id)

\* The endpoint's permits and the client's slots.
Running == {id \in CallIds : callback[id] \in {"running", "panicked"}}
PermitInv == Permits <= Limit
ActiveInv == active = Cardinality(Running)

\* Every request of the client gets one response.
ResponseInv ==
  /\ \A i \in DOMAIN toClient : toClient[i].type = "response"
       => toClient[i].parent \in answered \cap (waiting \cup givenUp)
  /\ \A i, j \in DOMAIN toClient :
       toClient[i].type = "response" /\ toClient[j].type = "response"
         /\ toClient[i].parent = toClient[j].parent => i = j
  /\ Parents \ (waiting \cup givenUp) \subseteq answered

\* With a handler that makes its own callbacks and a client that waits, no
\* callback is behind the response to its parent.
Patient == ~Spawned /\ ~Abandons
PatientInv ==
  Patient =>
    /\ givenUp = {}
    /\ \A k \in Callers : caller[k] \in Holding /\ parent[k] \in answered
         => parent[k] \in stopped /\ caller[k] # "checked"
    /\ \A i \in DOMAIN toClient : toClient[i].type = "callback"
         => /\ toClient[i].parent \in waiting
            /\ \A j \in DOMAIN toClient :
                 j < i /\ toClient[j].type = "response" => toClient[j].parent # toClient[i].parent

\* A derived deadline is late only if a clock moves.
LateInv ==
  \A i \in DOMAIN toClient : toClient[i].type = "callback" /\ toClient[i].late => Drifts

FailInv == OnlyParentsDisagree /\ PatientSessionsLast

IInv == TypeInv /\ CountInv /\ CallerInv /\ OrderInv /\ AnswerInv /\ ExpectInv
        /\ PermitInv /\ ActiveInv /\ ResponseInv /\ PatientInv /\ LateInv
        /\ FailInv

----------------------------------------------------------------------------
(* Sequences and counts *)

\* A frame appended to a queue comes last.
LEMMA AppendLast ==
  ASSUME NEW S, NEW s \in Seq(S), NEW e \in S
  PROVE  /\ Append(s, e) \in Seq(S) /\ Len(s) \in Nat
         /\ DOMAIN s = 1 .. Len(s) /\ DOMAIN Append(s, e) = 1 .. Len(s) + 1
         /\ \A i \in 1 .. Len(s) : Append(s, e)[i] = s[i]
         /\ Append(s, e)[Len(s) + 1] = e
  OBVIOUS

\* A frame is taken from the front of a queue.
LEMMA TailRest ==
  ASSUME NEW S, NEW s \in Seq(S), s # <<>>
  PROVE  /\ Tail(s) \in Seq(S) /\ Len(s) \in Nat \ {0}
         /\ Head(s) = s[1] /\ Head(s) \in S
         /\ DOMAIN s = 1 .. Len(s) /\ DOMAIN Tail(s) = 1 .. Len(s) - 1
         /\ \A i \in 1 .. Len(s) - 1 : Tail(s)[i] = s[i + 1]
<1>1. Len(s) \in Nat \ {0} /\ Tail(s) \in Seq(S)
  BY EmptySeq, HeadTailProperties
<1> QED BY <1>1, HeadTailProperties

\* Sets of callers and sets of IDs are finite.
LEMMA Finite ==
  /\ \A S : S \subseteq Callers => IsFiniteSet(S) /\ Cardinality(S) \in Nat
                                   /\ Cardinality(S) <= Cardinality(Callers)
  /\ \A S : S \subseteq CallIds => IsFiniteSet(S) /\ Cardinality(S) \in Nat
  /\ Cardinality(Callers) \in Nat
<1>1. IsFiniteSet(Callers) /\ Cardinality(Callers) \in Nat
  BY CallbackAssumption, FS_CardinalityType
<1>2. IsFiniteSet(CallIds)
  BY <1>1, FS_Interval DEF CallIds
<1> QED BY <1>1, <1>2, FS_Subset, FS_CardinalityType

\* One element more or less.
LEMMA OneMore ==
  ASSUME NEW S, IsFiniteSet(S), NEW x
  PROVE  /\ Cardinality(S) \in Nat
         /\ Cardinality(S \cup {x}) <= Cardinality(S) + 1
         /\ x \notin S => Cardinality(S \cup {x}) = Cardinality(S) + 1
         /\ Cardinality(S \ {x}) <= Cardinality(S)
         /\ x \in S => Cardinality(S \ {x}) = Cardinality(S) - 1 /\ Cardinality(S) >= 1
<1>1. Cardinality(S) \in Nat /\ Cardinality(S \ {x}) \in Nat
  BY FS_CardinalityType, FS_RemoveElement
<1>2. Cardinality(S \cup {x}) = IF x \in S THEN Cardinality(S) ELSE Cardinality(S) + 1
  BY FS_AddElement
<1>3. Cardinality(S \ {x}) = IF x \in S THEN Cardinality(S) - 1 ELSE Cardinality(S)
  BY FS_RemoveElement
<1> QED BY <1>1, <1>2, <1>3

\* While a Peer::call has no ID yet, there is one for it.
LEMMA IdLeft ==
  ASSUME CountInv, NEW k \in Callers, caller[k] = "permit"
  PROVE  nextId \in CallIds
<1>1. Started \cup {k} \subseteq Callers /\ k \notin Started
  BY DEF Started
<1>2. Cardinality(Started) + 1 <= Cardinality(Callers) /\ Cardinality(Started) \in Nat
  BY <1>1, Finite, OneMore
<1> QED BY <1>2, Finite DEF CountInv, CallIds

----------------------------------------------------------------------------
(* One lemma for each part of the invariant *)

\* Only Peer::call moves its own state.
LEMMA PeerVars ==
  ASSUME [Next]_vars, \A k \in Callers : ~PeerCall(k)
  PROVE  UNCHANGED <<caller, parent, callId, nextId, order>>
<1> USE DEF serverVars, clientVars
<1>1. \A p \in Parents : Expires(p) \/ Responds(p) \/ ClientCancels(p) \/ ClientAbandons(p)
        => UNCHANGED <<caller, parent, callId, nextId, order>>
  BY DEF Expires, Responds, ClientCancels, ClientAbandons
<1>2. ServerReads \/ Reader => UNCHANGED <<caller, parent, callId, nextId, order>>
  BY DEF ServerReads, Reader, ReadsCallback, ReadsResponse
<1>3. \A id \in CallIds : Answering(id) \/ CallbackPanics(id)
        => UNCHANGED <<caller, parent, callId, nextId, order>>
  BY DEF Answering, CallbackEnds, CallbackAnswers, CallbackPanics
<1>4. Quiet \/ UNCHANGED vars => UNCHANGED <<caller, parent, callId, nextId, order>>
  BY DEF Quiet, vars
<1> QED BY <1>1, <1>2, <1>3, <1>4 DEF Next, Step

\* The application's habits do not change.
LEMMA SameHabits == [Next]_vars => UNCHANGED habits
  BY DEF Next, vars

\* No step takes a variable out of its domain or sends a malformed frame.
LEMMA TypeStep == ASSUME IInv, [Next]_vars PROVE TypeInv'
<1>0. TypeInv /\ CountInv /\ CallerInv /\ ActiveInv
  BY DEF IInv
<1>h. habits' \subseteq Habits
  BY <1>0, SameHabits DEF TypeInv, TypeOK
<1> USE <1>0, <1>h DEF TypeInv, TypeOK, vars, serverVars, clientVars
<1>1. ASSUME NEW k \in Callers, CallBegins(k) PROVE TypeInv'
  BY <1>1 DEF CallBegins, Goto, Holding
<1>2. ASSUME NEW k \in Callers, CallOrders(k) PROVE TypeInv'
  <2>1. nextId \in CallIds
    BY <1>2, IdLeft DEF CallOrders
  <2> QED BY <1>2, <2>1 DEF CallOrders, Goto, Holding
<1>3. ASSUME NEW k \in Callers, CallTooLarge(k) \/ CallChecks(k) PROVE TypeInv'
  BY <1>3 DEF CallTooLarge, CallChecks, Goto, Holding
<1>4. ASSUME NEW k \in Callers, CallSends(k) PROVE TypeInv'
  <2>1. \A late \in DerivedLate : Callback(callId[k], parent[k], late) \in ClientFrames
    <3>1. callId[k] \in CallIds /\ parent[k] \in Parents
      BY <1>4 DEF CallSends, CallerInv, CallerOk, Unsent
    <3> QED BY <3>1 DEF Callback, ClientFrames, DerivedLate
  <2>2. toClient' \in Seq(ClientFrames)
    <3>1. \/ toClient' = toClient
          \/ \E late \in DerivedLate :
               toClient' = Append(toClient, Callback(callId[k], parent[k], late))
      BY <1>4 DEF CallSends
    <3>2. toClient \in Seq(ClientFrames)
      OBVIOUS
    <3> HIDE <1>0 DEF TypeInv, TypeOK
    <3>3. \A f \in ClientFrames : Append(toClient, f) \in Seq(ClientFrames)
      BY <3>2, AppendLast
    <3> QED BY <2>1, <3>1, <3>2, <3>3
  <2> QED BY <1>4, <2>2 DEF CallSends, Goto, Holding
<1>5. ASSUME NEW k \in Callers, CallWithdraws(k) \/ CallReturns(k) PROVE TypeInv'
  BY <1>5 DEF CallWithdraws, CallReturns, Goto
<1>6. ASSUME NEW k \in Callers, CallAbandons(k) PROVE TypeInv'
  BY <1>6 DEF CallAbandons, Goto
<1>7. ASSUME NEW p \in Parents, Expires(p) PROVE TypeInv'
  BY <1>7 DEF Expires
<1>8. ASSUME NEW p \in Parents, Responds(p) PROVE TypeInv'
  <2>1. toClient' \in Seq(ClientFrames)
    BY <1>8, AppendLast DEF Responds, Response, ClientFrames
  <2> QED BY <1>8, <2>1 DEF Responds
<1>9. ASSUME NEW p \in Parents, ClientCancels(p) \/ ClientAbandons(p) PROVE TypeInv'
  <2>1. toServer' \in Seq(ServerFrames)
    <3>1. CancelFrame(p) \in ServerFrames
      BY DEF CancelFrame, ServerFrames
    <3>2. toServer' \in {toServer, Append(toServer, CancelFrame(p))}
      BY <1>9 DEF ClientCancels, ClientAbandons
    <3>3. toServer \in Seq(ServerFrames)
      OBVIOUS
    <3> HIDE <1>0 DEF TypeInv, TypeOK
    <3>4. Append(toServer, CancelFrame(p)) \in Seq(ServerFrames)
      BY <3>1, <3>3, AppendLast
    <3> QED BY <3>2, <3>3, <3>4
  <2> QED BY <1>9, <2>1 DEF ClientCancels, ClientAbandons
<1>10. CASE ServerReads
  <2>1. Head(toServer) \in ServerFrames /\ toServer' \in Seq(ServerFrames)
    BY <1>10, TailRest DEF ServerReads
  <2>2. stopped' \subseteq Parents
    BY <1>10, <2>1 DEF ServerReads, ServerFrames
  <2> QED BY <1>10, <2>1, <2>2 DEF ServerReads, Reasons
<1>11. CASE ReadsCallback
  <2> DEFINE f == Head(toClient)
  <2>1. f \in ClientFrames /\ toClient' \in Seq(ClientFrames) /\ f.type = "callback"
    BY <1>11, TailRest DEF ReadsCallback
  <2>2. f.id \in CallIds
    BY <2>1 DEF ClientFrames
  <2>3. failed' \in Reasons
    BY <1>11 DEF ReadsCallback, Refusal, Reasons
  <2>4. /\ lastSeen' \in {lastSeen, f.id} /\ active' \in {active, active + 1}
        /\ callback' \in {callback, [callback EXCEPT ![f.id] = "running"]}
        /\ UNCHANGED <<serverVars, waiting, givenUp, ended, toServer>>
    BY <1>11 DEF ReadsCallback
  <2> HIDE <1>11 DEF f
  <2>5. /\ lastSeen' \in CallIds \cup {0} /\ active' \in Nat
        /\ callback' \in [CallIds -> {"none", "running", "answering", "answered", "panicked"}]
    BY <2>2, <2>4
  <2> QED BY <2>1, <2>3, <2>4, <2>5 DEF serverVars
<1>12. CASE ReadsResponse
  <2>1. toClient' \in Seq(ClientFrames) /\ Head(toClient).parent \in Parents
    BY <1>12, TailRest DEF ReadsResponse, ClientFrames
  <2> QED BY <1>12, <2>1 DEF ReadsResponse, Reasons
<1>13. ASSUME NEW id \in CallIds, CallbackEnds(id) PROVE TypeInv'
  <2>1. active - 1 \in Nat
    <3>1. id \in Running /\ Running \subseteq CallIds /\ active = Cardinality(Running)
      BY <1>13 DEF CallbackEnds, ActiveInv, Running
    <3>2. Cardinality(Running) \in Nat /\ Cardinality(Running) >= 1
      BY <3>1, Finite, OneMore
    <3> QED BY <3>1, <3>2
  <2> QED BY <1>13, <2>1 DEF CallbackEnds
<1>14. ASSUME NEW id \in CallIds, CallbackAnswers(id) PROVE TypeInv'
  <2>1. toServer' \in Seq(ServerFrames)
    BY <1>14, AppendLast DEF CallbackAnswers, Answer, ServerFrames
  <2> QED BY <1>14, <2>1 DEF CallbackAnswers
<1>15. ASSUME NEW id \in CallIds, CallbackPanics(id) PROVE TypeInv'
  BY <1>15 DEF CallbackPanics
<1>16. CASE Quiet \/ UNCHANGED vars
  BY <1>16 DEF Quiet
<1> QED BY <1>1, <1>2, <1>3, <1>4, <1>5, <1>6, <1>7, <1>8, <1>9, <1>10, <1>11, <1>12,
           <1>13, <1>14, <1>15, <1>16 DEF Next, Step, PeerCall, Reader, Answering

\* A Peer::call takes at most one ID.
LEMMA CountStep == ASSUME IInv, [Next]_vars PROVE CountInv'
<1>0. TypeOK /\ CountInv
  BY DEF IInv, TypeInv
<1>1. CASE \A k \in Callers : ~PeerCall(k)
  BY <1>0, <1>1, PeerVars DEF CountInv, Started
<1>2. ASSUME NEW k \in Callers, PeerCall(k) PROVE CountInv'
  <2>1. /\ caller \in [Callers -> Holding \cup {"idle", "done"}]
        /\ \E to : caller' = [caller EXCEPT ![k] = to]
                   /\ (caller[k] \notin {"idle", "permit"} => to \notin {"idle", "permit"})
    BY <1>0, <1>2 DEF TypeOK, PeerCall, CallBegins, CallOrders, CallTooLarge, CallChecks,
       CallSends, CallWithdraws, CallAbandons, CallReturns, Goto
  <2>2. Started \subseteq Started'
    BY <2>1 DEF Started
  <2>3. /\ Started' \subseteq Callers /\ Started \subseteq Callers /\ IsFiniteSet(Started')
        /\ Cardinality(Started) \in Nat /\ Cardinality(Started') \in Nat
    BY Finite DEF Started
  <2>4. Cardinality(Started) <= Cardinality(Started')
    BY <2>2, <2>3, FS_Subset
  <2>5. CASE CallOrders(k) \/ CallTooLarge(k)
    <3>1. nextId' = nextId + 1 /\ k \notin Started /\ Started' = Started \cup {k}
      BY <2>1, <2>5, <1>0 DEF CallOrders, CallTooLarge, Goto, Started
    <3>2. Cardinality(Started') = Cardinality(Started) + 1
      BY <3>1, <2>3, Finite, OneMore
    <3> QED BY <1>0, <2>3, <3>1, <3>2 DEF CountInv
  <2>6. CASE nextId' = nextId
    BY <1>0, <2>3, <2>4, <2>6 DEF CountInv
  <2> QED
    BY <1>2, <2>5, <2>6 DEF PeerCall, CallBegins, CallChecks, CallSends, CallWithdraws,
       CallAbandons, CallReturns
<1> QED BY <1>1, <1>2

\* IDs stay apart and only the holder of the order lock has one to send.
LEMMA CallerStep == ASSUME IInv, [Next]_vars PROVE CallerInv'
<1>0. TypeOK /\ CallerInv /\ CountInv /\ NoOne \notin Callers
  BY CallbackAssumption DEF IInv, TypeInv
<1>i. nextId \in Nat /\ \A j \in Callers : callId[j] \in Nat
  <2>1. CallIds \cup {0} \subseteq Nat
    BY DEF CallIds
  <2> QED BY <1>0, <2>1 DEF TypeOK
<1>1. CASE \A k \in Callers : ~PeerCall(k)
  BY <1>0, <1>1, PeerVars DEF CallerInv, CallerOk, Unsent
<1> USE <1>0, <1>i DEF TypeOK, Unsent, Goto
<1>2. ASSUME NEW k \in Callers, CallBegins(k) PROVE CallerInv'
  BY <1>2 DEF CallBegins, CallerInv, CallerOk
<1>3. ASSUME NEW k \in Callers, CallOrders(k) PROVE CallerInv'
  <2>1. nextId \in CallIds /\ nextId # 0
    BY <1>3, IdLeft DEF CallOrders, CallIds
  <2>2. /\ caller' = [caller EXCEPT ![k] = "sending"] /\ callId' = [callId EXCEPT ![k] = nextId]
        /\ parent' = parent /\ order' = k /\ order = NoOne /\ nextId' = nextId + 1
        /\ caller[k] = "permit"
    BY <1>3 DEF CallOrders
  <2>3. \A j \in Callers : callId[j] < nextId /\ (j # k => caller[j] \notin Unsent)
    BY <2>2 DEF CallerInv, CallerOk
  <2>4. SUFFICES ASSUME NEW j \in Callers PROVE CallerOk(j)'
    BY DEF CallerInv, CallerOk
  <2>5. callId'[j] < nextId' /\ (order' = j <=> caller'[j] \in Unsent)
    <3>1. nextId \in Nat /\ callId'[j] \in {callId[j], nextId} /\ callId[j] \in Nat
      BY <2>2
    <3>2. callId'[j] < nextId'
      <4> HIDE <1>0, <1>i DEF TypeOK
      <4> QED BY <2>2, <2>3, <3>1
    <3>3. order' = j <=> caller'[j] \in Unsent
      BY <2>2, <2>3
    <3> QED BY <3>2, <3>3
  <2>6. \A i \in Callers : callId'[i] = callId'[j] /\ callId'[j] # 0 => i = j
    BY <2>2, <2>3 DEF CallerInv, CallerOk
  <2>7. /\ caller'[j] # "idle" => parent'[j] \in Parents
        /\ caller'[j] \in {"idle", "permit"} => callId'[j] = 0
        /\ caller'[j] \in Unsent \cup {"queued"} => callId'[j] # 0
    BY <2>1, <2>2 DEF CallerInv, CallerOk
  <2> QED BY <2>5, <2>6, <2>7 DEF CallerOk
<1>4. ASSUME NEW k \in Callers, CallTooLarge(k) PROVE CallerInv'
  <2>1. /\ caller' = [caller EXCEPT ![k] = "done"] /\ nextId' = nextId + 1
        /\ UNCHANGED <<callId, parent, order>> /\ order = NoOne /\ caller[k] = "permit"
    BY <1>4 DEF CallTooLarge
  <2>2. SUFFICES ASSUME NEW j \in Callers PROVE CallerOk(j)'
    BY DEF CallerInv
  <2>3. CallerOk(j) /\ CallerOk(k)
    BY DEF CallerInv
  <2>4. callId'[j] < nextId'
    <3>1. callId[j] < nextId /\ callId[j] \in Nat /\ nextId \in Nat
      BY <2>3 DEF CallerOk
    <3> HIDE <1>0, <1>i DEF TypeOK
    <3> QED BY <2>1, <3>1
  <2>5. order' = j <=> caller'[j] \in Unsent
    BY <2>1, <2>3 DEF CallerOk
  <2> QED BY <2>1, <2>3, <2>4, <2>5 DEF CallerOk
<1>5. ASSUME NEW k \in Callers, CallChecks(k) PROVE CallerInv'
  BY <1>5 DEF CallChecks, CallerInv, CallerOk
<1>6. ASSUME NEW k \in Callers, CallSends(k) PROVE CallerInv'
  <2>1. CASE Len(toClient) < QueueCap
    BY <1>6, <2>1 DEF CallSends, CallerInv, CallerOk
  <2>2. CASE ~(Len(toClient) < QueueCap)
    BY <1>6, <2>2 DEF CallSends, CallerInv, CallerOk
  <2> QED BY <2>1, <2>2
<1>7. ASSUME NEW k \in Callers, CallWithdraws(k) PROVE CallerInv'
  BY <1>7 DEF CallWithdraws, CallerInv, CallerOk
<1>8. ASSUME NEW k \in Callers, CallAbandons(k) \/ CallReturns(k) PROVE CallerInv'
  BY <1>8 DEF CallAbandons, CallReturns, CallerInv, CallerOk
<1> QED BY <1>1, <1>2, <1>3, <1>4, <1>5, <1>6, <1>7, <1>8 DEF PeerCall

\* The frames of both directions, at their positions, and the numbers in them.
LEMMA FrameFacts ==
  ASSUME TypeInv
  PROVE  /\ DOMAIN toClient = 1 .. Len(toClient) /\ Len(toClient) \in Nat
         /\ DOMAIN toServer = 1 .. Len(toServer) /\ Len(toServer) \in Nat
         /\ \A i \in 1 .. Len(toClient) :
              /\ toClient[i].type \in {"callback", "response"}
              /\ toClient[i].parent \in Parents
              /\ toClient[i].type = "callback" => toClient[i].id \in CallIds
         /\ \A i \in 1 .. Len(toServer) :
              \/ toServer[i].type = "answer" /\ toServer[i].id \in CallIds
              \/ toServer[i].type = "cancel" /\ toServer[i].id = 0
         /\ CallIds \subseteq Nat /\ 0 \notin CallIds
         /\ nextId \in Nat /\ lastSeen \in Nat /\ \A k \in Callers : callId[k] \in Nat
<1>1. CallIds \subseteq Nat /\ 0 \notin CallIds /\ CallIds \cup {0} \subseteq Nat
  BY DEF CallIds
<1>2. nextId \in Nat /\ lastSeen \in Nat /\ \A k \in Callers : callId[k] \in Nat
  BY <1>1 DEF TypeInv, TypeOK
<1>3. /\ DOMAIN toClient = 1 .. Len(toClient) /\ Len(toClient) \in Nat
      /\ \A i \in 1 .. Len(toClient) : toClient[i] \in ClientFrames
  BY DEF TypeInv
<1>4. /\ DOMAIN toServer = 1 .. Len(toServer) /\ Len(toServer) \in Nat
      /\ \A i \in 1 .. Len(toServer) : toServer[i] \in ServerFrames
  BY DEF TypeInv
<1>5. \A f \in ClientFrames : /\ f.type \in {"callback", "response"} /\ f.parent \in Parents
                              /\ f.type = "callback" => f.id \in CallIds
  BY DEF ClientFrames
<1>6. \A f \in ServerFrames : \/ f.type = "answer" /\ f.id \in CallIds
                              \/ f.type = "cancel" /\ f.id = 0
  BY DEF ServerFrames
<1> QED BY <1>1, <1>2, <1>3, <1>4, <1>5, <1>6

\* The steps that change what the client has read and what it will read.
LEMMA ClientMoves ==
  ASSUME TypeInv, [Next]_vars
  PROVE  \/ \E k \in Callers : CallSends(k) /\ Len(toClient) < QueueCap
         \/ \E p \in Parents : Responds(p)
         \/ ReadsCallback
         \/ ReadsResponse
         \/ /\ UNCHANGED <<toClient, lastSeen>>
            /\ \A id \in CallIds : callback'[id] = "none" <=> callback[id] = "none"
<1> USE DEF serverVars, clientVars
<1>1. ASSUME NEW k \in Callers, PeerCall(k), ~(CallSends(k) /\ Len(toClient) < QueueCap)
      PROVE  UNCHANGED <<toClient, lastSeen, callback>>
  BY <1>1 DEF PeerCall, CallBegins, CallOrders, CallTooLarge, CallChecks, CallSends,
     CallWithdraws, CallAbandons, CallReturns
<1>2. ASSUME NEW p \in Parents, Expires(p) \/ ClientCancels(p) \/ ClientAbandons(p)
      PROVE  UNCHANGED <<toClient, lastSeen, callback>>
  BY <1>2 DEF Expires, ClientCancels, ClientAbandons
<1>3. ServerReads => UNCHANGED <<toClient, lastSeen, callback>>
  BY DEF ServerReads
<1>4. ASSUME NEW i \in CallIds, Answering(i) \/ CallbackPanics(i)
      PROVE  /\ UNCHANGED <<toClient, lastSeen>>
             /\ \A id \in CallIds : callback'[id] = "none" <=> callback[id] = "none"
  BY <1>4 DEF Answering, CallbackEnds, CallbackAnswers, CallbackPanics, TypeInv, TypeOK
<1>5. Quiet \/ UNCHANGED vars => UNCHANGED <<toClient, lastSeen, callback>>
  BY DEF Quiet, vars
<1> QED BY <1>1, <1>2, <1>3, <1>4, <1>5 DEF Next, Step, Reader

\* What a callback does to the queue when it is sent.
LEMMA SentCallback ==
  ASSUME TypeInv, CallerInv, NEW k \in Callers, CallSends(k), Len(toClient) < QueueCap
  PROVE  /\ Len(toClient') = Len(toClient) + 1
         /\ DOMAIN toClient' = 1 .. Len(toClient) + 1
         /\ \A i \in 1 .. Len(toClient) : toClient'[i] = toClient[i]
         /\ toClient'[Len(toClient) + 1].type = "callback"
         /\ toClient'[Len(toClient) + 1].id = callId[k]
         /\ toClient'[Len(toClient) + 1].parent = parent[k]
         /\ toClient'[Len(toClient) + 1].late \in DerivedLate
         /\ callId[k] \in CallIds /\ parent[k] \in Parents
         /\ caller[k] = "checked" /\ order = k /\ order' = NoOne
         /\ caller' = [caller EXCEPT ![k] = "queued"]
         /\ UNCHANGED <<answered, stopped, parent, callId, nextId, pending, abandoned,
                        clientVars, toServer, failed>>
<1>1. /\ caller[k] = "checked"
      /\ \E late \in DerivedLate :
           toClient' = Append(toClient, Callback(callId[k], parent[k], late))
      /\ order' = (IF order = k THEN NoOne ELSE order)
      /\ caller' = [caller EXCEPT ![k] = "queued"]
      /\ UNCHANGED <<answered, stopped, parent, callId, nextId, pending, abandoned,
                     clientVars, toServer, failed>>
  BY DEF CallSends, Goto
<1>2. callId[k] \in CallIds /\ parent[k] \in Parents /\ order = k
  BY <1>1 DEF CallerInv, CallerOk, Unsent, TypeInv, TypeOK
<1>3. PICK late \in DerivedLate :
        toClient' = Append(toClient, Callback(callId[k], parent[k], late))
  BY <1>1
<1>4. Callback(callId[k], parent[k], late) \in ClientFrames
  BY <1>2 DEF Callback, ClientFrames, DerivedLate
<1>5. toClient \in Seq(ClientFrames)
  BY DEF TypeInv
<1>6. /\ Len(toClient') = Len(toClient) + 1
      /\ DOMAIN toClient' = 1 .. Len(toClient) + 1
      /\ \A i \in 1 .. Len(toClient) : toClient'[i] = toClient[i]
      /\ toClient'[Len(toClient) + 1] = Callback(callId[k], parent[k], late)
  BY <1>3, <1>4, <1>5, AppendLast
<1>7. /\ toClient'[Len(toClient) + 1].type = "callback"
      /\ toClient'[Len(toClient) + 1].id = callId[k]
      /\ toClient'[Len(toClient) + 1].parent = parent[k]
      /\ toClient'[Len(toClient) + 1].late = late
  BY <1>6 DEF Callback
<1> QED BY <1>1, <1>2, <1>6, <1>7

\* The same for a response.
LEMMA ResponseSent ==
  ASSUME TypeInv, NEW p \in Parents, Responds(p)
  PROVE  /\ Len(toClient') = Len(toClient) + 1
         /\ DOMAIN toClient' = 1 .. Len(toClient) + 1
         /\ \A i \in 1 .. Len(toClient) : toClient'[i] = toClient[i]
         /\ toClient'[Len(toClient) + 1] = Response(p)
         /\ p \notin answered /\ answered' = answered \cup {p}
         /\ UNCHANGED <<stopped, caller, parent, callId, nextId, order, pending, abandoned,
                        clientVars, toServer, failed>>
<1>1. Response(p) \in ClientFrames /\ toClient \in Seq(ClientFrames)
  BY DEF Response, ClientFrames, TypeInv
<1>2. toClient' = Append(toClient, Response(p))
  BY DEF Responds
<1>3. /\ Len(toClient') = Len(toClient) + 1
      /\ DOMAIN toClient' = 1 .. Len(toClient) + 1
      /\ \A i \in 1 .. Len(toClient) : toClient'[i] = toClient[i]
      /\ toClient'[Len(toClient) + 1] = Response(p)
  BY <1>1, <1>2, AppendLast
<1> QED BY <1>3 DEF Responds

\* And when the client reads a frame.
LEMMA ClientReads ==
  ASSUME TypeInv, Reader
  PROVE  /\ Len(toClient) \in Nat \ {0} /\ Head(toClient) = toClient[1]
         /\ DOMAIN toClient' = 1 .. Len(toClient) - 1
         /\ \A i \in 1 .. Len(toClient) - 1 : toClient'[i] = toClient[i + 1]
         /\ UNCHANGED <<serverVars, toServer>> /\ failed = "no"
<1>1. toClient \in Seq(ClientFrames) /\ toClient # <<>> /\ toClient' = Tail(toClient)
  BY DEF Reader, ReadsCallback, ReadsResponse, TypeInv
<1>2. /\ Len(toClient) \in Nat \ {0} /\ Head(toClient) = toClient[1]
      /\ DOMAIN toClient' = 1 .. Len(toClient) - 1
      /\ \A i \in 1 .. Len(toClient) - 1 : toClient'[i] = toClient[i + 1]
  BY <1>1, TailRest
<1> QED BY <1>2 DEF Reader, ReadsCallback, ReadsResponse

\* The horizon never moves back.
LEMMA HorizonMoves ==
  ASSUME TypeInv, CallerInv, [Next]_vars
  PROVE  Frontier \in Nat /\ Frontier' \in Nat /\ Frontier <= Frontier'
<1>1. /\ nextId \in Nat /\ NoOne \notin Callers /\ order \in Callers \cup {NoOne}
      /\ \A k \in Callers : callId[k] \in Nat /\ callId[k] < nextId
      /\ \A k \in Callers : order = k <=> caller[k] \in Unsent
      /\ callId \in [Callers -> CallIds \cup {0}]
  BY FrameFacts, CallbackAssumption DEF CallerInv, CallerOk, TypeInv, TypeOK
<1>2. Frontier \in Nat
  BY <1>1 DEF Frontier
<1>3. CASE UNCHANGED <<callId, nextId, order>>
  BY <1>2, <1>3 DEF Frontier
<1>4. ASSUME NEW k \in Callers, CallOrders(k) PROVE Frontier' = Frontier
  BY <1>1, <1>4 DEF CallOrders, Frontier
<1>5. ASSUME NEW k \in Callers, CallTooLarge(k)
      PROVE  Frontier' \in Nat /\ Frontier <= Frontier'
  BY <1>1, <1>5 DEF CallTooLarge, Frontier
<1>6. ASSUME NEW k \in Callers, CallSends(k), Len(toClient) < QueueCap
      PROVE  Frontier' \in Nat /\ Frontier <= Frontier'
  BY <1>1, <1>6 DEF CallSends, Frontier, Unsent
<1>7. ASSUME NEW k \in Callers, CallWithdraws(k)
      PROVE  Frontier' \in Nat /\ Frontier <= Frontier'
  BY <1>1, <1>7 DEF CallWithdraws, Frontier
<1>8. ASSUME NEW k \in Callers, \/ CallSends(k) /\ ~(Len(toClient) < QueueCap)
                                \/ CallBegins(k) \/ CallChecks(k) \/ CallAbandons(k)
                                \/ CallReturns(k)
      PROVE  UNCHANGED <<callId, nextId, order>>
  BY <1>8 DEF CallSends, CallBegins, CallChecks, CallAbandons, CallReturns
<1> QED BY <1>2, <1>3, <1>4, <1>5, <1>6, <1>7, <1>8, PeerVars DEF PeerCall

\* Callbacks leave the queue, and arrive, in the order of their IDs.
LEMMA OrderStep == ASSUME IInv, [Next]_vars PROVE OrderInv'
<1>0. TypeInv /\ CallerInv /\ OrderInv
  BY DEF IInv
<1>1. Frontier \in Nat /\ Frontier' \in Nat /\ Frontier <= Frontier'
  BY <1>0, HorizonMoves
<1>f. /\ DOMAIN toClient = 1 .. Len(toClient) /\ Len(toClient) \in Nat
      /\ \A i \in 1 .. Len(toClient) :
           toClient[i].type = "callback" => toClient[i].id \in CallIds
      /\ CallIds \subseteq Nat /\ lastSeen \in Nat
  BY <1>0, FrameFacts
<1>o. /\ lastSeen < Frontier
      /\ \A i \in 1 .. Len(toClient) : toClient[i].type = "callback"
           => /\ lastSeen < toClient[i].id /\ toClient[i].id < Frontier
              /\ toClient[i].id \in Nat
      /\ \A i, j \in 1 .. Len(toClient) :
           i < j /\ toClient[i].type = "callback" /\ toClient[j].type = "callback"
           => toClient[i].id < toClient[j].id
      /\ \A id \in CallIds : callback[id] # "none" => id <= lastSeen
  BY <1>0, <1>f DEF OrderInv
<1>2. CASE /\ UNCHANGED <<toClient, lastSeen>>
           /\ \A id \in CallIds : callback'[id] = "none" <=> callback[id] = "none"
  <2>1. lastSeen' < Frontier'
    BY <1>1, <1>2, <1>f, <1>o
  <2>2. \A i \in DOMAIN toClient' : toClient'[i].type = "callback"
          => lastSeen' < toClient'[i].id /\ toClient'[i].id < Frontier'
    BY <1>1, <1>2, <1>f, <1>o
  <2>3. \A id \in CallIds : callback'[id] # "none" => id <= lastSeen'
    BY <1>2, <1>o
  <2> QED BY <1>2, <1>f, <1>o, <2>1, <2>2, <2>3 DEF OrderInv
<1>3. ASSUME NEW k \in Callers, CallSends(k), Len(toClient) < QueueCap PROVE OrderInv'
  <2> DEFINE n == Len(toClient)
  <2>1. /\ DOMAIN toClient' = 1 .. n + 1 /\ \A i \in 1 .. n : toClient'[i] = toClient[i]
        /\ toClient'[n + 1].id = callId[k] /\ toClient'[n + 1].type = "callback"
        /\ UNCHANGED <<lastSeen, callback>> /\ callId[k] \in Nat
    <3>1. /\ DOMAIN toClient' = 1 .. n + 1 /\ \A i \in 1 .. n : toClient'[i] = toClient[i]
          /\ toClient'[n + 1].id = callId[k] /\ toClient'[n + 1].type = "callback"
          /\ callId[k] \in CallIds /\ UNCHANGED clientVars
      BY <1>0, <1>3, SentCallback
    <3>2. callId[k] \in Nat
      BY <1>f, <3>1
    <3>3. UNCHANGED <<lastSeen, callback>>
      BY <3>1 DEF clientVars
    <3> HIDE DEF n
    <3> QED BY <3>1, <3>2, <3>3
  <2>2. Frontier = callId[k] /\ callId[k] < Frontier'
    BY <1>0, <1>3, SentCallback, CallbackAssumption DEF Frontier, CallerInv, CallerOk
  <2>3. n \in Nat /\ n + 1 \in 1 .. n + 1 /\ \A i \in 1 .. n + 1 : i \in 1 .. n \/ i = n + 1
    BY <1>f
  <2>4. \A i \in 1 .. n : toClient[i].type = "callback" => toClient[i].id < callId[k]
    BY <1>o, <2>2
  <2>o. /\ \A i \in 1 .. n : toClient[i].type = "callback"
             => lastSeen < toClient[i].id /\ toClient[i].id \in Nat
        /\ \A i, j \in 1 .. n :
             i < j /\ toClient[i].type = "callback" /\ toClient[j].type = "callback"
             => toClient[i].id < toClient[j].id
    BY <1>o
  <2> HIDE DEF n
  <2>5. \A i \in 1 .. n + 1 : toClient'[i].type = "callback"
          => lastSeen' < toClient'[i].id /\ toClient'[i].id < Frontier'
    BY <1>1, <1>f, <1>o, <2>1, <2>2, <2>3, <2>4, <2>o
  <2>6. \A i, j \in 1 .. n + 1 :
          i < j /\ toClient'[i].type = "callback" /\ toClient'[j].type = "callback"
          => toClient'[i].id < toClient'[j].id
    BY <2>1, <2>3, <2>4, <2>o
  <2> QED BY <1>1, <1>f, <1>o, <2>1, <2>5, <2>6 DEF OrderInv
<1>4. ASSUME NEW p \in Parents, Responds(p) PROVE OrderInv'
  <2> DEFINE n == Len(toClient)
  <2>1. /\ DOMAIN toClient' = 1 .. n + 1 /\ \A i \in 1 .. n : toClient'[i] = toClient[i]
        /\ toClient'[n + 1].type # "callback" /\ UNCHANGED <<lastSeen, callback>>
    <3>1. /\ DOMAIN toClient' = 1 .. n + 1 /\ \A i \in 1 .. n : toClient'[i] = toClient[i]
          /\ toClient'[n + 1] = Response(p) /\ UNCHANGED clientVars
      BY <1>0, <1>4, ResponseSent
    <3> QED BY <3>1 DEF Response, clientVars
  <2>3. n \in Nat /\ \A i \in 1 .. n + 1 : i \in 1 .. n \/ i = n + 1
    BY <1>f
  <2>o. /\ \A i \in 1 .. n : toClient[i].type = "callback"
             => /\ lastSeen < toClient[i].id /\ toClient[i].id < Frontier
                /\ toClient[i].id \in Nat
        /\ \A i, j \in 1 .. n :
             i < j /\ toClient[i].type = "callback" /\ toClient[j].type = "callback"
             => toClient[i].id < toClient[j].id
    BY <1>o
  <2> HIDE DEF n
  <2>5. \A i \in 1 .. n + 1 : toClient'[i].type = "callback"
          => lastSeen' < toClient'[i].id /\ toClient'[i].id < Frontier'
    BY <1>1, <2>1, <2>3, <2>o
  <2>6. \A i, j \in 1 .. n + 1 :
          i < j /\ toClient'[i].type = "callback" /\ toClient'[j].type = "callback"
          => toClient'[i].id < toClient'[j].id
    BY <2>1, <2>3, <2>o
  <2> QED BY <1>1, <1>f, <1>o, <2>1, <2>5, <2>6 DEF OrderInv
<1>5. CASE Reader
  <2> DEFINE n == Len(toClient)
  <2>1. /\ n \in Nat \ {0} /\ Head(toClient) = toClient[1] /\ DOMAIN toClient' = 1 .. n - 1
        /\ \A i \in 1 .. n - 1 : toClient'[i] = toClient[i + 1]
    BY <1>0, <1>5, ClientReads
  <2>2. \/ UNCHANGED <<lastSeen, callback>>
        \/ /\ toClient[1].type = "callback" /\ toClient[1].id \in CallIds
           /\ lastSeen' = toClient[1].id
           /\ callback' = [callback EXCEPT ![toClient[1].id] = "running"]
    BY <1>5, <1>f, <2>1 DEF Reader, ReadsCallback, ReadsResponse
  <2>3. \A i \in 1 .. n - 1 : i \in 1 .. n /\ i + 1 \in 1 .. n /\ 1 < i + 1
    BY <2>1
  <2>o. /\ \A i \in 1 .. n : toClient[i].type = "callback"
             => /\ lastSeen < toClient[i].id /\ toClient[i].id < Frontier
                /\ toClient[i].id \in Nat
        /\ \A i, j \in 1 .. n :
             i < j /\ toClient[i].type = "callback" /\ toClient[j].type = "callback"
             => toClient[i].id < toClient[j].id
        /\ 1 \in 1 .. n
    BY <1>o, <2>1
  <2> HIDE DEF n
  <2>4. lastSeen' < Frontier /\ lastSeen <= lastSeen' /\ lastSeen' \in Nat
    BY <1>1, <1>f, <1>o, <2>2, <2>o
  <2>5. \A i \in 1 .. n - 1 : toClient'[i].type = "callback"
          => lastSeen' < toClient'[i].id /\ toClient'[i].id < Frontier
    BY <2>1, <2>2, <2>3, <2>o
  <2>6. \A i, j \in 1 .. n - 1 :
          i < j /\ toClient'[i].type = "callback" /\ toClient'[j].type = "callback"
          => toClient'[i].id < toClient'[j].id
    <3>1. \A i, j \in 1 .. n - 1 : i < j => i + 1 < j + 1
      BY <2>1
    <3> QED BY <2>1, <2>3, <2>o, <3>1
  <2>7. \A id \in CallIds : callback'[id] # "none" => id <= lastSeen'
    <3>1. callback \in [CallIds -> {"none", "running", "answering", "answered", "panicked"}]
      BY <1>0 DEF TypeInv, TypeOK
    <3> QED BY <1>f, <1>o, <2>2, <2>4, <3>1
  <2>8. \A i \in 1 .. n - 1 : toClient'[i].type = "callback" => toClient'[i].id \in Nat
    BY <2>1, <2>3, <2>o
  <2>9. \A i \in 1 .. n - 1 : toClient'[i].type = "callback"
          => lastSeen' < toClient'[i].id /\ toClient'[i].id < Frontier'
    BY <1>1, <2>5, <2>8
  <2> QED BY <1>1, <2>1, <2>4, <2>6, <2>7, <2>9 DEF OrderInv
<1> QED BY <1>0, <1>2, <1>3, <1>4, <1>5, ClientMoves DEF Reader

\* The steps that change what the endpoint has read and what it will read.
LEMMA ServerMoves ==
  ASSUME TypeInv, [Next]_vars
  PROVE  \/ \E id \in CallIds : CallbackAnswers(id)
         \/ \E p \in Parents : ClientCancels(p) \/ ClientAbandons(p)
         \/ ServerReads
         \/ ReadsCallback
         \/ /\ UNCHANGED toServer
            /\ \A id \in CallIds : /\ callback'[id] = "answered" <=> callback[id] = "answered"
                                   /\ Served(id)' <=> Served(id)
<1> USE DEF serverVars, clientVars, Served
<1>1. ASSUME NEW k \in Callers, PeerCall(k) PROVE UNCHANGED <<toServer, callback>>
  BY <1>1 DEF PeerCall, CallBegins, CallOrders, CallTooLarge, CallChecks, CallSends,
     CallWithdraws, CallAbandons, CallReturns
<1>2. ASSUME NEW p \in Parents, Expires(p) \/ Responds(p)
      PROVE  UNCHANGED <<toServer, callback>>
  BY <1>2 DEF Expires, Responds
<1>3. ReadsResponse => UNCHANGED <<toServer, callback>>
  BY DEF ReadsResponse
<1>4. ASSUME NEW i \in CallIds, CallbackEnds(i) \/ CallbackPanics(i)
      PROVE  /\ UNCHANGED toServer
             /\ \A id \in CallIds : /\ callback'[id] = "answered" <=> callback[id] = "answered"
                                    /\ Served(id)' <=> Served(id)
  BY <1>4 DEF CallbackEnds, CallbackPanics, TypeInv, TypeOK
<1>5. Quiet \/ UNCHANGED vars => UNCHANGED <<toServer, callback>>
  BY DEF Quiet, vars
<1> QED BY <1>1, <1>2, <1>3, <1>4, <1>5 DEF Next, Step, Reader, Answering

\* What an answer does to the queue when it is sent.
LEMMA AnswerSent ==
  ASSUME TypeInv, NEW id \in CallIds, CallbackAnswers(id)
  PROVE  /\ Len(toServer') = Len(toServer) + 1
         /\ DOMAIN toServer' = 1 .. Len(toServer) + 1
         /\ \A i \in 1 .. Len(toServer) : toServer'[i] = toServer[i]
         /\ toServer'[Len(toServer) + 1] = Answer(id)
         /\ callback[id] = "answering"
         /\ callback' = [callback EXCEPT ![id] = "answered"]
         /\ UNCHANGED <<serverVars, toClient, lastSeen, failed>>
<1>1. Answer(id) \in ServerFrames /\ toServer \in Seq(ServerFrames)
  BY DEF Answer, ServerFrames, TypeInv
<1>2. toServer' = Append(toServer, Answer(id))
  BY DEF CallbackAnswers
<1>3. /\ Len(toServer') = Len(toServer) + 1
      /\ DOMAIN toServer' = 1 .. Len(toServer) + 1
      /\ \A i \in 1 .. Len(toServer) : toServer'[i] = toServer[i]
      /\ toServer'[Len(toServer) + 1] = Answer(id)
  BY <1>1, <1>2, AppendLast
<1> QED BY <1>3 DEF CallbackAnswers

\* The client's notifications are not answers.
LEMMA CancelSent ==
  ASSUME TypeInv, NEW p \in Parents, ClientCancels(p) \/ ClientAbandons(p)
  PROVE  /\ \/ UNCHANGED toServer
            \/ /\ DOMAIN toServer' = 1 .. Len(toServer) + 1
               /\ \A i \in 1 .. Len(toServer) : toServer'[i] = toServer[i]
               /\ toServer'[Len(toServer) + 1].type = "cancel"
         /\ UNCHANGED <<serverVars, toClient, lastSeen, callback, active, failed>>
<1>1. CancelFrame(p) \in ServerFrames /\ toServer \in Seq(ServerFrames)
  BY DEF CancelFrame, ServerFrames, TypeInv
<1>2. toServer' \in {toServer, Append(toServer, CancelFrame(p))}
  BY DEF ClientCancels, ClientAbandons
<1>3. CASE toServer' = Append(toServer, CancelFrame(p))
  <2>1. /\ DOMAIN toServer' = 1 .. Len(toServer) + 1
        /\ \A i \in 1 .. Len(toServer) : toServer'[i] = toServer[i]
        /\ toServer'[Len(toServer) + 1] = CancelFrame(p)
    BY <1>1, <1>3, AppendLast
  <2>2. CancelFrame(p).type = "cancel"
    BY DEF CancelFrame
  <2> QED BY <2>1, <2>2 DEF ClientCancels, ClientAbandons
<1> QED BY <1>2, <1>3 DEF ClientCancels, ClientAbandons

\* What the endpoint does when it reads a frame.
LEMMA ServerTakes ==
  ASSUME TypeInv, ServerReads
  PROVE  /\ Len(toServer) \in Nat \ {0}
         /\ DOMAIN toServer' = 1 .. Len(toServer) - 1
         /\ \A i \in 1 .. Len(toServer) - 1 : toServer'[i] = toServer[i + 1]
         /\ pending' = pending \ {toServer[1].id} /\ abandoned' = abandoned \ {toServer[1].id}
         /\ failed' = IF toServer[1].type = "answer" /\ toServer[1].id \notin pending \cup abandoned
                        THEN "answer" ELSE "no"
         /\ failed = "no" /\ stopped \subseteq stopped'
         /\ UNCHANGED <<answered, caller, parent, callId, nextId, order, clientVars, toClient>>
<1>1. toServer \in Seq(ServerFrames) /\ toServer # <<>> /\ toServer' = Tail(toServer)
  BY DEF ServerReads, TypeInv
<1>2. /\ Len(toServer) \in Nat \ {0} /\ Head(toServer) = toServer[1]
      /\ DOMAIN toServer' = 1 .. Len(toServer) - 1
      /\ \A i \in 1 .. Len(toServer) - 1 : toServer'[i] = toServer[i + 1]
  BY <1>1, TailRest
<1> QED BY <1>2 DEF ServerReads

\* The client takes up a callback it has not seen.
LEMMA CallbackRead ==
  ASSUME TypeInv, OrderInv, ReadsCallback
  PROVE  /\ toClient[1].type = "callback" /\ toClient[1].id \in CallIds
         /\ callback[toClient[1].id] = "none"
         /\ \/ /\ failed' = "no" /\ toClient[1].parent \in waiting /\ active < Limit
               /\ active' = active + 1
               /\ callback' = [callback EXCEPT ![toClient[1].id] = "running"]
            \/ /\ failed' # "no" /\ UNCHANGED <<active, callback>>
               /\ \/ failed' = "parent" /\ toClient[1].parent \notin waiting
                  \/ failed' = "deadline" /\ toClient[1].late
                  \/ failed' = "active" /\ active >= Limit
         /\ UNCHANGED <<serverVars, waiting, givenUp, ended, toServer>>
<1>1. /\ Len(toClient) \in Nat \ {0} /\ Head(toClient) = toClient[1]
  BY ClientReads DEF Reader
<1>2. /\ toClient[1].type = "callback"
      /\ failed' = Refusal(toClient[1])
      /\ IF Refusal(toClient[1]) = "no"
           THEN /\ active' = active + 1
                /\ callback' = [callback EXCEPT ![toClient[1].id] = "running"]
           ELSE UNCHANGED <<active, callback>>
      /\ UNCHANGED <<serverVars, waiting, givenUp, ended, toServer>>
  BY <1>1 DEF ReadsCallback
<1>3. 1 \in DOMAIN toClient /\ toClient[1].id \in CallIds /\ lastSeen \in Nat
      /\ toClient[1].id \in Nat
  BY <1>1, <1>2, FrameFacts
<1>4. lastSeen < toClient[1].id
  BY <1>2, <1>3 DEF OrderInv
<1>5. callback[toClient[1].id] = "none"
  BY <1>3, <1>4 DEF OrderInv
<1>6. active \in Nat /\ Limit \in Nat
  BY CallbackAssumption DEF TypeInv, TypeOK
<1>7. Refusal(toClient[1]) = IF toClient[1].parent \notin waiting THEN "parent"
                             ELSE IF toClient[1].late THEN "deadline"
                             ELSE IF active >= Limit THEN "active" ELSE "no"
  BY <1>3, <1>4 DEF Refusal
<1> QED BY <1>2, <1>3, <1>5, <1>6, <1>7

\* An answer is in the queue once, and its task is over.
LEMMA AnswerStep == ASSUME IInv, [Next]_vars PROVE AnswerInv'
<1>0. TypeInv /\ OrderInv /\ AnswerInv
  BY DEF IInv
<1> DEFINE n == Len(toServer)
<1>f. /\ DOMAIN toServer = 1 .. n /\ n \in Nat
      /\ \A i \in 1 .. n : toServer[i].type = "answer" => toServer[i].id \in CallIds
      /\ callback \in [CallIds -> {"none", "running", "answering", "answered", "panicked"}]
  BY <1>0, FrameFacts DEF TypeInv, TypeOK
<1>o. /\ \A i \in 1 .. n, j \in 1 .. n :
           toServer[i].type = "answer" /\ toServer[j].type = "answer"
             /\ toServer[i].id = toServer[j].id => i = j
      /\ \A i \in 1 .. n : toServer[i].type = "answer" => callback[toServer[i].id] = "answered"
  BY <1>0, <1>f DEF AnswerInv
<1>1. ASSUME NEW id \in CallIds, CallbackAnswers(id) PROVE AnswerInv'
  <2>1. /\ DOMAIN toServer' = 1 .. n + 1 /\ \A i \in 1 .. n : toServer'[i] = toServer[i]
        /\ toServer'[n + 1] = Answer(id) /\ callback[id] = "answering"
        /\ callback' = [callback EXCEPT ![id] = "answered"]
    BY <1>0, <1>1, AnswerSent
  <2> HIDE DEF n
  <2>2. toServer'[n + 1].type = "answer" /\ toServer'[n + 1].id = id
    BY <2>1 DEF Answer
  <2>3. \A i \in 1 .. n : toServer[i].type = "answer" => toServer[i].id # id
    BY <1>o, <2>1
  <2>4. \A i \in 1 .. n + 1 : i \in 1 .. n \/ i = n + 1
    BY <1>f
  <2>5. \A i \in 1 .. n + 1, j \in 1 .. n + 1 :
          toServer'[i].type = "answer" /\ toServer'[j].type = "answer"
            /\ toServer'[i].id = toServer'[j].id => i = j
    BY <1>o, <2>1, <2>2, <2>3, <2>4
  <2>6. \A i \in 1 .. n + 1 : toServer'[i].type = "answer"
          => callback'[toServer'[i].id] = "answered"
    BY <1>o, <1>f, <2>1, <2>2, <2>4
  <2> QED BY <2>1, <2>5, <2>6 DEF AnswerInv
<1>2. ASSUME NEW p \in Parents, ClientCancels(p) \/ ClientAbandons(p) PROVE AnswerInv'
  <2>1. callback' = callback
    BY <1>0, <1>2, CancelSent
  <2>2. CASE UNCHANGED toServer
    BY <1>0, <2>1, <2>2 DEF AnswerInv
  <2>3. CASE /\ DOMAIN toServer' = 1 .. n + 1
             /\ \A i \in 1 .. n : toServer'[i] = toServer[i]
             /\ toServer'[n + 1].type = "cancel"
    <3>1. \A i \in 1 .. n + 1 : i \in 1 .. n \/ i = n + 1
      BY <1>f
    <3> HIDE DEF n
    <3> QED BY <1>o, <2>1, <2>3, <3>1 DEF AnswerInv
  <2> QED BY <1>0, <1>2, <2>2, <2>3, CancelSent
<1>3. CASE ServerReads
  <2>1. /\ n \in Nat \ {0} /\ DOMAIN toServer' = 1 .. n - 1
        /\ \A i \in 1 .. n - 1 : toServer'[i] = toServer[i + 1] /\ callback' = callback
    BY <1>0, <1>3, ServerTakes DEF clientVars
  <2>2. \A i \in 1 .. n - 1 : i + 1 \in 1 .. n
    BY <2>1
  <2>3. \A i \in 1 .. n - 1, j \in 1 .. n - 1 : i + 1 = j + 1 => i = j
    OBVIOUS
  <2> HIDE DEF n
  <2> QED BY SMTT(30), <1>o, <2>1, <2>2, <2>3 DEF AnswerInv
<1>4. CASE ReadsCallback
  <2>1. /\ toServer' = toServer
        /\ \A id \in CallIds : callback[id] = "answered" => callback'[id] = "answered"
    BY <1>0, <1>4, <1>f, CallbackRead
  <2> HIDE DEF n
  <2> QED BY <1>f, <1>o, <2>1 DEF AnswerInv
<1>5. CASE /\ UNCHANGED toServer
           /\ \A id \in CallIds : callback'[id] = "answered" <=> callback[id] = "answered"
  <2> HIDE DEF n
  <2> QED BY <1>f, <1>o, <1>5 DEF AnswerInv
<1> QED BY <1>0, <1>1, <1>2, <1>3, <1>4, <1>5, ServerMoves

\* What is under way is below the horizon.
LEMMA FlightsAreBehind ==
  ASSUME TypeInv, CallerInv, OrderInv, AnswerInv, NEW id \in CallIds, InFlight(id)
  PROVE  id < Frontier
<1>0. /\ DOMAIN toClient = 1 .. Len(toClient) /\ DOMAIN toServer = 1 .. Len(toServer)
      /\ CallIds \subseteq Nat /\ lastSeen \in Nat /\ nextId \in Nat
      /\ \A k \in Callers : callId[k] \in Nat
  BY FrameFacts
<1>1. Frontier \in Nat
  BY <1>0 DEF Frontier, TypeInv, TypeOK
<1>2. CASE Asked(id)
  BY <1>2 DEF Asked, IsCallback, OrderInv
<1>3. CASE callback[id] # "none"
  <2>1. id <= lastSeen /\ lastSeen < Frontier
    BY <1>3 DEF OrderInv
  <2> QED BY <1>0, <1>1, <2>1
<1>4. CASE Replied(id)
  BY <1>3, <1>4 DEF Replied, IsAnswer, AnswerInv
<1> QED BY <1>2, <1>3, <1>4 DEF InFlight, Served

\* A callback enters the queue when it is sent and leaves the endpoint's view
\* when its answer is read; nothing else starts or ends it.
LEMMA FlightMoves ==
  ASSUME IInv, [Next]_vars
  PROVE  \/ \E k \in Callers :
              /\ CallSends(k) /\ Len(toClient) < QueueCap
              /\ \A id \in CallIds : InFlight(id)' <=> InFlight(id) \/ id = callId[k]
         \/ /\ ServerReads
            /\ \A id \in CallIds : InFlight(id)' <=> InFlight(id) /\ id # toServer[1].id
         \/ /\ ReadsCallback /\ failed' # "no"
            /\ \A id \in CallIds : InFlight(id)' => InFlight(id)
         \/ /\ ~ServerReads
            /\ ~\E k \in Callers : CallSends(k) /\ Len(toClient) < QueueCap
            /\ \A id \in CallIds : InFlight(id)' <=> InFlight(id)
<1>0. TypeInv /\ CallerInv /\ OrderInv /\ AnswerInv /\ TypeInv'
  BY TypeStep DEF IInv
<1> DEFINE n == Len(toClient)
           m == Len(toServer)
<1>f. /\ DOMAIN toClient = 1 .. n /\ n \in Nat /\ DOMAIN toServer = 1 .. m /\ m \in Nat
      /\ callback \in [CallIds -> {"none", "running", "answering", "answered", "panicked"}]
      /\ CallIds \subseteq Nat /\ 0 \notin CallIds /\ lastSeen \in Nat
      /\ \A i \in 1 .. m : \/ toServer[i].type = "answer" /\ toServer[i].id \in CallIds
                           \/ toServer[i].type = "cancel" /\ toServer[i].id = 0
      /\ \A i \in 1 .. n : toClient[i].type = "callback" => toClient[i].id \in CallIds
  BY <1>0, FrameFacts DEF TypeInv, TypeOK
<1> HIDE DEF n, m
<1>1. ASSUME NEW k \in Callers, CallSends(k), Len(toClient) < QueueCap
      PROVE  \A id \in CallIds : InFlight(id)' <=> InFlight(id) \/ id = callId[k]
  <2>1. /\ DOMAIN toClient' = 1 .. n + 1 /\ \A i \in 1 .. n : toClient'[i] = toClient[i]
        /\ callback' = callback /\ toServer' = toServer
    BY <1>0, <1>1, SentCallback DEF n, clientVars
  <2>2. toClient'[n + 1].type = "callback" /\ toClient'[n + 1].id = callId[k]
    BY <1>0, <1>1, SentCallback DEF n
  <2>3. \A i \in 1 .. n + 1 : i \in 1 .. n \/ i = n + 1
    BY <1>f
  <2>4. \A i \in 1 .. n : i \in 1 .. n + 1
    BY <1>f
  <2>5. n + 1 \in 1 .. n + 1
    BY <1>f
  <2>6. \A id \in CallIds : Asked(id)' <=> Asked(id) \/ id = callId[k]
    BY <1>f, <2>1, <2>2, <2>3, <2>4, <2>5 DEF Asked, IsCallback
  <2>7. \A id \in CallIds : (Served(id)' <=> Served(id)) /\ (Replied(id)' <=> Replied(id))
    BY <2>1 DEF Served, Replied
  <2> QED BY <2>6, <2>7 DEF InFlight
<1>2. ASSUME ServerReads
      PROVE  \A id \in CallIds : InFlight(id)' <=> InFlight(id) /\ id # toServer[1].id
  <2>1. /\ m \in Nat \ {0} /\ DOMAIN toServer' = 1 .. m - 1
        /\ \A i \in 1 .. m - 1 : toServer'[i] = toServer[i + 1]
        /\ callback' = callback /\ toClient' = toClient
    BY <1>0, <1>2, ServerTakes DEF m, clientVars
  <2>2. \A i \in 1 .. m - 1 : i + 1 \in 1 .. m /\ i + 1 # 1
    BY <2>1
  <2>3. \A i \in 1 .. m : i # 1 => i - 1 \in 1 .. m - 1 /\ (i - 1) + 1 = i
    BY <2>1
  <2>4. 1 \in 1 .. m
    BY <2>1
  <2>5. \A i \in 1 .. m, j \in 1 .. m :
          toServer[i].type = "answer" /\ toServer[j].type = "answer"
            /\ toServer[i].id = toServer[j].id => i = j
    BY <1>0, <1>f DEF AnswerInv
  <2>6. \A id \in CallIds : Replied(id)' <=> Replied(id) /\ id # toServer[1].id
    <3> TAKE id \in CallIds
    <3>1. Replied(id)' => Replied(id)
      BY SMTT(30), <1>f, <2>1, <2>2 DEF Replied, IsAnswer
    <3>2. Replied(id)' => id # toServer[1].id
      <4> SUFFICES ASSUME NEW i \in 1 .. m - 1, toServer'[i].type = "answer",
                          toServer'[i].id = id, id = toServer[1].id
                   PROVE  FALSE
        BY <2>1 DEF Replied, IsAnswer
      <4>1. toServer[i + 1].type = "answer" /\ toServer[i + 1].id = toServer[1].id
        BY <2>1
      <4>2. toServer[1].type = "answer"
        BY <1>f, <2>4
      <4> QED BY <2>2, <2>4, <2>5, <4>1, <4>2
    <3>3. ASSUME Replied(id), id # toServer[1].id PROVE Replied(id)'
      <4>1. PICK i \in 1 .. m : toServer[i].type = "answer" /\ toServer[i].id = id
        BY <1>f, <3>3 DEF Replied, IsAnswer
      <4>2. i # 1
        BY <3>3, <4>1
      <4>3. i - 1 \in 1 .. m - 1 /\ toServer'[i - 1] = toServer[i]
        BY <2>1, <2>3, <4>2
      <4> QED BY <2>1, <4>1, <4>3 DEF Replied, IsAnswer
    <3> QED BY <3>1, <3>2, <3>3
  <2>7. \A id \in CallIds : (Asked(id)' <=> Asked(id)) /\ (Served(id)' <=> Served(id))
    BY <2>1 DEF Asked, Served
  <2>8. \A id \in CallIds : id = toServer[1].id => ~Served(id) /\ ~Asked(id)
    <3> SUFFICES ASSUME NEW id \in CallIds, id = toServer[1].id
                 PROVE  ~Served(id) /\ ~Asked(id)
      OBVIOUS
    <3>1. toServer[1].type = "answer"
      BY <1>f, <2>4
    <3>2. callback[id] = "answered"
      BY <1>0, <1>f, <2>4, <3>1 DEF AnswerInv
    <3>3. id <= lastSeen
      BY <1>0, <3>2 DEF OrderInv
    <3>4. ASSUME NEW i \in 1 .. n, toClient[i].type = "callback", toClient[i].id = id
          PROVE  FALSE
      <4>1. lastSeen < id
        BY <1>0, <1>f, <3>4 DEF OrderInv
      <4> QED BY <1>f, <3>3, <4>1
    <3> QED BY <1>f, <3>2, <3>4 DEF Served, Asked, IsCallback
  <2> QED BY <2>6, <2>7, <2>8 DEF InFlight
<1>3. ASSUME ReadsCallback
      PROVE  /\ \A id \in CallIds : InFlight(id)' => InFlight(id)
             /\ failed' = "no" => \A id \in CallIds : InFlight(id) => InFlight(id)'
  <2>0. PICK c \in CallIds : c = toClient[1].id
    BY <1>0, <1>3, CallbackRead
  <2>1. /\ n \in Nat \ {0} /\ DOMAIN toClient' = 1 .. n - 1
        /\ \A i \in 1 .. n - 1 : toClient'[i] = toClient[i + 1]
        /\ toServer' = toServer
    BY <1>0, <1>3, ClientReads DEF n, Reader
  <2>2. /\ toClient[1].type = "callback" /\ c \in CallIds /\ callback[c] = "none"
        /\ \/ failed' = "no" /\ callback' = [callback EXCEPT ![c] = "running"]
           \/ failed' # "no" /\ callback' = callback
    BY <1>0, <1>3, <2>0, CallbackRead
  <2>3. 1 \in 1 .. n /\ \A i \in 1 .. n - 1 : i + 1 \in 1 .. n
    BY <2>1
  <2>4. \A i \in 1 .. n : i # 1 => i - 1 \in 1 .. n - 1 /\ (i - 1) + 1 = i
    BY <2>1
  <2>5. \A id \in CallIds : Asked(id)' => Asked(id)
    BY <1>f, <2>1, <2>3 DEF Asked, IsCallback
  <2>6. ASSUME NEW id \in CallIds, id # c, Asked(id) PROVE Asked(id)'
    <3>1. PICK i \in 1 .. n : toClient[i].type = "callback" /\ toClient[i].id = id
      BY <1>f, <2>6 DEF Asked, IsCallback
    <3>2. i # 1
      BY <2>0, <2>6, <3>1
    <3>3. i - 1 \in 1 .. n - 1 /\ toClient'[i - 1] = toClient[i]
      BY <2>1, <2>4, <3>2
    <3> QED BY <2>1, <3>1, <3>3 DEF Asked, IsCallback
  <2>7. Asked(c)
    BY <1>f, <2>0, <2>2, <2>3 DEF Asked, IsCallback
  <2>8. \A id \in CallIds : Replied(id)' <=> Replied(id)
    BY <2>1 DEF Replied
  <2>9. /\ \A id \in CallIds : id # c => (Served(id)' <=> Served(id))
        /\ failed' = "no" => Served(c)'
        /\ failed' # "no" => (Served(c)' <=> Served(c))
    <3>1. /\ \A id \in CallIds : id # c => callback'[id] = callback[id]
          /\ failed' = "no" => callback'[c] = "running"
          /\ failed' # "no" => callback'[c] = callback[c]
      BY <1>f, <2>2
    <3> QED BY <2>2, <3>1 DEF Served
  <2>10. \A id \in CallIds : id # c => (InFlight(id)' <=> InFlight(id))
    BY <2>5, <2>6, <2>8, <2>9 DEF InFlight
  <2>11. InFlight(c) /\ (failed' = "no" => InFlight(c)')
    BY <2>7, <2>9 DEF InFlight
  <2> QED BY <2>2, <2>10, <2>11
<1>4. ASSUME ReadsResponse PROVE \A id \in CallIds : InFlight(id)' <=> InFlight(id)
  <2>1. /\ n \in Nat \ {0} /\ DOMAIN toClient' = 1 .. n - 1
        /\ \A i \in 1 .. n - 1 : toClient'[i] = toClient[i + 1]
        /\ UNCHANGED <<toServer, callback>> /\ toClient[1].type = "response"
    BY <1>0, <1>4, ClientReads DEF n, Reader, ReadsResponse
  <2>2. \A i \in 1 .. n - 1 : i + 1 \in 1 .. n
    BY <2>1
  <2>3. \A i \in 1 .. n : i # 1 => i - 1 \in 1 .. n - 1 /\ (i - 1) + 1 = i
    BY <2>1
  <2>4. \A id \in CallIds : Asked(id)' => Asked(id)
    BY <1>f, <2>1, <2>2 DEF Asked, IsCallback
  <2>5. ASSUME NEW id \in CallIds, Asked(id) PROVE Asked(id)'
    <3>1. PICK i \in 1 .. n : toClient[i].type = "callback" /\ toClient[i].id = id
      BY <1>f, <2>5 DEF Asked, IsCallback
    <3>2. i # 1
      BY <2>1, <3>1
    <3>3. i - 1 \in 1 .. n - 1 /\ toClient'[i - 1] = toClient[i]
      BY <2>1, <2>3, <3>2
    <3> QED BY <2>1, <3>1, <3>3 DEF Asked, IsCallback
  <2>6. \A id \in CallIds : (Served(id)' <=> Served(id)) /\ (Replied(id)' <=> Replied(id))
    BY <2>1 DEF Served, Replied
  <2> QED BY <2>4, <2>5, <2>6 DEF InFlight
<1>5. ASSUME NEW p \in Parents, Responds(p)
      PROVE  \A id \in CallIds : InFlight(id)' <=> InFlight(id)
  <2>1. /\ DOMAIN toClient' = 1 .. n + 1 /\ \A i \in 1 .. n : toClient'[i] = toClient[i]
        /\ toClient'[n + 1] = Response(p) /\ callback' = callback /\ toServer' = toServer
    BY <1>0, <1>5, ResponseSent DEF n, clientVars
  <2>2. toClient'[n + 1].type = "response"
    BY <2>1 DEF Response
  <2>3. \A i \in 1 .. n + 1 : i \in 1 .. n \/ i = n + 1
    BY <1>f
  <2>4. \A i \in 1 .. n : i \in 1 .. n + 1
    BY <1>f
  <2>5. \A id \in CallIds : Asked(id)' <=> Asked(id)
    BY <1>f, <2>1, <2>2, <2>3, <2>4 DEF Asked, IsCallback
  <2>6. \A id \in CallIds : (Served(id)' <=> Served(id)) /\ (Replied(id)' <=> Replied(id))
    BY <2>1 DEF Served, Replied
  <2> QED BY <2>5, <2>6 DEF InFlight
<1>6. ASSUME NEW c \in CallIds, CallbackAnswers(c)
      PROVE  \A id \in CallIds : InFlight(id)' <=> InFlight(id)
  <2>1. /\ DOMAIN toServer' = 1 .. m + 1 /\ \A i \in 1 .. m : toServer'[i] = toServer[i]
        /\ toServer'[m + 1] = Answer(c) /\ callback[c] = "answering"
        /\ callback' = [callback EXCEPT ![c] = "answered"] /\ toClient' = toClient
    BY <1>0, <1>6, AnswerSent DEF m
  <2>2. toServer'[m + 1].type = "answer" /\ toServer'[m + 1].id = c
    BY <2>1 DEF Answer
  <2>3. \A i \in 1 .. m + 1 : i \in 1 .. m \/ i = m + 1
    BY <1>f
  <2>4. m + 1 \in 1 .. m + 1 /\ \A i \in 1 .. m : i \in 1 .. m + 1
    BY <1>f
  <2>5. \A id \in CallIds : Replied(id)' <=> Replied(id) \/ id = c
    BY <1>f, <2>1, <2>2, <2>3, <2>4 DEF Replied, IsAnswer
  <2>6. \A id \in CallIds : Asked(id)' <=> Asked(id)
    BY <2>1 DEF Asked
  <2>7. Served(c) /\ ~Served(c)' /\ \A id \in CallIds : id # c => (Served(id)' <=> Served(id))
    BY <1>f, <2>1 DEF Served
  <2> QED BY <2>5, <2>6, <2>7 DEF InFlight
<1>7. ASSUME NEW p \in Parents, ClientCancels(p) \/ ClientAbandons(p)
      PROVE  \A id \in CallIds : InFlight(id)' <=> InFlight(id)
  <2>1. callback' = callback /\ toClient' = toClient
    BY <1>0, <1>7, CancelSent
  <2>2. CASE UNCHANGED toServer
    BY <2>1, <2>2 DEF InFlight, Asked, Served, Replied
  <2>3. CASE /\ DOMAIN toServer' = 1 .. m + 1
             /\ \A i \in 1 .. m : toServer'[i] = toServer[i]
             /\ toServer'[m + 1].type = "cancel"
    <3>1. \A i \in 1 .. m + 1 : i \in 1 .. m \/ i = m + 1
      BY <1>f
    <3>2. \A i \in 1 .. m : i \in 1 .. m + 1
      BY <1>f
    <3>3. \A id \in CallIds : Replied(id)' <=> Replied(id)
      BY <1>f, <2>3, <3>1, <3>2 DEF Replied, IsAnswer
    <3> QED BY <2>1, <3>3 DEF InFlight, Asked, Served
  <2> QED BY <1>0, <1>7, <2>2, <2>3, CancelSent DEF m
<1>8. ASSUME UNCHANGED <<toClient, toServer>>, \A id \in CallIds : Served(id)' <=> Served(id)
      PROVE  \A id \in CallIds : InFlight(id)' <=> InFlight(id)
  BY <1>8 DEF InFlight, Asked, Replied
<1> HIDE <1>f
<1>9. CASE ReadsCallback
  <2>1. ~ServerReads /\ ~\E k \in Callers : CallSends(k) /\ Len(toClient) < QueueCap
    <3>1. toServer' = toServer /\ UNCHANGED <<pending, caller>>
      BY <1>9 DEF ReadsCallback, serverVars
    <3>2. ~ServerReads
      BY <1>0, <1>9, <3>1, TailRest DEF ServerReads, TypeInv
    <3>3. ASSUME NEW k \in Callers, CallSends(k), Len(toClient) < QueueCap PROVE FALSE
      BY <1>0, <3>1, <3>3, SentCallback DEF TypeInv, TypeOK
    <3> QED BY <3>2, <3>3
  <2> QED BY <1>3, <1>9, <2>1
<1>10. CASE ~ReadsCallback /\ ~ServerReads
            /\ ~\E k \in Callers : CallSends(k) /\ Len(toClient) < QueueCap
  BY <1>0, <1>4, <1>5, <1>6, <1>7, <1>8, <1>10, ClientMoves, ServerMoves
<1> QED BY <1>1, <1>2, <1>9, <1>10

\* An endpoint that frees no permit early always has room for a marker.
LEMMA RoomForMarkers == ASSUME TypeInv, PermitInv PROVE Cardinality(abandoned) < MaxAbandoned
<1>1. {k \in Callers : caller[k] \in Holding} \subseteq Callers /\ abandoned \subseteq CallIds
  BY DEF TypeInv, TypeOK
<1>2. /\ Cardinality({k \in Callers : caller[k] \in Holding}) \in Nat
      /\ Cardinality(abandoned) \in Nat
  BY <1>1, Finite
<1> QED BY <1>2, CallbackAssumption DEF PermitInv, Permits

\* Whatever becomes of a Peer::call, its answer is expected while it is under
\* way, and a permit kept for an abandoned callback waits for one that is.
LEMMA ExpectStep == ASSUME IInv, [Next]_vars PROVE ExpectInv'
<1>0. /\ TypeInv /\ CallerInv /\ CountInv /\ OrderInv /\ AnswerInv /\ ExpectInv /\ PermitInv
      /\ CallerInv'
  BY CallerStep DEF IInv
<1>f. /\ caller \in [Callers -> Holding \cup {"idle", "done"}]
      /\ callId \in [Callers -> CallIds \cup {0}]
      /\ pending \subseteq CallIds /\ abandoned \subseteq CallIds
      /\ NoOne \notin Callers /\ 0 \notin CallIds
  BY <1>0, FrameFacts, CallbackAssumption DEF TypeInv, TypeOK
<1>c. /\ \A k \in Callers : caller[k] \in {"idle", "permit"} => callId[k] = 0
      /\ \A k \in Callers : order = k <=> caller[k] \in Unsent
      /\ \A k, j \in Callers : callId[j] = callId[k] /\ callId[k] # 0 => j = k
  BY <1>0 DEF CallerInv, CallerOk
<1>e. /\ \A id \in CallIds : InFlight(id) => id \in pending \cup abandoned
      /\ \A id \in pending : \E k \in Callers :
           callId[k] = id /\ caller[k] \in Unsent \cup {"queued"}
      /\ \A k \in Callers : caller[k] \in Unsent => callId[k] \in pending
      /\ \A id \in abandoned : \E k \in Callers : callId[k] = id /\ caller[k] = "done"
      /\ failed = "no" => /\ \A id \in abandoned : InFlight(id)
                          /\ \A k \in Callers, id \in pending :
                               caller[k] = "queued" /\ callId[k] = id => InFlight(id)
  BY <1>0 DEF ExpectInv
<1>u. \A k \in Callers : caller[k] \in Unsent => ~InFlight(callId[k]) /\ callId[k] \in CallIds
  <2> SUFFICES ASSUME NEW k \in Callers, caller[k] \in Unsent
               PROVE  ~InFlight(callId[k]) /\ callId[k] \in CallIds
    OBVIOUS
  <2>1. callId[k] \in CallIds /\ Frontier = callId[k] /\ callId[k] \in Nat
    BY <1>0, <1>e, <1>f, <1>c, FrameFacts DEF Frontier
  <2>2. ~(callId[k] < callId[k])
    BY <2>1
  <2> QED BY <1>0, <2>1, <2>2, FlightsAreBehind
<1>1. ASSUME NEW k \in Callers, CallSends(k), Len(toClient) < QueueCap PROVE ExpectInv'
  <2>1. /\ caller[k] = "checked" /\ caller' = [caller EXCEPT ![k] = "queued"]
        /\ UNCHANGED <<callId, pending, abandoned, failed>>
    BY <1>0, <1>1, SentCallback
  <2>2. \A id \in CallIds : InFlight(id)' <=> InFlight(id) \/ id = callId[k]
    <3>1. ~ServerReads /\ ~ReadsCallback
      <4>1. Len(toClient') = Len(toClient) + 1 /\ Len(toClient) \in Nat /\ toServer' = toServer
        BY <1>0, <1>1, SentCallback, FrameFacts
      <4>2. ServerReads => toClient' = toClient
        BY DEF ServerReads, clientVars
      <4>3. ReadsCallback => caller' = caller
        BY DEF ReadsCallback, serverVars
      <4> QED BY <1>f, <2>1, <4>1, <4>2, <4>3
    <3>2. PICK j \in Callers : /\ CallSends(j) /\ Len(toClient) < QueueCap
                               /\ \A id \in CallIds : InFlight(id)' <=> InFlight(id) \/ id = callId[j]
      BY <1>1, <3>1, FlightMoves
    <3>3. j = k
      BY <1>0, <1>c, <2>1, <3>2, SentCallback DEF Unsent
    <3> QED BY <3>2, <3>3
  <2>3. callId[k] \in pending /\ callId[k] \in CallIds
    BY <1>e, <1>f, <2>1 DEF Unsent
  <2>4. \A j \in Callers : /\ caller'[j] \in Unsent => caller[j] \in Unsent
                           /\ caller[j] \in Unsent \cup {"queued"}
                                => caller'[j] \in Unsent \cup {"queued"}
                           /\ caller[j] = "done" => caller'[j] = "done"
                           /\ caller'[j] = "queued" => caller[j] = "queued" \/ j = k
    BY <1>f, <2>1 DEF Unsent
  <2>5. failed = "no" => \A j \in Callers, id \in pending :
          caller'[j] = "queued" /\ callId[j] = id => InFlight(id)'
    BY <1>e, <1>f, <2>2, <2>3, <2>4
  <2>6. \A id \in CallIds : InFlight(id)' => id \in pending \cup abandoned
    BY <1>e, <2>2, <2>3
  <2>7. \A id \in pending : \E j \in Callers :
          callId[j] = id /\ caller'[j] \in Unsent \cup {"queued"}
    BY <1>e, <2>4
  <2>8. \A id \in abandoned : \E j \in Callers : callId[j] = id /\ caller'[j] = "done"
    BY <1>e, <2>4
  <2>9. failed = "no" => \A id \in abandoned : InFlight(id)'
    BY <1>e, <1>f, <2>2
  <2> QED BY <1>e, <2>1, <2>4, <2>5, <2>6, <2>7, <2>8, <2>9 DEF ExpectInv
<1>2. ASSUME ServerReads, \A id \in CallIds : InFlight(id)' <=> InFlight(id) /\ id # toServer[1].id
      PROVE  ExpectInv'
  <2>1. /\ pending' = pending \ {toServer[1].id} /\ abandoned' = abandoned \ {toServer[1].id}
        /\ failed = "no" /\ UNCHANGED <<caller, callId>>
    BY <1>0, <1>2, ServerTakes
  <2>2. \A k \in Callers : caller[k] \in Unsent => callId[k] # toServer[1].id
    <3> SUFFICES ASSUME NEW k \in Callers, caller[k] \in Unsent, callId[k] = toServer[1].id
                 PROVE  FALSE
      OBVIOUS
    <3>1. DOMAIN toServer = 1 .. Len(toServer) /\ 1 \in 1 .. Len(toServer)
      BY <1>0, <1>2, ServerTakes, FrameFacts
    <3>2. toServer[1].type = "answer"
      BY <1>0, <1>f, <1>u, <3>1, FrameFacts
    <3>3. Replied(callId[k])
      BY <3>1, <3>2 DEF Replied, IsAnswer
    <3> QED BY <1>u, <3>3 DEF InFlight
  <2> QED BY <1>2, <1>e, <1>f, <2>1, <2>2 DEF ExpectInv
<1>3. ASSUME ReadsCallback, failed' # "no", \A id \in CallIds : InFlight(id)' => InFlight(id)
      PROVE  ExpectInv'
  <2>1. UNCHANGED <<caller, callId, pending, abandoned>>
    BY <1>3 DEF ReadsCallback, serverVars
  <2> QED BY <1>3, <1>e, <1>f, <2>1 DEF ExpectInv
<1>s. ASSUME \A id \in CallIds : InFlight(id)' <=> InFlight(id),
             UNCHANGED <<caller, callId, pending, abandoned>>, failed' = "no" => failed = "no"
      PROVE  ExpectInv'
  BY <1>e, <1>f, <1>s DEF ExpectInv
<1>4. ASSUME NEW k \in Callers, CallBegins(k), \A id \in CallIds : InFlight(id)' <=> InFlight(id)
      PROVE  ExpectInv'
  <2>1. /\ caller[k] = "idle" /\ caller' = [caller EXCEPT ![k] = "permit"]
        /\ UNCHANGED <<callId, pending, abandoned, failed>>
    BY <1>4 DEF CallBegins, Goto
  <2>2. \A j \in Callers, w \in Unsent \cup {"queued", "done"} : caller'[j] = w <=> caller[j] = w
    BY <1>f, <2>1 DEF Unsent
  <2> QED BY <1>4, <1>e, <1>f, <2>1, <2>2 DEF ExpectInv
<1>5. ASSUME NEW k \in Callers, CallOrders(k), \A id \in CallIds : InFlight(id)' <=> InFlight(id)
      PROVE  ExpectInv'
  <2>1. /\ caller[k] = "permit" /\ caller' = [caller EXCEPT ![k] = "sending"]
        /\ callId' = [callId EXCEPT ![k] = nextId] /\ pending' = pending \cup {nextId}
        /\ UNCHANGED <<abandoned, failed>>
    BY <1>5 DEF CallOrders, Goto
  <2>2. callId[k] = 0 /\ nextId \in CallIds
    BY <1>0, <1>c, <2>1, IdLeft
  <2>3. \A j \in Callers : j # k => caller'[j] = caller[j] /\ callId'[j] = callId[j]
    BY <1>f, <2>1
  <2>4. caller'[k] = "sending" /\ callId'[k] = nextId
    BY <1>f, <2>1
  <2>5. \A id \in pending' : \E j \in Callers :
          callId'[j] = id /\ caller'[j] \in Unsent \cup {"queued"}
    BY <1>e, <1>f, <2>1, <2>2, <2>3, <2>4 DEF Unsent
  <2>6. \A id \in abandoned : \E j \in Callers : callId'[j] = id /\ caller'[j] = "done"
    BY <1>e, <1>f, <2>2, <2>3
  <2>7. \A j \in Callers : caller'[j] \in Unsent => callId'[j] \in pending'
    BY <1>e, <2>1, <2>3, <2>4
  <2>8. failed = "no" => \A j \in Callers, id \in pending' :
          caller'[j] = "queued" /\ callId'[j] = id => InFlight(id)
    <3>1. \A j \in Callers : caller'[j] = "queued" => j # k /\ caller[j] = "queued"
      BY <2>3, <2>4
    <3>2. \A j \in Callers : callId[j] # nextId
      BY <1>0, FrameFacts DEF CallerInv, CallerOk
    <3> QED BY <1>e, <2>1, <2>3, <3>1, <3>2
  <2>9. nextId \in CallIds /\ pending' \subseteq CallIds
    BY <1>f, <2>1, <2>2
  <2> QED BY <1>5, <1>e, <1>f, <2>1, <2>5, <2>6, <2>7, <2>8, <2>9 DEF ExpectInv
<1>6. ASSUME NEW k \in Callers, CallTooLarge(k), \A id \in CallIds : InFlight(id)' <=> InFlight(id)
      PROVE  ExpectInv'
  <2>1. /\ caller[k] = "permit" /\ caller' = [caller EXCEPT ![k] = "done"]
        /\ UNCHANGED <<callId, pending, abandoned, failed>>
    BY <1>6 DEF CallTooLarge, Goto
  <2>2. \A j \in Callers, w \in Unsent \cup {"queued"} : caller'[j] = w <=> caller[j] = w
    BY <1>f, <2>1 DEF Unsent
  <2>3. \A j \in Callers : caller[j] = "done" => caller'[j] = "done"
    BY <1>f, <2>1
  <2> QED BY <1>6, <1>e, <1>f, <2>1, <2>2, <2>3 DEF ExpectInv
<1>7. ASSUME NEW k \in Callers, CallChecks(k) \/ (CallSends(k) /\ ~(Len(toClient) < QueueCap)),
             \A id \in CallIds : InFlight(id)' <=> InFlight(id)
      PROVE  ExpectInv'
  <2>1. /\ caller[k] \in Unsent /\ caller'[k] \in Unsent
        /\ \A j \in Callers : j # k => caller'[j] = caller[j]
        /\ UNCHANGED <<callId, pending, abandoned, failed>>
    BY <1>7, <1>f DEF CallChecks, CallSends, Goto, Unsent
  <2>2. \A j \in Callers : /\ caller'[j] \in Unsent <=> caller[j] \in Unsent
                           /\ caller'[j] = "queued" <=> caller[j] = "queued"
                           /\ caller'[j] = "done" <=> caller[j] = "done"
    BY <2>1 DEF Unsent
  <2> QED BY <1>7, <1>e, <1>f, <2>1, <2>2 DEF ExpectInv
<1>8. ASSUME NEW k \in Callers, CallWithdraws(k), \A id \in CallIds : InFlight(id)' <=> InFlight(id)
      PROVE  ExpectInv'
  <2>1. /\ caller[k] \in {"permit", "sending"} /\ caller' = [caller EXCEPT ![k] = "done"]
        /\ pending' = pending \ {callId[k]}
        /\ UNCHANGED <<callId, abandoned, failed>>
    BY <1>8 DEF CallWithdraws, Goto
  <2>2. caller'[k] = "done" /\ \A j \in Callers : j # k => caller'[j] = caller[j]
    BY <1>f, <2>1
  <2>3. \A id \in CallIds : InFlight(id) => id # callId[k]
    BY <1>u, <1>c, <1>f, <2>1 DEF Unsent
  <2>4. \A j \in Callers : j # k /\ callId[j] = callId[k] => callId[j] = 0
    BY <1>c
  <2>5. \A id \in pending' : \E j \in Callers :
          callId[j] = id /\ caller'[j] \in Unsent \cup {"queued"}
    BY <1>e, <2>1, <2>2
  <2>6. \A id \in abandoned : \E j \in Callers : callId[j] = id /\ caller'[j] = "done"
    BY <1>e, <2>2
  <2>7. \A j \in Callers : caller'[j] \in Unsent => callId[j] \in pending'
    BY <1>e, <1>f, <2>1, <2>2, <2>4 DEF Unsent
  <2>8. \A j \in Callers : caller'[j] = "queued" => caller[j] = "queued"
    BY <2>2
  <2> QED BY <1>8, <1>e, <1>f, <2>1, <2>3, <2>5, <2>6, <2>7, <2>8 DEF ExpectInv
<1>9. ASSUME NEW k \in Callers, CallAbandons(k), \A id \in CallIds : InFlight(id)' <=> InFlight(id)
      PROVE  ExpectInv'
  <2>1. /\ caller[k] = "queued" /\ caller' = [caller EXCEPT ![k] = "done"]
        /\ pending' = pending \ {callId[k]}
        /\ abandoned' = IF callId[k] \in pending THEN abandoned \cup {callId[k]} ELSE abandoned
        /\ UNCHANGED <<callId, failed>> /\ failed = "no"
    BY <1>0, <1>9, RoomForMarkers DEF CallAbandons, Goto
  <2>2. caller'[k] = "done" /\ \A j \in Callers : j # k => caller'[j] = caller[j]
    BY <1>f, <2>1
  <2>3. \A id \in pending' : \E j \in Callers :
          callId[j] = id /\ caller'[j] \in Unsent \cup {"queued"}
    BY <1>e, <2>1, <2>2
  <2>4. \A id \in abandoned' : \E j \in Callers : callId[j] = id /\ caller'[j] = "done"
    BY <1>e, <2>1, <2>2
  <2>5. \A j \in Callers : caller'[j] \in Unsent => callId[j] \in pending'
    <3> SUFFICES ASSUME NEW j \in Callers, caller'[j] \in Unsent PROVE callId[j] \in pending'
      OBVIOUS
    <3>1. j # k /\ caller[j] \in Unsent
      BY <2>2 DEF Unsent
    <3>2. callId[j] \in pending /\ callId[j] # 0
      BY <1>e, <1>f, <3>1
    <3>3. callId[j] # callId[k]
      BY <1>c, <3>1, <3>2
    <3> QED BY <2>1, <3>2, <3>3
  <2>6. \A j \in Callers : caller'[j] = "queued" => caller[j] = "queued"
    BY <2>2
  <2>7. \A id \in abandoned' : InFlight(id)
    BY <1>e, <2>1
  <2>8. \A id \in CallIds : InFlight(id) => id \in pending' \cup abandoned'
    BY <1>e, <2>1
  <2>9. abandoned' \subseteq CallIds
    BY <1>f, <2>1
  <2>10. \A j \in Callers, id \in pending' :
           caller'[j] = "queued" /\ callId[j] = id => InFlight(id)
    BY <1>e, <2>1, <2>6
  <2> QED BY <1>9, <1>f, <2>1, <2>3, <2>4, <2>5, <2>7, <2>8, <2>9, <2>10 DEF ExpectInv
<1>10. ASSUME NEW k \in Callers, CallReturns(k), \A id \in CallIds : InFlight(id)' <=> InFlight(id)
       PROVE  ExpectInv'
  <2>1. /\ caller[k] = "queued" /\ caller' = [caller EXCEPT ![k] = "done"]
        /\ callId[k] \notin pending
        /\ UNCHANGED <<callId, pending, abandoned, failed>>
    BY <1>10 DEF CallReturns, Goto
  <2>2. caller'[k] = "done" /\ \A j \in Callers : j # k => caller'[j] = caller[j]
    BY <1>f, <2>1
  <2>3. \A id \in pending : \E j \in Callers :
          callId[j] = id /\ caller'[j] \in Unsent \cup {"queued"}
    BY <1>e, <2>1, <2>2
  <2>4. \A id \in abandoned : \E j \in Callers : callId[j] = id /\ caller'[j] = "done"
    BY <1>e, <2>2
  <2>5. \A j \in Callers : /\ caller'[j] \in Unsent => caller[j] \in Unsent
                           /\ caller'[j] = "queued" => caller[j] = "queued"
    BY <2>2 DEF Unsent
  <2> QED BY <1>10, <1>e, <1>f, <2>1, <2>3, <2>4, <2>5 DEF ExpectInv
<1>11. ASSUME \A k \in Callers : ~PeerCall(k), ~ServerReads,
              \A id \in CallIds : InFlight(id)' <=> InFlight(id)
       PROVE  ExpectInv'
  <2>1. UNCHANGED <<caller, callId>>
    BY <1>11, PeerVars
  <2>2. UNCHANGED <<pending, abandoned>> /\ (failed' = "no" => failed = "no")
    <3> USE DEF serverVars, clientVars
    <3>1. \A p \in Parents : Expires(p) \/ Responds(p) \/ ClientCancels(p) \/ ClientAbandons(p)
            => UNCHANGED <<pending, abandoned, failed>>
      BY DEF Expires, Responds, ClientCancels, ClientAbandons
    <3>2. Reader => UNCHANGED <<pending, abandoned>> /\ failed = "no"
      BY DEF Reader, ReadsCallback, ReadsResponse
    <3>3. \A id \in CallIds : Answering(id) \/ CallbackPanics(id)
            => UNCHANGED <<pending, abandoned, failed>>
      BY DEF Answering, CallbackEnds, CallbackAnswers, CallbackPanics
    <3>4. Quiet \/ UNCHANGED vars => UNCHANGED <<pending, abandoned, failed>>
      BY DEF Quiet, vars
    <3> QED BY <1>11, <3>1, <3>2, <3>3, <3>4 DEF Next, Step
  <2> QED BY <1>11, <1>s, <2>1, <2>2
<1>12. CASE /\ ~ServerReads
            /\ ~\E k \in Callers : CallSends(k) /\ Len(toClient) < QueueCap
            /\ \A id \in CallIds : InFlight(id)' <=> InFlight(id)
  BY <1>4, <1>5, <1>6, <1>7, <1>8, <1>9, <1>10, <1>11, <1>12 DEF PeerCall
<1> QED BY <1>1, <1>2, <1>3, <1>12, FlightMoves

\* The endpoint hands out no more permits than the client has slots.
LEMMA PermitStep == ASSUME IInv, [Next]_vars PROVE PermitInv'
<1> DEFINE H == {k \in Callers : caller[k] \in Holding}
<1>0. /\ TypeInv /\ PermitInv /\ TypeInv' /\ Limit \in Nat
      /\ caller \in [Callers -> Holding \cup {"idle", "done"}]
  BY TypeStep, CallbackAssumption DEF IInv, TypeInv, TypeOK
<1>1. /\ IsFiniteSet(H) /\ Cardinality(H) \in Nat /\ IsFiniteSet(H') /\ Cardinality(H') \in Nat
      /\ IsFiniteSet(abandoned) /\ Cardinality(abandoned) \in Nat
      /\ IsFiniteSet(abandoned') /\ Cardinality(abandoned') \in Nat
  <2>1. H \subseteq Callers /\ H' \subseteq Callers
    OBVIOUS
  <2>2. abandoned \subseteq CallIds /\ abandoned' \subseteq CallIds
    BY <1>0 DEF TypeInv, TypeOK
  <2> QED BY <2>1, <2>2, Finite
<1>2. Permits = Cardinality(H) + Cardinality(abandoned)
      /\ Permits' = Cardinality(H') + Cardinality(abandoned')
  BY DEF Permits
<1>3. ASSUME H' \subseteq H, abandoned' \subseteq abandoned PROVE PermitInv'
  <2>1. Cardinality(H') <= Cardinality(H) /\ Cardinality(abandoned') <= Cardinality(abandoned)
    BY <1>1, <1>3, FS_Subset
  <2> HIDE DEF H
  <2> QED BY <1>0, <1>1, <1>2, <2>1 DEF PermitInv
<1>4. ASSUME NEW k \in Callers, CallBegins(k) PROVE PermitInv'
  <2>1. /\ Permits < Limit /\ abandoned' = abandoned /\ caller' = [caller EXCEPT ![k] = "permit"]
    BY <1>4 DEF CallBegins, Goto
  <2>2. H' \subseteq H \cup {k}
    BY <1>0, <2>1
  <2>3. Cardinality(H \cup {k}) <= Cardinality(H) + 1 /\ IsFiniteSet(H \cup {k})
    BY <1>1, OneMore, FS_AddElement
  <2>4. Cardinality(H') <= Cardinality(H \cup {k}) /\ Cardinality(H \cup {k}) \in Nat
    BY <2>2, <2>3, FS_Subset, FS_CardinalityType
  <2> HIDE DEF H
  <2> QED BY <1>0, <1>1, <1>2, <2>1, <2>3, <2>4 DEF PermitInv
<1>5. ASSUME NEW k \in Callers, CallAbandons(k) PROVE PermitInv'
  <2>1. /\ caller[k] = "queued" /\ caller' = [caller EXCEPT ![k] = "done"]
        /\ abandoned' \subseteq abandoned \cup {callId[k]}
    BY <1>5 DEF CallAbandons, Goto
  <2>2. k \in H /\ H' \subseteq H \ {k}
    BY <1>0, <2>1 DEF Holding
  <2>3. /\ Cardinality(H \ {k}) = Cardinality(H) - 1 /\ IsFiniteSet(H \ {k})
        /\ Cardinality(abandoned \cup {callId[k]}) <= Cardinality(abandoned) + 1
        /\ IsFiniteSet(abandoned \cup {callId[k]})
    BY <1>1, <2>2, OneMore, FS_AddElement, FS_RemoveElement
  <2>4. /\ Cardinality(H') <= Cardinality(H \ {k})
        /\ Cardinality(abandoned') <= Cardinality(abandoned \cup {callId[k]})
        /\ Cardinality(abandoned \cup {callId[k]}) \in Nat
    BY <2>1, <2>2, <2>3, FS_Subset, FS_CardinalityType
  <2> HIDE DEF H
  <2> QED BY <1>0, <1>1, <1>2, <2>3, <2>4 DEF PermitInv
<1>6. ASSUME NEW k \in Callers, PeerCall(k), ~CallBegins(k), ~CallAbandons(k) PROVE PermitInv'
  <2>1. /\ abandoned' = abandoned /\ caller[k] \in Holding
        /\ \E to : caller' = [caller EXCEPT ![k] = to]
    BY <1>6 DEF PeerCall, CallOrders, CallTooLarge, CallChecks, CallSends, CallWithdraws,
       CallReturns, Goto, Holding
  <2>2. H' \subseteq H
    BY <1>0, <2>1
  <2> QED BY <1>3, <2>1, <2>2
<1>7. CASE ServerReads
  <2>1. caller' = caller /\ abandoned' \subseteq abandoned
    BY <1>7 DEF ServerReads
  <2> QED BY <1>3, <2>1
<1>8. CASE (\A k \in Callers : ~PeerCall(k)) /\ ~ServerReads
  <2>1. caller' = caller
    BY <1>8, PeerVars
  <2>2. abandoned' = abandoned
    <3> USE DEF serverVars, clientVars
    <3>1. \A p \in Parents : Expires(p) \/ Responds(p) \/ ClientCancels(p) \/ ClientAbandons(p)
            => abandoned' = abandoned
      BY DEF Expires, Responds, ClientCancels, ClientAbandons
    <3>2. Reader \/ Quiet \/ UNCHANGED vars => abandoned' = abandoned
      BY DEF Reader, ReadsCallback, ReadsResponse, Quiet, vars
    <3>3. \A id \in CallIds : Answering(id) \/ CallbackPanics(id) => abandoned' = abandoned
      BY DEF Answering, CallbackEnds, CallbackAnswers, CallbackPanics
    <3> QED BY <1>8, <3>1, <3>2, <3>3 DEF Next, Step
  <2> QED BY <1>3, <2>1, <2>2
<1> QED BY <1>4, <1>5, <1>6, <1>7, <1>8

\* A callback under way has a permit at the endpoint: its own, or the one its
\* caller left behind.
LEMMA QueuedOrMarked ==
  ASSUME IInv, NEW id \in CallIds, InFlight(id)
  PROVE  id \in abandoned \/ \E k \in Callers : callId[k] = id /\ caller[k] = "queued"
<1>0. TypeInv /\ CallerInv /\ OrderInv /\ AnswerInv /\ ExpectInv
  BY DEF IInv
<1>1. CASE id \in pending
  <2>1. PICK k \in Callers : callId[k] = id /\ caller[k] \in Unsent \cup {"queued"}
    BY <1>0, <1>1 DEF ExpectInv
  <2>2. ASSUME caller[k] \in Unsent PROVE FALSE
    <3>1. Frontier = id
      BY <1>0, <2>1, <2>2, CallbackAssumption DEF Frontier, CallerInv, CallerOk
    <3>2. id < Frontier /\ id \in Nat
      BY <1>0, FlightsAreBehind, FrameFacts
    <3> QED BY <3>1, <3>2
  <2> QED BY <2>1, <2>2
<1> QED BY <1>0, <1>1 DEF ExpectInv

\* So when the client reads a callback, it has a slot for it.
LEMMA SlotLeft == ASSUME IInv, ReadsCallback PROVE active < Limit
<1> DEFINE H == {k \in Callers : caller[k] \in Holding}
           Q == {k \in Callers : caller[k] = "queued"}
           Img == {callId[k] : k \in Q}
<1>0. /\ TypeInv /\ OrderInv /\ ExpectInv /\ PermitInv /\ ActiveInv /\ Limit \in Nat
      /\ active = Cardinality(Running) /\ Running \subseteq CallIds
  BY CallbackAssumption DEF IInv, ActiveInv, Running
<1>1. PICK c \in CallIds : /\ c = toClient[1].id /\ toClient[1].type = "callback"
                           /\ callback[c] = "none" /\ 1 \in DOMAIN toClient
  <2>1. 1 \in DOMAIN toClient
    BY <1>0, ClientReads, FrameFacts DEF Reader
  <2> QED BY <1>0, <2>1, CallbackRead
<1>2. c \notin Running /\ \A id \in Running \cup {c} : InFlight(id)
  <2>1. InFlight(c)
    BY <1>1 DEF InFlight, Asked, IsCallback
  <2> QED BY <1>1, <2>1 DEF Running, InFlight, Served
<1>3. Running \cup {c} \subseteq abandoned \cup Img
  BY <1>0, <1>2, QueuedOrMarked
<1>4. /\ IsFiniteSet(Q) /\ IsFiniteSet(H) /\ Cardinality(Q) <= Cardinality(H)
      /\ Cardinality(Q) \in Nat /\ Cardinality(H) \in Nat
  <2>1. Q \subseteq H /\ H \subseteq Callers /\ Q \subseteq Callers
    BY DEF Holding
  <2> HIDE DEF Q, H
  <2>2. IsFiniteSet(Q) /\ IsFiniteSet(H) /\ Cardinality(Q) \in Nat /\ Cardinality(H) \in Nat
    BY <2>1, Finite
  <2> QED BY <2>1, <2>2, FS_Subset
<1>5. IsFiniteSet(Img) /\ Cardinality(Img) <= Cardinality(Q)
  <2> DEFINE g == [k \in Q |-> callId[k]]
  <2>1. g \in Surjection(Q, Img)
    BY DEF Surjection
  <2> HIDE DEF g, Q, Img
  <2> QED BY <1>4, <2>1, FS_Surjection
<1>6. IsFiniteSet(abandoned) /\ Cardinality(abandoned) \in Nat
  BY <1>0, Finite DEF TypeInv, TypeOK
<1> HIDE DEF H, Q, Img
<1>7. /\ IsFiniteSet(abandoned \cup Img)
      /\ Cardinality(abandoned \cup Img) <= Cardinality(abandoned) + Cardinality(Img)
      /\ Cardinality(Img) \in Nat
  <2>1. Cardinality(abandoned \cup Img)
          = Cardinality(abandoned) + Cardinality(Img) - Cardinality(abandoned \cap Img)
    BY <1>5, <1>6, FS_Union
  <2>2. Cardinality(abandoned \cap Img) \in Nat /\ Cardinality(Img) \in Nat
    BY <1>5, <1>6, FS_Intersection, FS_CardinalityType
  <2>3. IsFiniteSet(abandoned \cup Img)
    BY <1>5, <1>6, FS_Union
  <2> QED BY <1>6, <2>1, <2>2, <2>3
<1>8. Cardinality(Running \cup {c}) = active + 1 /\ active \in Nat
  BY <1>0, <1>2, Finite, OneMore
<1>9. Cardinality(Running \cup {c}) <= Cardinality(abandoned \cup Img)
      /\ Cardinality(abandoned \cup Img) \in Nat
  BY <1>3, <1>7, FS_Subset, FS_CardinalityType
<1>10. Cardinality(H) + Cardinality(abandoned) <= Limit
  BY <1>0 DEF PermitInv, Permits, H
<1> QED BY <1>0, <1>4, <1>5, <1>6, <1>7, <1>8, <1>9, <1>10

\* The client's count is the number of callbacks that occupy a slot.
LEMMA ActiveStep == ASSUME IInv, [Next]_vars PROVE ActiveInv'
<1>0. /\ TypeInv /\ OrderInv /\ active = Cardinality(Running) /\ IsFiniteSet(Running)
      /\ callback \in [CallIds -> {"none", "running", "answering", "answered", "panicked"}]
  <2>1. Running \subseteq CallIds
    BY DEF Running
  <2> QED BY <2>1, Finite DEF IInv, ActiveInv, TypeInv, TypeOK
<1>1. CASE ReadsCallback
  <2>1. PICK c \in CallIds : c = toClient[1].id
    BY <1>0, <1>1, CallbackRead
  <2>2. CASE /\ active' = active + 1 /\ callback[c] = "none"
             /\ callback' = [callback EXCEPT ![c] = "running"]
    <3>1. Running' = Running \cup {c} /\ c \notin Running
      BY <1>0, <2>2 DEF Running
    <3> QED BY <1>0, <2>2, <3>1, OneMore DEF ActiveInv
  <2>3. CASE UNCHANGED <<active, callback>>
    BY <1>0, <2>3 DEF ActiveInv, Running
  <2> QED BY <1>0, <1>1, <2>1, <2>2, <2>3, CallbackRead
<1>2. ASSUME NEW id \in CallIds, CallbackEnds(id) PROVE ActiveInv'
  <2>1. /\ callback[id] = "running" /\ callback' = [callback EXCEPT ![id] = "answering"]
        /\ active' = active - 1
    BY <1>2 DEF CallbackEnds
  <2>2. id \in Running /\ Running' = Running \ {id}
    BY <1>0, <2>1 DEF Running
  <2> QED BY <1>0, <2>1, <2>2, OneMore DEF ActiveInv
<1>3. ASSUME NEW id \in CallIds, CallbackAnswers(id) \/ CallbackPanics(id) PROVE ActiveInv'
  <2>1. active' = active /\ Running' = Running
    BY <1>0, <1>3 DEF CallbackAnswers, CallbackPanics, Running
  <2> QED BY <1>0, <2>1 DEF ActiveInv
<1>4. CASE UNCHANGED <<active, callback>>
  BY <1>0, <1>4 DEF ActiveInv, Running
<1>5. ASSUME ~ReadsCallback, \A id \in CallIds : ~Answering(id) /\ ~CallbackPanics(id)
      PROVE  UNCHANGED <<active, callback>>
  <2> USE DEF serverVars, clientVars
  <2>1. \A k \in Callers : PeerCall(k) => UNCHANGED <<active, callback>>
    BY DEF PeerCall, CallBegins, CallOrders, CallTooLarge, CallChecks, CallSends,
       CallWithdraws, CallAbandons, CallReturns
  <2>2. \A p \in Parents : Expires(p) \/ Responds(p) \/ ClientCancels(p) \/ ClientAbandons(p)
          => UNCHANGED <<active, callback>>
    BY DEF Expires, Responds, ClientCancels, ClientAbandons
  <2>3. ServerReads \/ ReadsResponse \/ Quiet \/ UNCHANGED vars => UNCHANGED <<active, callback>>
    BY DEF ServerReads, ReadsResponse, Quiet, vars
  <2> QED BY <1>5, <2>1, <2>2, <2>3 DEF Next, Step, Reader
<1> QED BY <1>1, <1>2, <1>3, <1>4, <1>5 DEF Answering

\* The steps that change which requests the client still knows, and which the
\* endpoint has answered.
LEMMA RequestMoves ==
  ASSUME [Next]_vars,
         ~\E p \in Parents : Responds(p) \/ ClientAbandons(p),
         ~ReadsResponse
  PROVE  UNCHANGED <<answered, waiting, givenUp>>
<1> USE DEF serverVars, clientVars
<1>1. \A k \in Callers : PeerCall(k) => UNCHANGED <<answered, waiting, givenUp>>
  BY DEF PeerCall, CallBegins, CallOrders, CallTooLarge, CallChecks, CallSends,
     CallWithdraws, CallAbandons, CallReturns
<1>2. \A p \in Parents : Expires(p) \/ ClientCancels(p) => UNCHANGED <<answered, waiting, givenUp>>
  BY DEF Expires, ClientCancels
<1>3. \A id \in CallIds : Answering(id) \/ CallbackPanics(id)
        => UNCHANGED <<answered, waiting, givenUp>>
  BY DEF Answering, CallbackEnds, CallbackAnswers, CallbackPanics
<1>4. ServerReads \/ ReadsCallback \/ Quiet \/ UNCHANGED vars
        => UNCHANGED <<answered, waiting, givenUp>>
  BY DEF ServerReads, ReadsCallback, Quiet, vars
<1> QED BY <1>1, <1>2, <1>3, <1>4 DEF Next, Step, Reader

\* What the client forgets when it reads a response.
LEMMA ResponseRead ==
  ASSUME TypeInv, ReadsResponse
  PROVE  /\ toClient[1].type = "response" /\ toClient[1].parent \in Parents
         /\ waiting' = waiting \ {toClient[1].parent}
         /\ givenUp' = givenUp \ {toClient[1].parent}
         /\ failed' = (IF toClient[1].parent \in waiting \cup givenUp THEN "no" ELSE "response")
         /\ UNCHANGED <<serverVars, toServer>>
<1>1. /\ Len(toClient) \in Nat \ {0} /\ Head(toClient) = toClient[1]
  BY ClientReads DEF Reader
<1>2. 1 \in 1 .. Len(toClient)
  BY <1>1
<1>3. toClient[1].parent \in Parents
  BY <1>2, FrameFacts
<1> QED BY <1>1, <1>3 DEF ReadsResponse

\* Every response is expected, by a caller or by the marker of one that left.
LEMMA ResponseStep == ASSUME IInv, [Next]_vars PROVE ResponseInv'
<1> DEFINE n == Len(toClient)
<1>0. TypeInv /\ TypeInv' /\ CallerInv /\ OrderInv
  BY TypeStep DEF IInv
<1>f. /\ DOMAIN toClient = 1 .. n /\ n \in Nat /\ waiting \subseteq Parents
      /\ \A i \in 1 .. n : toClient[i].parent \in Parents
  BY <1>0, FrameFacts DEF TypeInv, TypeOK
<1>o. /\ \A i \in 1 .. n : toClient[i].type = "response"
           => toClient[i].parent \in answered /\ toClient[i].parent \in waiting \cup givenUp
      /\ \A i, j \in 1 .. n :
           toClient[i].type = "response" /\ toClient[j].type = "response"
             /\ toClient[i].parent = toClient[j].parent => i = j
      /\ Parents \ (waiting \cup givenUp) \subseteq answered
  BY <1>f DEF IInv, ResponseInv
<1> HIDE DEF n
<1>1. ASSUME NEW k \in Callers, CallSends(k), Len(toClient) < QueueCap PROVE ResponseInv'
  <2>1. /\ DOMAIN toClient' = 1 .. n + 1 /\ \A i \in 1 .. n : toClient'[i] = toClient[i]
        /\ UNCHANGED <<answered, waiting, givenUp>>
    BY <1>0, <1>1, SentCallback DEF n, clientVars
  <2>2. toClient'[n + 1].type = "callback"
    BY <1>0, <1>1, SentCallback DEF n
  <2>3. \A i \in 1 .. n + 1 : i \in 1 .. n \/ i = n + 1
    BY <1>f
  <2> QED BY <1>o, <2>1, <2>2, <2>3 DEF ResponseInv
<1>2. ASSUME NEW p \in Parents, Responds(p) PROVE ResponseInv'
  <2>1. /\ DOMAIN toClient' = 1 .. n + 1 /\ \A i \in 1 .. n : toClient'[i] = toClient[i]
        /\ toClient'[n + 1] = Response(p) /\ p \notin answered
        /\ answered' = answered \cup {p} /\ UNCHANGED <<waiting, givenUp>>
    BY <1>0, <1>2, ResponseSent DEF n, clientVars
  <2>2. toClient'[n + 1].type = "response" /\ toClient'[n + 1].parent = p
    BY <2>1 DEF Response
  <2>3. \A i \in 1 .. n + 1 : i \in 1 .. n \/ i = n + 1
    BY <1>f
  <2>4. p \in waiting \cup givenUp /\ \A i \in 1 .. n :
          toClient[i].type = "response" => toClient[i].parent # p
    BY <1>o, <2>1
  <2>5. \A i, j \in 1 .. n + 1 :
          toClient'[i].type = "response" /\ toClient'[j].type = "response"
            /\ toClient'[i].parent = toClient'[j].parent => i = j
    BY <1>o, <2>1, <2>2, <2>3, <2>4
  <2> QED BY <1>o, <2>1, <2>2, <2>3, <2>4, <2>5 DEF ResponseInv
<1>3. CASE ReadsCallback
  <2>1. /\ n \in Nat \ {0} /\ DOMAIN toClient' = 1 .. n - 1
        /\ \A i \in 1 .. n - 1 : toClient'[i] = toClient[i + 1]
        /\ UNCHANGED <<answered, waiting, givenUp>>
    BY <1>0, <1>3, ClientReads, CallbackRead DEF n, Reader, serverVars
  <2>2. \A i \in 1 .. n - 1 : i + 1 \in 1 .. n
    BY <2>1
  <2>3. \A i, j \in 1 .. n - 1 : i + 1 = j + 1 => i = j
    OBVIOUS
  <2>4. \A i \in DOMAIN toClient' :
          toClient'[i].type = "response" => toClient'[i].parent \in answered' \cap (waiting' \cup givenUp')
    BY <1>o, <2>1, <2>2
  <2>5. \A i, j \in DOMAIN toClient' :
          /\ toClient'[i].type = "response" /\ toClient'[j].type = "response"
          /\ toClient'[i].parent = toClient'[j].parent
          => i = j
    BY <1>o, <2>1, <2>2, <2>3
  <2>6. Parents \ (waiting' \cup givenUp') \subseteq answered'
    BY <1>o, <2>1
  <2> QED BY <2>4, <2>5, <2>6 DEF ResponseInv
<1>4. CASE ReadsResponse
  <2>1. /\ n \in Nat \ {0} /\ DOMAIN toClient' = 1 .. n - 1
        /\ \A i \in 1 .. n - 1 : toClient'[i] = toClient[i + 1]
    BY <1>0, <1>4, ClientReads DEF n, Reader
  <2>2. \A i \in 1 .. n - 1 : i + 1 \in 1 .. n /\ i + 1 # 1
    BY <2>1
  <2>3. \A i, j \in 1 .. n - 1 : i + 1 = j + 1 => i = j
    OBVIOUS
  <2>4. /\ 1 \in 1 .. n /\ toClient[1].type = "response" /\ answered' = answered
        /\ waiting' = waiting \ {toClient[1].parent} /\ givenUp' = givenUp \ {toClient[1].parent}
    BY <1>0, <1>4, <2>1, ResponseRead DEF serverVars
  <2>5. \A i \in 1 .. n - 1 : toClient[i + 1].type = "response"
          => toClient[i + 1].parent # toClient[1].parent
    BY <1>o, <2>2, <2>4
  <2>6. \A i \in 1 .. n - 1 : toClient'[i].type = "response"
          => toClient'[i].parent \in answered' \cap (waiting' \cup givenUp')
    BY <1>o, <2>1, <2>2, <2>4, <2>5
  <2>7. \A i, j \in 1 .. n - 1 :
          toClient'[i].type = "response" /\ toClient'[j].type = "response"
            /\ toClient'[i].parent = toClient'[j].parent => i = j
    BY <1>o, <2>1, <2>2, <2>3
  <2>8. Parents \ (waiting' \cup givenUp') \subseteq answered'
    BY <1>o, <2>4
  <2> QED BY <2>1, <2>6, <2>7, <2>8 DEF ResponseInv
<1>5. ASSUME NEW p \in Parents, ClientAbandons(p) PROVE ResponseInv'
  <2>1. UNCHANGED <<answered, toClient>> /\ waiting' \cup givenUp' = waiting \cup givenUp
    BY <1>5 DEF ClientAbandons, serverVars
  <2> QED BY <1>f, <1>o, <2>1 DEF ResponseInv
<1>6. CASE UNCHANGED <<toClient, answered, waiting, givenUp>>
  BY <1>f, <1>o, <1>6 DEF ResponseInv
<1> QED BY <1>0, <1>1, <1>2, <1>3, <1>4, <1>5, <1>6, ClientMoves, RequestMoves

\* A handler that makes its own callbacks sends none after its response.
LEMMA ServingStep ==
  ASSUME IInv, [Next]_vars, Patient
  PROVE  \A k \in Callers : caller'[k] \in Holding /\ parent'[k] \in answered'
           => parent'[k] \in stopped' /\ caller'[k] # "checked"
<1>0. /\ TypeInv /\ PatientInv /\ ~Spawned
      /\ caller \in [Callers -> Holding \cup {"idle", "done"}]
      /\ parent \in [Callers -> Parents \cup {NoOne}]
  BY DEF IInv, TypeInv, TypeOK, Patient
<1>p. \A k \in Callers : caller[k] \in Holding /\ parent[k] \in answered
        => parent[k] \in stopped /\ caller[k] # "checked"
  BY <1>0 DEF PatientInv
<1> TAKE k \in Callers
<1>1. ASSUME NEW j \in Callers, PeerCall(j)
      PROVE  caller'[k] \in Holding /\ parent'[k] \in answered'
               => parent'[k] \in stopped' /\ caller'[k] # "checked"
  <2>1. UNCHANGED <<answered, stopped>>
    BY <1>1 DEF PeerCall, CallBegins, CallOrders, CallTooLarge, CallChecks, CallSends,
       CallWithdraws, CallAbandons, CallReturns
  <2>2. CASE CallBegins(j)
    <3>1. /\ caller' = [caller EXCEPT ![j] = "permit"]
          /\ \E p \in Parents : p \notin answered /\ parent' = [parent EXCEPT ![j] = p]
      BY <1>0, <2>2 DEF CallBegins, Goto
    <3> QED BY <1>0, <1>p, <2>1, <3>1
  <2>3. CASE CallChecks(j)
    <3>1. /\ caller[j] = "sending" /\ parent[j] \notin stopped
          /\ caller' = [caller EXCEPT ![j] = "checked"] /\ parent' = parent
      BY <2>3 DEF CallChecks, Goto
    <3> QED BY <1>0, <1>p, <2>1, <3>1 DEF Holding
  <2>4. CASE CallOrders(j) \/ CallTooLarge(j) \/ CallSends(j) \/ CallWithdraws(j)
             \/ CallAbandons(j) \/ CallReturns(j)
    <3>1. /\ caller[j] \in Holding /\ parent' = parent
          /\ \E to : to # "checked" /\ caller' = [caller EXCEPT ![j] = to]
      BY <2>4 DEF CallOrders, CallTooLarge, CallSends, CallWithdraws, CallAbandons,
         CallReturns, Goto, Holding
    <3> QED BY <1>0, <1>p, <2>1, <3>1
  <2> QED BY <1>1, <2>2, <2>3, <2>4 DEF PeerCall
<1>2. ASSUME \A j \in Callers : ~PeerCall(j)
      PROVE  caller'[k] \in Holding /\ parent'[k] \in answered'
               => parent'[k] \in stopped' /\ caller'[k] # "checked"
  <2>1. UNCHANGED <<caller, parent>>
    BY <1>2, PeerVars
  <2>2. CASE answered' = answered
    <3>1. stopped \subseteq stopped'
      <4> USE DEF serverVars, clientVars
      <4>1. \A p \in Parents : Expires(p) \/ Responds(p) \/ ClientCancels(p) \/ ClientAbandons(p)
              => stopped \subseteq stopped'
        BY DEF Expires, Responds, ClientCancels, ClientAbandons
      <4>2. Reader \/ ServerReads \/ Quiet \/ UNCHANGED vars => stopped \subseteq stopped'
        BY DEF Reader, ReadsCallback, ReadsResponse, ServerReads, Quiet, vars
      <4>3. \A id \in CallIds : Answering(id) \/ CallbackPanics(id)
              => stopped \subseteq stopped'
        BY DEF Answering, CallbackEnds, CallbackAnswers, CallbackPanics
      <4> QED BY <1>2, <4>1, <4>2, <4>3 DEF Next, Step
    <3> QED BY <1>p, <2>1, <2>2, <3>1
  <2>3. ASSUME NEW p \in Parents, Responds(p)
        PROVE  caller'[k] \in Holding /\ parent'[k] \in answered'
                 => parent'[k] \in stopped' /\ caller'[k] # "checked"
    <3>1. /\ answered' = answered \cup {p} /\ stopped' = stopped
          /\ parent[k] = p /\ caller[k] \in Holding => p \in stopped /\ caller[k] # "checked"
      BY <1>0, <2>3 DEF Responds, Serving
    <3> QED BY <1>p, <2>1, <3>1
  <2>4. ASSUME ~\E p \in Parents : Responds(p) PROVE answered' = answered
    <3>1. \A p \in Parents : ClientAbandons(p) => answered' = answered
      BY DEF ClientAbandons, serverVars
    <3>2. ReadsResponse => answered' = answered
      BY DEF ReadsResponse, serverVars
    <3> QED BY <2>4, <3>1, <3>2, RequestMoves
  <2> QED BY <2>2, <2>3, <2>4
<1> QED BY <1>1, <1>2

\* So every callback reaches a patient client before the response to its parent.
LEMMA PatientStep == ASSUME IInv, [Next]_vars PROVE PatientInv'
<1> SUFFICES ASSUME Patient PROVE PatientInv'
  BY SameHabits DEF PatientInv, Patient, Spawned, Abandons
<1> DEFINE n == Len(toClient)
<1>0. TypeInv /\ CallerInv /\ OrderInv /\ ResponseInv /\ PatientInv /\ ~Abandons
  BY DEF IInv, Patient
<1>f. /\ DOMAIN toClient = 1 .. n /\ n \in Nat /\ answered \subseteq Parents
      /\ \A i \in 1 .. n : toClient[i].type \in {"callback", "response"}
  BY <1>0, FrameFacts DEF TypeInv, TypeOK
<1>o. /\ givenUp = {}
      /\ \A k \in Callers : caller[k] \in Holding /\ parent[k] \in answered
           => caller[k] # "checked"
      /\ \A i \in 1 .. n : toClient[i].type = "callback"
           => /\ toClient[i].parent \in waiting
              /\ \A j \in 1 .. n :
                   j < i /\ toClient[j].type = "response" => toClient[j].parent # toClient[i].parent
      /\ \A i \in 1 .. n : toClient[i].type = "response" => toClient[i].parent \in answered
      /\ Parents \ waiting \subseteq answered
  BY <1>0, <1>f DEF PatientInv, ResponseInv
<1>s. \A k \in Callers : caller'[k] \in Holding /\ parent'[k] \in answered'
        => parent'[k] \in stopped' /\ caller'[k] # "checked"
  BY ServingStep
<1>d. \A p \in Parents : ~ClientAbandons(p)
  BY <1>0 DEF ClientAbandons
<1> HIDE DEF n
<1>1. ASSUME NEW k \in Callers, CallSends(k), Len(toClient) < QueueCap PROVE PatientInv'
  <2>1. /\ DOMAIN toClient' = 1 .. n + 1 /\ \A i \in 1 .. n : toClient'[i] = toClient[i]
        /\ caller[k] = "checked" /\ parent[k] \in Parents
        /\ UNCHANGED <<answered, waiting, givenUp>>
    BY <1>0, <1>1, SentCallback DEF n, clientVars
  <2>2. toClient'[n + 1].type = "callback" /\ toClient'[n + 1].parent = parent[k]
    BY <1>0, <1>1, SentCallback DEF n
  <2>3. parent[k] \notin answered /\ parent[k] \in waiting
    BY <1>o, <2>1 DEF Holding
  <2>4. \A i \in 1 .. n + 1 : i \in 1 .. n \/ i = n + 1
    BY <1>f
  <2>5. \A i \in 1 .. n : ~(n + 1 < i)
    BY <1>f
  <2>6. \A i \in 1 .. n + 1 : toClient'[i].type = "callback" => toClient'[i].parent \in waiting
    BY <1>o, <2>1, <2>2, <2>3, <2>4
  <2>7. \A i, j \in 1 .. n + 1 :
          toClient'[i].type = "callback" /\ j < i /\ toClient'[j].type = "response"
            => toClient'[j].parent # toClient'[i].parent
    <3> SUFFICES ASSUME NEW i \in 1 .. n + 1, NEW j \in 1 .. n + 1,
                        toClient'[i].type = "callback", j < i, toClient'[j].type = "response"
                 PROVE  toClient'[j].parent # toClient'[i].parent
      OBVIOUS
    <3>1. j \in 1 .. n
      BY <2>2, <2>4
    <3>2. CASE i = n + 1
      BY <1>o, <2>1, <2>2, <2>3, <3>1, <3>2
    <3>3. CASE i \in 1 .. n
      BY <1>o, <2>1, <3>1, <3>3
    <3> QED BY <2>4, <3>2, <3>3
  <2> QED BY <1>o, <1>s, <2>1, <2>6, <2>7 DEF PatientInv
<1>2. ASSUME NEW p \in Parents, Responds(p) PROVE PatientInv'
  <2>1. /\ DOMAIN toClient' = 1 .. n + 1 /\ \A i \in 1 .. n : toClient'[i] = toClient[i]
        /\ toClient'[n + 1] = Response(p) /\ UNCHANGED <<waiting, givenUp>>
    BY <1>0, <1>2, ResponseSent DEF n, clientVars
  <2>2. toClient'[n + 1].type = "response"
    BY <2>1 DEF Response
  <2>3. \A i \in 1 .. n + 1 : i \in 1 .. n \/ i = n + 1
    BY <1>f
  <2>4. \A i \in 1 .. n : ~(n + 1 < i)
    BY <1>f
  <2>5. \A i \in 1 .. n + 1 : toClient'[i].type = "callback" => i \in 1 .. n
    BY <2>2, <2>3
  <2>6. \A i, j \in 1 .. n + 1 : i \in 1 .. n /\ j < i => j \in 1 .. n
    BY <2>3, <2>4
  <2> QED BY <1>o, <1>s, <2>1, <2>5, <2>6 DEF PatientInv
<1>3. CASE Reader
  <2>1. /\ n \in Nat \ {0} /\ DOMAIN toClient' = 1 .. n - 1
        /\ \A i \in 1 .. n - 1 : toClient'[i] = toClient[i + 1]
    BY <1>0, <1>3, ClientReads DEF n
  <2>2. /\ 1 \in 1 .. n /\ \A i \in 1 .. n - 1 : i + 1 \in 1 .. n /\ 1 < i + 1
        /\ \A i, j \in 1 .. n - 1 : j < i => j + 1 < i + 1
    BY <2>1
  <2>3. /\ givenUp' = {} /\ waiting' \subseteq waiting
        /\ \/ waiting' = waiting
           \/ toClient[1].type = "response" /\ waiting' = waiting \ {toClient[1].parent}
    BY <1>0, <1>3, <1>o, CallbackRead, ResponseRead DEF Reader
  <2>4. \A i \in 1 .. n - 1 : toClient[i + 1].type = "callback"
          => /\ toClient[i + 1].parent \in waiting
             /\ toClient[1].type = "response" => toClient[i + 1].parent # toClient[1].parent
    BY <1>o, <2>2
  <2>5. \A i \in 1 .. n - 1 : toClient'[i].type = "callback" => toClient'[i].parent \in waiting'
    BY <2>1, <2>3, <2>4
  <2>6. \A i, j \in 1 .. n - 1 :
          toClient'[i].type = "callback" /\ j < i /\ toClient'[j].type = "response"
            => toClient'[j].parent # toClient'[i].parent
    BY <1>o, <2>1, <2>2
  <2> QED BY <1>s, <2>1, <2>3, <2>5, <2>6 DEF PatientInv
<1>4. CASE UNCHANGED <<toClient, waiting, givenUp>>
  BY <1>f, <1>o, <1>s, <1>4 DEF PatientInv
<1> QED BY <1>0, <1>d, <1>1, <1>2, <1>3, <1>4, ClientMoves, RequestMoves DEF Reader

\* A late derived deadline needs a clock that moves.
LEMMA LateStep == ASSUME IInv, [Next]_vars PROVE LateInv'
<1> DEFINE n == Len(toClient)
<1>0. TypeInv /\ CallerInv
  BY DEF IInv
<1>h. Drifts' = Drifts
  BY SameHabits DEF Drifts
<1>f. /\ DOMAIN toClient = 1 .. n /\ n \in Nat
      /\ \A i \in 1 .. n : toClient[i].type = "callback" /\ toClient[i].late => Drifts
  BY <1>0, FrameFacts DEF IInv, LateInv
<1> HIDE DEF n
<1>1. ASSUME NEW k \in Callers, CallSends(k), Len(toClient) < QueueCap PROVE LateInv'
  <2>1. /\ DOMAIN toClient' = 1 .. n + 1 /\ \A i \in 1 .. n : toClient'[i] = toClient[i]
        /\ toClient'[n + 1].late \in DerivedLate
    BY <1>0, <1>1, SentCallback DEF n
  <2>2. toClient'[n + 1].late => Drifts
    BY <2>1 DEF DerivedLate
  <2>3. \A i \in 1 .. n + 1 : i \in 1 .. n \/ i = n + 1
    BY <1>f
  <2> QED BY <1>f, <1>h, <2>1, <2>2, <2>3 DEF LateInv
<1>2. ASSUME NEW p \in Parents, Responds(p) PROVE LateInv'
  <2>1. /\ DOMAIN toClient' = 1 .. n + 1 /\ \A i \in 1 .. n : toClient'[i] = toClient[i]
        /\ toClient'[n + 1] = Response(p)
    BY <1>0, <1>2, ResponseSent DEF n
  <2>2. toClient'[n + 1].type = "response"
    BY <2>1 DEF Response
  <2>3. \A i \in 1 .. n + 1 : i \in 1 .. n \/ i = n + 1
    BY <1>f
  <2> QED BY <1>f, <1>h, <2>1, <2>2, <2>3 DEF LateInv
<1>3. CASE Reader
  <2>1. /\ n \in Nat \ {0} /\ DOMAIN toClient' = 1 .. n - 1
        /\ \A i \in 1 .. n - 1 : toClient'[i] = toClient[i + 1]
    BY <1>0, <1>3, ClientReads DEF n
  <2>2. \A i \in 1 .. n - 1 : i + 1 \in 1 .. n
    BY <2>1
  <2> QED BY <1>f, <1>h, <2>1, <2>2 DEF LateInv
<1>4. CASE UNCHANGED toClient
  BY <1>f, <1>h, <1>4 DEF LateInv
<1> QED BY <1>0, <1>1, <1>2, <1>3, <1>4, ClientMoves DEF Reader

\* Only a callback for a request that is over, or a late one, closes the
\* session.
LEMMA FailStep == ASSUME IInv, [Next]_vars PROVE FailInv'
<1>0. /\ TypeInv /\ OrderInv /\ AnswerInv /\ ExpectInv /\ ResponseInv /\ PatientInv
      /\ OnlyParentsDisagree /\ PatientSessionsLast /\ LateInv
  BY DEF IInv, FailInv
<1>h. habits' = habits
  BY SameHabits
<1>1. CASE ReadsCallback
  <2>1. \/ failed' = "no"
        \/ failed' = "parent" /\ toClient[1].parent \notin waiting
        \/ failed' = "deadline" /\ toClient[1].late
    <3>1. active < Limit /\ active \in Nat /\ Limit \in Nat
      BY <1>0, <1>1, SlotLeft, CallbackAssumption DEF TypeInv, TypeOK
    <3> QED BY <1>0, <1>1, <3>1, CallbackRead
  <2>2. /\ Patient => toClient[1].parent \in waiting
        /\ toClient[1].late => Drifts
    <3>1. 1 \in DOMAIN toClient /\ toClient[1].type = "callback"
      <4>1. 1 \in DOMAIN toClient
        BY <1>0, <1>1, ClientReads, FrameFacts DEF Reader
      <4> QED BY <1>0, <1>1, <4>1, CallbackRead
    <3> QED BY <1>0, <3>1 DEF PatientInv, LateInv
  <2> QED BY <1>h, <2>1, <2>2 DEF FailInv, OnlyParentsDisagree, PatientSessionsLast, Patient,
         Spawned, Abandons, Drifts
<1>2. CASE ReadsResponse
  <2>1. 1 \in DOMAIN toClient
    BY <1>0, <1>2, ClientReads, FrameFacts DEF Reader
  <2>2. failed' = "no"
    BY <1>0, <1>2, <2>1, ResponseRead DEF ResponseInv
  <2> QED BY <2>2 DEF FailInv, OnlyParentsDisagree, PatientSessionsLast
<1>3. CASE ServerReads
  <2>1. 1 \in DOMAIN toServer
    BY <1>0, <1>3, ServerTakes, FrameFacts
  <2>2. ASSUME toServer[1].type = "answer" PROVE toServer[1].id \in pending \cup abandoned
    <3>1. toServer[1].id \in CallIds
      BY <1>0, <2>1, <2>2, FrameFacts
    <3>2. InFlight(toServer[1].id)
      BY <2>1, <2>2 DEF InFlight, Replied, IsAnswer
    <3> QED BY <1>0, <3>1, <3>2 DEF ExpectInv
  <2>3. failed' = "no"
    BY <1>0, <1>3, <2>2, ServerTakes
  <2> QED BY <2>3 DEF FailInv, OnlyParentsDisagree, PatientSessionsLast
<1>4. CASE ~Reader /\ ~ServerReads
  <2>1. failed' = failed
    <3> USE DEF serverVars, clientVars
    <3>1. \A k \in Callers : PeerCall(k) => failed' = failed
      BY DEF PeerCall, CallBegins, CallOrders, CallTooLarge, CallChecks, CallSends,
         CallWithdraws, CallAbandons, CallReturns
    <3>2. \A p \in Parents : Expires(p) \/ Responds(p) \/ ClientCancels(p) \/ ClientAbandons(p)
            => failed' = failed
      BY DEF Expires, Responds, ClientCancels, ClientAbandons
    <3>3. \A id \in CallIds : Answering(id) \/ CallbackPanics(id) => failed' = failed
      BY DEF Answering, CallbackEnds, CallbackAnswers, CallbackPanics
    <3>4. Quiet \/ UNCHANGED vars => failed' = failed
      BY DEF Quiet, vars
    <3> QED BY <1>4, <3>1, <3>2, <3>3, <3>4 DEF Next, Step
  <2> QED BY <1>0, <1>h, <2>1 DEF FailInv, OnlyParentsDisagree, PatientSessionsLast, Spawned,
         Abandons, Drifts
<1> QED BY <1>1, <1>2, <1>3, <1>4 DEF Reader

\* A new session has sent nothing.
LEMMA InitIInv == Init => IInv
<1> SUFFICES ASSUME Init PROVE IInv
  OBVIOUS
<1> USE DEF Init
<1>0. NoOne \notin Callers /\ Limit \in Nat /\ Cardinality(Callers) \in Nat
  BY CallbackAssumption, Finite
<1>1. toClient \in Seq(ClientFrames) /\ toServer \in Seq(ServerFrames)
  BY EmptySeq
<1>2. TypeOK
  <2>1. habits \subseteq Habits
    BY CallbackAssumption DEF Habits
  <2> QED BY <2>1 DEF TypeOK, Holding, Reasons
<1>3. Started = {} /\ Running = {} /\ {k \in Callers : caller[k] \in Holding} = {}
  BY DEF Started, Running, Holding
<1>4. CountInv /\ PermitInv /\ ActiveInv
  <2>1. Cardinality({}) = 0
    BY FS_EmptySet
  <2>2. CountInv /\ ActiveInv
    BY <1>3, <2>1 DEF CountInv, ActiveInv
  <2>3. Permits = 0 /\ 0 <= Limit
    <3>1. abandoned = {}
      OBVIOUS
    <3>2. Permits = 0 + 0
      BY <1>3, <2>1, <3>1 DEF Permits
    <3> QED BY <1>0, <3>2
  <2> QED BY <2>2, <2>3 DEF PermitInv
<1>5. CallerInv
  BY <1>0 DEF CallerInv, CallerOk, Unsent
<1>6. OrderInv /\ AnswerInv /\ ResponseInv
  BY DEF OrderInv, AnswerInv, ResponseInv, Frontier
<1>7. \A id \in CallIds : ~InFlight(id)
  BY DEF InFlight, Asked, Served, Replied
<1>8. ExpectInv
  BY <1>7 DEF ExpectInv, Unsent
<1>9. PatientInv /\ LateInv /\ FailInv
  BY DEF PatientInv, LateInv, FailInv, OnlyParentsDisagree, PatientSessionsLast
<1> QED BY <1>1, <1>2, <1>4, <1>5, <1>6, <1>8, <1>9 DEF IInv, TypeInv

----------------------------------------------------------------------------
(* Theorems *)

\* The inductive invariant holds in every reachable state of the two sides.
THEOREM Invariance == Spec => []IInv
<1>1. IInv /\ [Next]_vars => IInv'
  <2> SUFFICES ASSUME IInv, [Next]_vars PROVE IInv'
    OBVIOUS
  <2> QED BY TypeStep, CountStep, CallerStep, OrderStep, AnswerStep, ExpectStep, PermitStep,
         ActiveStep, ResponseStep, PatientStep, LateStep, FailStep DEF IInv
<1> QED BY <1>1, InitIInv, PTL DEF Spec

\* Tables, counters and queues of both sides keep to their types.
THEOREM TypeCorrect == Spec => []TypeOK
<1>1. IInv => TypeOK
  BY DEF IInv, TypeInv
<1> QED BY <1>1, Invariance, PTL

\* Whatever limits are negotiated and however many callbacks are made, the
\* client sees them in order and within its limit, and every answer and every
\* response is expected where it arrives: a session is closed over a parent
\* that has ended or over a deadline that came out late, and nothing else.
THEOREM SidesAgree == Spec => []OnlyParentsDisagree
<1>1. IInv => OnlyParentsDisagree
  BY DEF IInv, FailInv
<1> QED BY <1>1, Invariance, PTL

\* The session of a handler that makes its own callbacks and a client that
\* waits for its responses is closed over nothing but a deadline that came out
\* late, so not at all if the clocks stand still while it is derived.
THEOREM PatientSessions == Spec => []PatientSessionsLast
<1>1. IInv => PatientSessionsLast
  BY DEF IInv, FailInv
<1> QED BY <1>1, Invariance, PTL

\* A slot the client counts is covered by a permit of the endpoint.
THEOREM SlotsOwnPermits == Spec => []ActiveOwnPermits
<1>1. IInv => ActiveOwnPermits
  <2> SUFFICES ASSUME IInv, NEW id \in CallIds, callback[id] \in {"running", "panicked"}
               PROVE  \/ id \in abandoned
                      \/ \E k \in Callers : callId[k] = id /\ caller[k] = "queued"
    BY DEF ActiveOwnPermits
  <2>1. InFlight(id)
    BY DEF InFlight, Served
  <2> QED BY <2>1, QueuedOrMarked
<1> QED BY <1>1, Invariance, PTL

\* The permit of an abandoned callback comes back unless the session ends or
\* the client's handler panics.
THEOREM MarkersAreTemporary == Spec => []MarkersAwaitAnswers
<1>1. IInv => MarkersAwaitAnswers
  <2> SUFFICES ASSUME IInv, failed = "no", NEW id \in abandoned
               PROVE  InFlight(id)
    BY DEF MarkersAwaitAnswers, InFlight, Asked, Served, Replied, IsCallback, IsAnswer
  <2> QED BY DEF IInv, ExpectInv
<1> QED BY <1>1, Invariance, PTL

----------------------------------------------------------------------------
(***************************************************************************)
(* The deadlines of callbacks: theorems about Deadline, for every length   *)
(* of a millisecond, horizon and clock.  A request is never served beyond  *)
(* the horizon, and the two roundings never make a promptly derived        *)
(* deadline of a callback later than the one it is derived from.           *)
(***************************************************************************)
USE DeadlineAssumption

----------------------------------------------------------------------------
(* Rounding *)

\* Ms rounds down: a time is its milliseconds and less than one more.
LEMMA MsRoundsDown ==
  ASSUME NEW t \in Nat
  PROVE  Ms(t) \in Nat /\ Ticks(Ms(t)) <= t /\ t < Ticks(Ms(t) + 1)
BY DEF Ms, Ticks

\* Whole milliseconds are additive and keep the order.
LEMMA TicksAdds ==
  ASSUME NEW a \in Nat, NEW b \in Nat
  PROVE  Ticks(a) \in Nat /\ Ticks(a + b) = Ticks(a) + Ticks(b)
BY DEF Ticks

\* A strict order of milliseconds is one of ticks.
LEMMA TicksOrders ==
  ASSUME NEW a \in Nat, NEW b \in Nat, Ticks(a) < Ticks(b)
  PROVE  a < b
BY DEF Ticks

\* Two times that together end within millisecond w, each rounded down, sum
\* to w at most.
LEMMA RoundedSum ==
  ASSUME NEW a \in Nat, NEW b \in Nat, NEW w \in Nat,
         a + b < Ticks(w + 1)
  PROVE  Ms(a) + Ms(b) <= w
<1>1. Ms(a) \in Nat /\ Ticks(Ms(a)) <= a
  BY MsRoundsDown
<1>2. Ms(b) \in Nat /\ Ticks(Ms(b)) <= b
  BY MsRoundsDown
<1>3. /\ Ticks(Ms(a) + Ms(b)) = Ticks(Ms(a)) + Ticks(Ms(b))
      /\ Ticks(Ms(a)) \in Nat
      /\ Ticks(Ms(b)) \in Nat /\ Ticks(w + 1) \in Nat
  BY <1>1, <1>2, TicksAdds
<1>4. Ticks(Ms(a) + Ms(b)) < Ticks(w + 1)
  BY <1>1, <1>2, <1>3
<1>5. Ms(a) + Ms(b) < w + 1
  BY <1>1, <1>2, <1>4, TicksOrders
<1> QED
  BY <1>1, <1>2, <1>5

\* What a wire deadline leaves, counted from a moment of the wall clock, ends
\* within the millisecond of the deadline.
LEMMA RemainingEndsInTime ==
  ASSUME NEW now \in Nat, NEW ms \in Nat
  PROVE  LET d == DurationUntilUnixMs(now, ms)
         IN  /\ d \in Nat /\ d <= Ticks(Horizon)
             /\ d = 0 \/ d + now < Ticks(ms + 1)
<1> DEFINE left == Minus(ms, Ms(now))
<1>1. Ms(now) \in Nat /\ now < Ticks(Ms(now) + 1)
  BY MsRoundsDown
<1>2. left \in Nat /\ Ticks(left) \in Nat /\ Ticks(Horizon) \in Nat
  <2>1. left \in Nat
    BY <1>1 DEF Minus
  <2>2. Horizon \in Nat
    OBVIOUS
  <2> HIDE DEF left
  <2> QED
    BY <2>1, <2>2, TicksAdds
<1>3. CASE ms >= Ms(now)
  <2>1. Ticks(left + (Ms(now) + 1)) = Ticks(left) + Ticks(Ms(now) + 1)
        /\ Ticks(Ms(now) + 1) \in Nat
    BY <1>1, <1>2, TicksAdds
  <2>2. left + (Ms(now) + 1) = ms + 1
    BY <1>1, <1>3 DEF Minus
  <2> QED
    BY <1>1, <1>2, <2>1, <2>2 DEF DurationUntilUnixMs, Least
<1>4. CASE ms < Ms(now)
  <2>1. left = 0
    BY <1>1, <1>4 DEF Minus
  <2>2. Ticks(left) = 0
    BY <2>1 DEF Ticks
  <2> QED
    BY <1>2, <2>2 DEF DurationUntilUnixMs, Least
<1> QED
  BY <1>1, <1>3, <1>4

----------------------------------------------------------------------------
(* The invariants *)

\* Every variable of a conversion keeps to its domain.
LEMMA ClockTypeStep == DeadlineTypeOK /\ [DeadlineNext]_deadlineVars => DeadlineTypeOK'
<1> SUFFICES ASSUME DeadlineTypeOK, [DeadlineNext]_deadlineVars PROVE DeadlineTypeOK'
  OBVIOUS
<1> USE DEF DeadlineTypeOK, deadlineVars
<1>1. CASE Tick
  BY <1>1 DEF Tick
<1>2. CASE Adjust
  BY <1>2 DEF Adjust
<1>3. CASE ReceiveReadsInstant
  BY <1>3 DEF ReceiveReadsInstant
<1>4. CASE ReceiveReadsWall
  <2>1. DurationUntilUnixMs(wall, wire) \in Nat
    BY RemainingEndsInTime
  <2> QED
    BY <1>4, <2>1 DEF ReceiveReadsWall
<1>5. CASE Accept
  BY <1>5 DEF Accept
<1>6. CASE DeriveReadsInstant
  BY <1>6 DEF DeriveReadsInstant, Minus
<1>7. CASE DeriveReadsWall
  <2>1. UnixMsAfter(wall, read) \in 0 .. MaxWire
    BY MsRoundsDown DEF UnixMsAfter, Least
  <2> QED
    BY <1>7, <2>1 DEF DeriveReadsWall
<1>8. CASE DeriveClamps
  <2>1. Ticks(Horizon) \in Nat
    BY TicksAdds
  <2>2. UnixMsAfter(wall, Ticks(Horizon)) \in 0 .. MaxWire
    BY <2>1, MsRoundsDown DEF UnixMsAfter, Least
  <2> QED
    BY <1>8, <2>2 DEF DeriveClamps, ClampUnixMs, Least
<1>9. CASE CallbackSent
  BY <1>9 DEF CallbackSent
<1>10. CASE CallbackExpires
  BY <1>10 DEF CallbackExpires
<1>11. CASE UNCHANGED deadlineVars
  BY <1>11
<1> QED
  BY <1>1, <1>2, <1>3, <1>4, <1>5, <1>6, <1>7, <1>8, <1>9, <1>10, <1>11 DEF DeadlineNext, DeadlineOver

\* The horizon bounds a deadline from the reading of the monotonic clock that
\* it was counted from, and that clock only goes forward.
HorizonInv ==
  /\ step = "receiving" => read <= mono
  /\ step \in {"received", "serving"} => deadline <= mono + Ticks(Horizon)

\* Where the deadline stands in each step of prompt conversions.  The slack of
\* the two roundings is one millisecond, and it is spent once: what is left of
\* the deadline, counted from the wall clock's present reading, ends before
\* the millisecond after the one on the wire.
PromptInv ==
  ~delayed /\ ~adjusted =>
    /\ step = "receiving" => read = mono
    /\ step = "received" => deadline <= mono \/ deadline + wall < mono + Ticks(wire + 1)
    /\ step = "serving" => deadline + wall < mono + Ticks(wire + 1)
    /\ step = "deriving" => read + wall < Ticks(wire + 1)
    /\ step \in {"clamping", "sending", "sent"} => derived <= wire

ClockInv == DeadlineTypeOK /\ HorizonInv /\ PromptInv

\* The clocks are at their start and no conversion has begun.
LEMMA ClockInit == DeadlineInit => ClockInv
<1> SUFFICES ASSUME DeadlineInit PROVE ClockInv
  OBVIOUS
<1>1. DeadlineTypeOK
  <2>1. wall \in Nat
    BY DEF DeadlineInit
  <2>2. 0 \in 0 .. MaxWire
    OBVIOUS
  <2>3. /\ mono = 0 /\ read = 0 /\ deadline = 0 /\ derived = 0 /\ step = "written"
        /\ wire \in 0 .. MaxWire /\ delayed = FALSE /\ adjusted = FALSE
    BY DEF DeadlineInit
  <2> QED
    BY <2>1, <2>2, <2>3 DEF DeadlineTypeOK
<1> QED
  BY <1>1 DEF DeadlineInit, ClockInv, HorizonInv, PromptInv

\* No step, the setting of the wall clock included, moves a deadline beyond
\* the horizon.
LEMMA HorizonStep == DeadlineTypeOK /\ HorizonInv /\ [DeadlineNext]_deadlineVars => HorizonInv'
<1> SUFFICES ASSUME DeadlineTypeOK, HorizonInv, [DeadlineNext]_deadlineVars PROVE HorizonInv'
  OBVIOUS
<1>h. Ticks(Horizon) \in Nat /\ MaxWire \in Nat
  BY TicksAdds
<1> USE DEF DeadlineTypeOK, HorizonInv, deadlineVars
<1>1. CASE Tick
  BY <1>1, <1>h DEF Tick
<1>2. CASE Adjust
  BY <1>2 DEF Adjust
<1>3. CASE ReceiveReadsInstant
  BY <1>3 DEF ReceiveReadsInstant
<1>4. CASE ReceiveReadsWall
  <2>1. DurationUntilUnixMs(wall, wire) \in Nat
        /\ DurationUntilUnixMs(wall, wire) <= Ticks(Horizon)
    <3>1. wall \in Nat /\ wire \in Nat
      BY <1>h
    <3> HIDE DEF DeadlineTypeOK, HorizonInv
    <3> QED
      BY <3>1, RemainingEndsInTime
  <2> QED
    BY <1>4, <1>h, <2>1 DEF ReceiveReadsWall
<1>5. CASE Accept
  BY <1>5 DEF Accept
<1>6. CASE DeriveReadsInstant
  BY <1>6 DEF DeriveReadsInstant
<1>7. CASE DeriveReadsWall
  BY <1>7 DEF DeriveReadsWall
<1>8. CASE DeriveClamps
  BY <1>8 DEF DeriveClamps
<1>9. CASE CallbackSent
  BY <1>9 DEF CallbackSent
<1>10. CASE CallbackExpires
  BY <1>10 DEF CallbackExpires
<1>11. CASE UNCHANGED deadlineVars
  BY <1>11
<1> QED
  BY <1>1, <1>2, <1>3, <1>4, <1>5, <1>6, <1>7, <1>8, <1>9, <1>10, <1>11 DEF DeadlineNext, DeadlineOver

\* A prompt conversion never spends more than the millisecond of slack.
LEMMA PromptStep == DeadlineTypeOK /\ PromptInv /\ [DeadlineNext]_deadlineVars => PromptInv'
<1> SUFFICES ASSUME DeadlineTypeOK, PromptInv, [DeadlineNext]_deadlineVars, ~delayed', ~adjusted'
             PROVE  PromptInv'
  BY DEF PromptInv
<1>w. wire \in Nat /\ MaxWire \in Nat /\ Ticks(wire + 1) \in Nat
  <2>1. wire \in Nat /\ MaxWire \in Nat /\ wire + 1 \in Nat
    BY DEF DeadlineTypeOK
  <2> QED
    BY <2>1, TicksAdds
<1> USE DEF DeadlineTypeOK, PromptInv, deadlineVars
<1>1. CASE Tick
  <2>1. ~delayed /\ ~adjusted /\ step \notin {"receiving", "deriving"}
    BY <1>1 DEF Tick, BetweenReadings
  <2> QED
    BY <1>1, <1>w, <2>1 DEF Tick
<1>2. CASE Adjust
  BY <1>2 DEF Adjust
<1>3. CASE ReceiveReadsInstant
  BY <1>3 DEF ReceiveReadsInstant
<1>4. CASE ReceiveReadsWall
  <2> DEFINE d == DurationUntilUnixMs(wall, wire)
  <2>1. d \in Nat /\ (d = 0 \/ d + wall < Ticks(wire + 1))
    <3>1. wall \in Nat
      OBVIOUS
    <3> HIDE DEF DeadlineTypeOK, PromptInv
    <3> QED
      BY <1>w, <3>1, RemainingEndsInTime
  <2>2. step' = "received" /\ deadline' = mono + d /\ mono' = mono /\ wall' = wall
        /\ wire' = wire
    BY <1>4 DEF ReceiveReadsWall
  <2> HIDE DEF d
  <2>3. deadline' <= mono' \/ deadline' + wall' < mono' + Ticks(wire' + 1)
    BY <1>w, <2>1, <2>2
  <2> QED
    BY <2>2, <2>3
<1>5. CASE Accept
  BY <1>5, <1>w DEF Accept
<1>6. CASE DeriveReadsInstant
  <2>1. ~delayed /\ ~adjusted /\ ~(mono > deadline) /\ step = "serving"
    BY <1>6 DEF DeriveReadsInstant
  <2>2. deadline + wall < mono + Ticks(wire + 1)
    BY <2>1
  <2>3. /\ read' = deadline - mono /\ step' = "deriving"
        /\ wall' = wall /\ wire' = wire
    BY <1>6, <2>1 DEF DeriveReadsInstant, Minus
  <2>4. read' + wall' < Ticks(wire' + 1)
    BY <1>w, <2>2, <2>3
  <2> QED
    BY <2>3, <2>4
<1>7. CASE DeriveReadsWall
  <2>1. read + wall < Ticks(wire + 1)
    BY <1>7 DEF DeriveReadsWall
  <2>2. Ms(wall) + Ms(read) <= wire /\ Ms(wall) \in Nat /\ Ms(read) \in Nat
    <3>1. wall \in Nat /\ read \in Nat /\ wall + read < Ticks(wire + 1)
      BY <1>w, <2>1
    <3> HIDE DEF DeadlineTypeOK, PromptInv
    <3> QED
      BY <1>w, <3>1, RoundedSum, MsRoundsDown
  <2>3. UnixMsAfter(wall, read) <= wire
    BY <1>w, <2>2 DEF UnixMsAfter, Least
  <2> QED
    BY <1>7, <2>3 DEF DeriveReadsWall
<1>8. CASE DeriveClamps
  <2>1. Ticks(Horizon) \in Nat
    BY TicksAdds
  <2>2. Ms(wall) \in Nat /\ Ms(Ticks(Horizon)) \in Nat
    BY <2>1, MsRoundsDown
  <2>3. ClampUnixMs(wall, derived) <= derived
    BY <1>w, <2>2 DEF ClampUnixMs, UnixMsAfter, Least
  <2>4. ClampUnixMs(wall, derived) \in Nat
    BY <1>w, <2>2 DEF ClampUnixMs, UnixMsAfter, Least
  <2> QED
    BY <1>8, <1>w, <2>3, <2>4 DEF DeriveClamps
<1>9. CASE CallbackSent
  BY <1>9 DEF CallbackSent
<1>10. CASE CallbackExpires
  BY <1>10 DEF CallbackExpires
<1>11. CASE UNCHANGED deadlineVars
  BY <1>11
<1> QED
  BY <1>1, <1>2, <1>3, <1>4, <1>5, <1>6, <1>7, <1>8, <1>9, <1>10, <1>11 DEF DeadlineNext, DeadlineOver

\* The inductive invariant holds throughout.
THEOREM ClockInvariance == DeadlineSpec => []ClockInv
<1>1. ClockInv /\ [DeadlineNext]_deadlineVars => ClockInv'
  BY ClockTypeStep, HorizonStep, PromptStep DEF ClockInv
<1> QED
  BY <1>1, ClockInit, PTL DEF DeadlineSpec

\* Every reading, instant and wire deadline stays in its domain: no conversion
\* of deadline.rs leaves the integers that the wire can carry.
THEOREM ClockTypeCorrect == DeadlineSpec => []DeadlineTypeOK
<1>1. ClockInv => DeadlineTypeOK
  BY DEF ClockInv
<1> QED
  BY <1>1, ClockInvariance, PTL

\* No request is served for longer than MAX_DEADLINE_HORIZON, whatever its
\* peer wrote and however the wall clock is set.
THEOREM HorizonIsKept == DeadlineSpec => []HorizonHolds
<1>1. ClockInv => HorizonHolds
  BY DEF ClockInv, HorizonInv, HorizonHolds
<1> QED
  BY <1>1, ClockInvariance, PTL

\* A callback derived promptly never outlives its parent request, for every
\* resolution of the clocks.
THEOREM PromptDerivation == DeadlineSpec => []PromptlyDerivedIsNotLater
<1>1. ClockInv => PromptlyDerivedIsNotLater
  BY DEF ClockInv, PromptInv, PromptlyDerivedIsNotLater
<1> QED
  BY <1>1, ClockInvariance, PTL

----------------------------------------------------------------------------
(***************************************************************************)
(* The application behind the session: theorems about ResolverLeases, for  *)
(* every number of calls, leases and supporting files.  The invariants     *)
(* follow where each call is: which table and which file it may have left  *)
(* something in at that point.                                             *)
(***************************************************************************)
HIDE DeadlineAssumption
USE ResolverAssumption

HandlerPoints == {"get", "release", "other", "persisted", "retained", "registered", "full"}
ReportPoints == {"tookLease", "tookFiles"}

\* Where a call is, and what has been said about it.
PhaseInv(id) ==
  /\ at[id] \in HandlerPoints => phase[id] = "handling"
  /\ at[id] \in ReportPoints => phase[id] = "reporting"
  /\ report[id] # "none" <=> phase[id] \in {"reporting", "finished"}
  /\ id \in delivered /\ report[id] = "uncommitted" => broken

\* What a call has left in the tables and on disk at each point.
LeaseInv(id) ==
  /\ phase[id] = "idle" => id \notin leases \cup files \cup pendingLeases \cup given
  /\ phase[id] = "handling" => id \notin given \cup pendingLeases
  /\ at[id] \in {"get", "release", "other", "full"} => id \notin leases \cup files
  /\ at[id] \in {"persisted", "retained"} => id \in files \ leases
  /\ at[id] = "registered" => id \in files \cap leases
  /\ phase[id] \in {"returned", "reporting"} /\ id \in leases \cup files
       => id \in leases /\ id \in pendingLeases \cup hadLease
  /\ phase[id] = "finished" /\ report[id] = "uncommitted" => id \notin leases \cup files

\* Nothing is pending for a call that is over.
PendingInv(id) ==
  /\ id \in pendingLeases => at[id] = "none" /\ phase[id] # "finished"
  /\ pendingFiles[id] # 0 => at[id] # "tookFiles" /\ phase[id] # "finished"

\* A path that was given out leads to a registered file, unless the client let
\* it go, the session is over, or the call's report took it back.
GivenInv(id) ==
  id \in given => \/ id \in files \cap leases
                  \/ id \in letGo
                  \/ released
                  \/ phase[id] = "finished" /\ report[id] = "uncommitted"

CallInv(id) == PhaseInv(id) /\ LeaseInv(id) /\ PendingInv(id) /\ GivenInv(id)

\* Nothing runs after shutdown().
ReleasedInv ==
  released => /\ closing
              /\ \A id \in Ids : phase[id] \notin Open
              /\ leases = {} /\ pendingLeases = {} /\ files = {}
              /\ supporting = 0 /\ \A id \in Ids : pendingFiles[id] = 0

\* After a crash there is only the session directory.
CrashedInv ==
  crashed => given = {} /\ \A id \in Ids : phase[id] = "lost" /\ at[id] = "none"

LeasesInv == LeasesTypeOK /\ ReleasedInv /\ CrashedInv /\ \A id \in Ids : CallInv(id)

----------------------------------------------------------------------------
\* What the end of a handler does to its call, and to no other.
LEMMA HandlerEndsMoves ==
  ASSUME LeasesTypeOK, NEW id \in Ids, HandlerEnds(id)
  PROVE  /\ at' = [at EXCEPT ![id] = "none"]
         /\ phase[id] \in {"handling", "returned"}
         /\ \/ /\ phase' = [phase EXCEPT ![id] = "returned"]
               /\ UNCHANGED <<report, broken>>
            \/ /\ phase' = [phase EXCEPT ![id] = "reporting"]
               /\ report' = [report EXCEPT ![id] = "uncommitted"]
               /\ id \notin delivered /\ broken' \in {broken, TRUE}
         /\ UNCHANGED <<delivered, cancelled, closing, released>>
  BY DEF HandlerEnds, Return, Discard, Move, At

\* Its effect on the types.
LEMMA HandlerEndsTyped ==
  ASSUME LeasesTypeOK, NEW id \in Ids, HandlerEnds(id)
  PROVE  /\ phase' \in [Ids -> Phases] /\ report' \in [Ids -> Reports]
         /\ at' \in [Ids -> Points]
         /\ broken' \in BOOLEAN /\ UNCHANGED <<delivered, cancelled, closing, released>>
         /\ \A c \in Ids : at'[c] # "none" => phase'[c] \in Open
         /\ \A c \in Ids : phase'[c] = "handling" => at'[c] # "none"
<1>1. /\ phase \in [Ids -> Phases] /\ report \in [Ids -> Reports]
      /\ at \in [Ids -> Points]
      /\ broken \in BOOLEAN
      /\ \A c \in Ids : at[c] # "none" => phase[c] \in Open
      /\ \A c \in Ids : phase[c] = "handling" => at[c] # "none"
  BY DEF LeasesTypeOK
<1>2. {"returned", "reporting"} \subseteq Phases /\ "uncommitted" \in Reports
      /\ "none" \in Points
  BY DEF Phases, Open, Reports, Points
<1>3. PICK p \in {"returned", "reporting"} : phase' = [phase EXCEPT ![id] = p]
  BY HandlerEndsMoves
<1>4. at' = [at EXCEPT ![id] = "none"] /\ UNCHANGED <<delivered, cancelled, closing, released>>
      /\ broken' \in {broken, TRUE}
      /\ (report' = report \/ report' = [report EXCEPT ![id] = "uncommitted"])
  BY HandlerEndsMoves
<1>5. phase' \in [Ids -> Phases] /\ at' \in [Ids -> Points]
  BY <1>1, <1>2, <1>3, <1>4
<1>6. report' \in [Ids -> Reports] /\ broken' \in BOOLEAN
  BY <1>1, <1>2, <1>4
<1>7. \A c \in Ids : at'[c] # "none" => phase'[c] \in Open
  BY <1>1, <1>3, <1>4
<1>8. \A c \in Ids : phase'[c] = "handling" => at'[c] # "none"
  BY <1>1, <1>3, <1>4
<1> QED BY <1>4, <1>5, <1>6, <1>7, <1>8

\* Every table and every count keeps to its domain, and a handler that runs is
\* at one of its suspension points.
LEMMA LeaseTypeStep == LeasesTypeOK /\ [LeasesNext]_leasesVars => LeasesTypeOK'
<1> SUFFICES ASSUME LeasesTypeOK, [LeasesNext]_leasesVars PROVE LeasesTypeOK'
  OBVIOUS
<1> USE DEF LeasesTypeOK, leasesVars, contractVars, stateVars,
   localVars, Open
<1>1. ASSUME NEW id \in Ids, Call(id) PROVE LeasesTypeOK'
  BY <1>1 DEF Call, Start, Move, At, Phases, Reports,
     Points
<1>2. ASSUME NEW id \in Ids, EndsWithoutFiles(id) PROVE LeasesTypeOK'
  BY <1>2, HandlerEndsTyped DEF EndsWithoutFiles
<1>3. ASSUME NEW id \in Ids, GetValue(id) PROVE LeasesTypeOK'
  BY <1>3, HandlerEndsTyped DEF GetValue, Retain
<1>4. ASSUME NEW id \in Ids, GetPersists(id) PROVE LeasesTypeOK'
  BY <1>4 DEF GetPersists, At, Phases, Reports, Points
<1>5. ASSUME NEW id \in Ids, GetRetains(id) PROVE LeasesTypeOK'
  BY <1>5 DEF GetRetains, Retain, At, Phases, Reports,
     Points
<1>6. ASSUME NEW id \in Ids, GetCannotRetain(id) PROVE LeasesTypeOK'
  BY <1>6, HandlerEndsTyped DEF GetCannotRetain
<1>7. ASSUME NEW id \in Ids, GetRegisters(id) PROVE LeasesTypeOK'
  BY <1>7 DEF GetRegisters, At, Phases, Reports, Points
<1>8. ASSUME NEW id \in Ids, GetTableFull(id) PROVE LeasesTypeOK'
  BY <1>8 DEF GetTableFull, At, Phases, Reports, Points
<1>9. ASSUME NEW id \in Ids, GetDropsFiles(id) PROVE LeasesTypeOK'
  BY <1>9, HandlerEndsTyped DEF GetDropsFiles, Retain
<1>10. ASSUME NEW id \in Ids, GetPath(id) PROVE LeasesTypeOK'
  BY <1>10, HandlerEndsTyped DEF GetPath
<1>11. ASSUME NEW id \in Ids, ReleaseLeases(id) PROVE LeasesTypeOK'
  BY <1>11, HandlerEndsTyped DEF ReleaseLeases
<1>12. ASSUME NEW id \in Ids, ReportTakesLease(id) PROVE LeasesTypeOK'
  BY <1>12 DEF ReportTakesLease, At, Phases, Reports, Points
<1>13. ASSUME NEW id \in Ids, ReportTakesFiles(id) PROVE LeasesTypeOK'
  BY <1>13 DEF ReportTakesFiles, Retain, At, Phases,
     Reports, Points
<1>14. ASSUME NEW id \in Ids, ReportEnds(id) PROVE LeasesTypeOK'
  BY <1>14 DEF ReportEnds, Finish, Move, At, Phases,
     Reports, Points
<1>15. ASSUME NEW id \in Ids, CallLost(id) PROVE LeasesTypeOK'
  BY <1>15 DEF CallLost, Lose, Move, At, Phases,
     Reports, Points
<1>16. CASE Session
  BY <1>16 DEF Session, Cancel, Deliver, Confirm, Discard,
     Break, Close, Move,
     Phases, Reports
<1>17. CASE ShutDown
  BY <1>17 DEF ShutDown, Release, Emptied
<1>18. CASE Crash
  BY <1>18 DEF Crash, Emptied, Phases, Reports, Points
<1>19. CASE Sweep \/ Over \/ UNCHANGED leasesVars
  BY <1>19 DEF Sweep, Over
<1> QED
  BY <1>1, <1>2, <1>3, <1>4, <1>5, <1>6, <1>7, <1>8, <1>9, <1>10, <1>11, <1>12,
     <1>13, <1>14, <1>15, <1>16, <1>17, <1>18, <1>19
  DEF LeasesNext, Get, Report

\* Every step leaves each call with what its point allows.
LEMMA LeaseCallStep ==
  ASSUME LeasesInv, [LeasesNext]_leasesVars
  PROVE  \A c \in Ids : CallInv(c)'
<1> TAKE c \in Ids
<1>0. LeasesTypeOK /\ CallInv(c) /\ ReleasedInv /\ CrashedInv
  BY DEF LeasesInv
<1>e. ASSUME NEW id \in Ids, HandlerEnds(id)
      PROVE  /\ at'[id] = "none" /\ phase[id] \in {"handling", "returned"}
             /\ \/ phase'[id] = "returned" /\ report'[id] = report[id]
                \/ phase'[id] = "reporting" /\ report'[id] = "uncommitted" /\ id \notin delivered
             /\ c # id => at'[c] = at[c] /\ phase'[c] = phase[c] /\ report'[c] = report[c]
             /\ broken => broken'
             /\ UNCHANGED <<delivered, released>>
  <2>1. phase \in [Ids -> Phases] /\ report \in [Ids -> Reports]
        /\ at \in [Ids -> Points]
    BY <1>0 DEF LeasesTypeOK
  <2>2. at'[id] = "none" /\ (c # id => at'[c] = at[c])
        /\ phase[id] \in {"handling", "returned"} /\ UNCHANGED <<delivered, released>>
    <3>1. /\ at' = [at EXCEPT ![id] = "none"]
          /\ phase[id] \in {"handling", "returned"} /\ UNCHANGED <<delivered, released>>
      BY <1>0, <1>e, HandlerEndsMoves
    <3> QED BY <2>1, <3>1
  <2>3. CASE phase' = [phase EXCEPT ![id] = "returned"] /\ UNCHANGED <<report, broken>>
    BY <2>1, <2>2, <2>3
  <2>4. CASE /\ phase' = [phase EXCEPT ![id] = "reporting"]
             /\ report' = [report EXCEPT ![id] = "uncommitted"]
             /\ id \notin delivered /\ broken' \in {broken, TRUE}
    <3>1. /\ phase'[id] = "reporting" /\ report'[id] = "uncommitted"
          /\ c # id => phase'[c] = phase[c] /\ report'[c] = report[c]
      BY <2>1, <2>4
    <3>2. broken => broken'
      BY <2>4
    <3> QED BY <2>2, <2>4, <3>1, <3>2
  <2>5. \/ phase' = [phase EXCEPT ![id] = "returned"] /\ UNCHANGED <<report, broken>>
        \/ /\ phase' = [phase EXCEPT ![id] = "reporting"]
           /\ report' = [report EXCEPT ![id] = "uncommitted"]
           /\ id \notin delivered /\ broken' \in {broken, TRUE}
    BY <1>0, <1>e, HandlerEndsMoves
  <2> QED BY <2>3, <2>4, <2>5
<1> USE <1>0 DEF LeasesTypeOK, CallInv, PhaseInv, LeaseInv, PendingInv, GivenInv, HandlerPoints,
        ReportPoints, leasesVars, contractVars, stateVars, localVars
<1>1. ASSUME NEW id \in Ids, Call(id) PROVE CallInv(c)'
  BY <1>1 DEF Call, Start, Move, At
<1>2. ASSUME NEW id \in Ids, EndsWithoutFiles(id) PROVE CallInv(c)'
  BY <1>2, <1>e DEF EndsWithoutFiles
<1>3. ASSUME NEW id \in Ids, GetValue(id) PROVE CallInv(c)'
  BY <1>3, <1>e DEF GetValue, Retain
<1>4. ASSUME NEW id \in Ids, GetPersists(id) PROVE CallInv(c)'
  BY <1>4 DEF GetPersists, At
<1>5. ASSUME NEW id \in Ids, GetRetains(id) PROVE CallInv(c)'
  BY <1>5 DEF GetRetains, Retain, At
<1>6. ASSUME NEW id \in Ids, GetCannotRetain(id) PROVE CallInv(c)'
  BY <1>6, <1>e DEF GetCannotRetain
<1>7. ASSUME NEW id \in Ids, GetRegisters(id) PROVE CallInv(c)'
  BY <1>7 DEF GetRegisters, At
<1>8. ASSUME NEW id \in Ids, GetTableFull(id) PROVE CallInv(c)'
  BY <1>8 DEF GetTableFull, At
<1>9. ASSUME NEW id \in Ids, GetDropsFiles(id) PROVE CallInv(c)'
  BY <1>9, <1>e DEF GetDropsFiles, Retain
<1>10. ASSUME NEW id \in Ids, GetPath(id) PROVE CallInv(c)'
  BY <1>10, <1>e DEF GetPath
<1>11. ASSUME NEW id \in Ids, ReleaseLeases(id) PROVE CallInv(c)'
  BY <1>11, <1>e DEF ReleaseLeases
<1>12. ASSUME NEW id \in Ids, ReportTakesLease(id) PROVE CallInv(c)'
  BY <1>12 DEF ReportTakesLease, At
<1>13. ASSUME NEW id \in Ids, ReportTakesFiles(id) PROVE CallInv(c)'
  BY <1>13 DEF ReportTakesFiles, Retain, At
<1>14. ASSUME NEW id \in Ids, ReportEnds(id) PROVE CallInv(c)'
  <2>1. /\ at[id] = "tookFiles" /\ at'[id] = "none" /\ phase'[id] = "finished" /\ report' = report
        /\ phase[id] = "reporting"
        /\ c # id => at'[c] = at[c] /\ phase'[c] = phase[c]
        /\ UNCHANGED <<delivered, broken, released, pendingLeases, pendingFiles, given, letGo>>
    BY <1>14 DEF ReportEnds, Finish, Move, At
  <2>2. /\ \/ report[id] = "committed" /\ UNCHANGED <<leases, files>>
           \/ /\ report[id] # "committed"
              /\ leases' = leases \ (hadLease \cap {id})
              /\ files' = files \ (hadLease \cap leases \cap {id})
        /\ c # id => (c \in hadLease' <=> c \in hadLease)
    BY <1>14 DEF ReportEnds
  <2>3. CASE c = id
    BY <2>1, <2>2, <2>3 DEF Reports
  <2>4. CASE c # id
    BY <2>1, <2>2, <2>4
  <2> QED BY <2>3, <2>4
<1>15. ASSUME NEW id \in Ids, CallLost(id) PROVE CallInv(c)'
  <2>1. /\ at'[id] = "none" /\ phase'[id] = "lost" /\ report'[id] = "none"
        /\ phase[id] \in Open
        /\ c # id => at'[c] = at[c] /\ phase'[c] = phase[c] /\ report'[c] = report[c]
                    /\ (c \in hadLease' <=> c \in hadLease)
        /\ UNCHANGED <<stateVars, delivered, broken, released, files, given, letGo>>
    <3>1. phase \in [Ids -> Phases] /\ report \in [Ids -> Reports]
          /\ at \in [Ids -> Points]
      OBVIOUS
    <3> HIDE <1>0 DEF LeasesTypeOK, CallInv
    <3>2. /\ at' = [at EXCEPT ![id] = "none"] /\ phase[id] \in Open
          /\ phase' = [phase EXCEPT ![id] = "lost"] /\ report' = [report EXCEPT ![id] = "none"]
          /\ hadLease' = hadLease \ {id}
          /\ UNCHANGED <<stateVars, delivered, broken, released, files, given, letGo>>
      BY <1>15 DEF CallLost, Lose, Move, At, Open
    <3> QED BY <3>1, <3>2
  <2>2. CASE c = id
    BY <2>1, <2>2 DEF Open
  <2>3. CASE c # id
    BY <2>1, <2>3
  <2> QED BY <2>2, <2>3
<1>16. CASE Session
  <2>1. UNCHANGED <<stateVars, localVars, files, given, letGo>>
    BY <1>16 DEF Session
  <2>2. CASE Break \/ Close
    BY <2>1, <2>2 DEF Break, Close
  <2>3. ASSUME NEW id \in Ids, Cancel(id) \/ Deliver(id) PROVE CallInv(c)'
    BY <2>1, <2>3 DEF Cancel, Deliver
  <2>4. ASSUME NEW id \in Ids, Confirm(id) PROVE CallInv(c)'
    BY <2>1, <2>4 DEF Confirm, Move
  <2>5. ASSUME NEW id \in Ids, phase[id] = "returned", Discard(id) PROVE CallInv(c)'
    <3>1. /\ phase'[id] = "reporting" /\ report'[id] = "uncommitted" /\ id \notin delivered
          /\ c # id => phase'[c] = phase[c] /\ report'[c] = report[c]
          /\ UNCHANGED <<delivered, released>> /\ (broken => broken')
      <4>1. phase \in [Ids -> Phases] /\ report \in [Ids -> Reports]
        OBVIOUS
      <4> HIDE <1>0 DEF LeasesTypeOK, CallInv
      <4>2. /\ phase' = [phase EXCEPT ![id] = "reporting"]
            /\ report' = [report EXCEPT ![id] = "uncommitted"]
            /\ id \notin delivered /\ broken' \in {broken, TRUE}
            /\ UNCHANGED <<delivered, released>>
        BY <2>5 DEF Discard, Move
      <4>3. broken => broken'
        BY <4>2
      <4>4. /\ phase'[id] = "reporting" /\ report'[id] = "uncommitted"
            /\ c # id => phase'[c] = phase[c] /\ report'[c] = report[c]
        BY <4>1, <4>2
      <4> QED BY <4>2, <4>3, <4>4
    <3> QED BY <2>1, <2>5, <3>1
  <2> QED BY <1>16, <2>2, <2>3, <2>4, <2>5 DEF Session
<1>17. CASE ShutDown
  BY <1>17 DEF ShutDown, Release, Emptied, Open
<1>18. CASE Crash
  BY <1>18 DEF Crash, Emptied
<1>19. CASE Sweep
  BY <1>19 DEF Sweep, CrashedInv
<1>20. CASE Over \/ UNCHANGED leasesVars
  BY <1>20 DEF Over
<1> QED
  BY <1>1, <1>2, <1>3, <1>4, <1>5, <1>6, <1>7, <1>8, <1>9, <1>10, <1>11, <1>12,
     <1>13, <1>14, <1>15, <1>16, <1>17, <1>18, <1>19, <1>20
  DEF LeasesNext, Get, Report

\* A step of a handler or of a report needs a call that is open, and is over
\* when shutdown() runs: no late handler brings anything back.
LEMMA ReleasedStep ==
  ASSUME LeasesInv, [LeasesNext]_leasesVars
  PROVE  ReleasedInv'
<1>0. LeasesTypeOK /\ ReleasedInv /\ CrashedInv
  BY DEF LeasesInv
<1>1. CASE ~released
  <2>1. CASE ShutDown
    BY <2>1 DEF ShutDown, Release, Emptied, ReleasedInv
  <2>2. ASSUME ~ShutDown PROVE ~released'
    <3>1. ASSUME NEW id \in Ids, HandlerEnds(id) PROVE released' = released
      BY <1>0, <3>1, HandlerEndsMoves
    <3>2. ASSUME NEW id \in Ids, Get(id) \/ ReleaseLeases(id)
          PROVE  released' = released
      BY <3>1, <3>2 DEF Get, EndsWithoutFiles, GetValue,
         GetPersists, GetRetains,
         GetCannotRetain, GetRegisters, GetTableFull,
         GetDropsFiles, GetPath,
         ReleaseLeases, contractVars
    <3>3. ASSUME NEW id \in Ids, Call(id) \/ Report(id) \/ CallLost(id)
          PROVE  released' = released
      BY <3>3 DEF Call, Start, Report, ReportTakesLease,
         ReportTakesFiles, ReportEnds,
         Finish, CallLost, Lose, contractVars
    <3>4. Session => released' = released
      BY DEF Session, Cancel, Deliver, Confirm, Discard,
         Break, Close
    <3>5. Crash \/ Sweep \/ Over \/ UNCHANGED leasesVars
            => released' = released
      BY DEF Crash, Sweep, Over, leasesVars, contractVars
    <3> QED BY <1>1, <2>2, <3>2, <3>3, <3>4, <3>5 DEF LeasesNext
  <2> QED BY <2>1, <2>2 DEF ReleasedInv
<1>2. CASE released
  <2>0. /\ closing /\ \A id \in Ids : phase[id] \notin Open
        /\ leases = {} /\ pendingLeases = {} /\ files = {}
        /\ supporting = 0 /\ \A id \in Ids : pendingFiles[id] = 0
        /\ \A id \in Ids : at[id] = "none"
    BY <1>0, <1>2 DEF ReleasedInv, LeasesTypeOK
  <2>1. \A id \in Ids : ~(Get(id) \/ ReleaseLeases(id) \/ Report(id))
    BY <2>0 DEF Get, EndsWithoutFiles, GetValue, GetPersists,
       GetRetains, GetCannotRetain,
       GetRegisters, GetTableFull, GetDropsFiles, GetPath,
       ReleaseLeases, Report,
       ReportTakesLease, ReportTakesFiles, ReportEnds, Open
  <2>2. \A id \in Ids : ~(Call(id) \/ CallLost(id))
    BY <2>0 DEF Call, Start, CallLost, Lose, Open
  <2>3. ~ShutDown /\ ~Crash /\ ~Sweep
    BY <1>2, <2>0 DEF ShutDown, Crash, Sweep
  <2>4. CASE Session
    <3>1. closing' = closing /\ phase' = phase
      BY <2>0, <2>4 DEF Session, Cancel, Deliver, Confirm,
         Discard, Break, Close, Open
    <3> QED BY <2>0, <2>4, <3>1 DEF Session, stateVars, ReleasedInv
  <2>5. CASE Over \/ UNCHANGED leasesVars
    BY <2>0, <2>5 DEF Over, leasesVars, contractVars, stateVars, ReleasedInv
  <2> QED BY <2>1, <2>2, <2>3, <2>4, <2>5 DEF LeasesNext
<1> QED BY <1>1, <1>2

\* Nothing runs in a process that is dead.
LEMMA CrashedStep ==
  ASSUME LeasesInv, [LeasesNext]_leasesVars
  PROVE  CrashedInv'
<1>0. LeasesTypeOK /\ CrashedInv
  BY DEF LeasesInv
<1>1. CASE Crash
  BY <1>1 DEF Crash, CrashedInv
<1>2. CASE ~crashed /\ ~Crash
  <2>1. \A id \in Ids : Call(id) \/ ReleaseLeases(id) \/ CallLost(id)
          => ~crashed'
    BY <1>2 DEF Call, ReleaseLeases, CallLost
  <2>2. \A id \in Ids : Get(id) => ~crashed'
    BY <1>2 DEF Get, EndsWithoutFiles, GetValue, GetPersists,
       GetRetains, GetCannotRetain,
       GetRegisters, GetTableFull, GetDropsFiles, GetPath
  <2>3. \A id \in Ids : Report(id) => ~crashed'
    BY <1>2 DEF Report, ReportTakesLease, ReportTakesFiles, ReportEnds
  <2>4. Session \/ ShutDown \/ Sweep \/ Over \/ UNCHANGED leasesVars
          => ~crashed'
    BY <1>2 DEF Session, ShutDown, Sweep, Over, leasesVars
  <2> QED BY <1>2, <2>1, <2>2, <2>3, <2>4 DEF LeasesNext, CrashedInv
<1>3. CASE crashed
  <2>0. given = {} /\ \A id \in Ids : phase[id] = "lost" /\ at[id] = "none"
    BY <1>0, <1>3 DEF CrashedInv
  <2>1. \A id \in Ids : ~(Get(id) \/ ReleaseLeases(id) \/ Report(id))
    BY <2>0 DEF Get, EndsWithoutFiles, GetValue, GetPersists,
       GetRetains, GetCannotRetain,
       GetRegisters, GetTableFull, GetDropsFiles, GetPath,
       ReleaseLeases, Report,
       ReportTakesLease, ReportTakesFiles, ReportEnds
  <2>2. \A id \in Ids : ~(Call(id) \/ CallLost(id))
    BY <2>0 DEF Call, Start, CallLost, Lose, Open
  <2>3. ~Session /\ ~ShutDown /\ ~Crash
    BY <1>3 DEF Session, ShutDown, Crash
  <2>4. CASE Sweep \/ Over \/ UNCHANGED leasesVars
    BY <2>0, <2>4 DEF Sweep, Over, leasesVars, contractVars,
       localVars, CrashedInv
  <2> QED BY <2>1, <2>2, <2>3, <2>4 DEF LeasesNext
<1> QED BY <1>1, <1>2, <1>3

\* A new session has no calls, no leases and no files.
LEMMA StartsWithoutLeases == LeasesInit => LeasesInv
<1> SUFFICES ASSUME LeasesInit PROVE LeasesInv
  OBVIOUS
<1>1. LeasesTypeOK
  <2>1. 0 \in 0 .. PerSecret
    OBVIOUS
  <2>2. /\ "idle" \in Phases /\ "idle" \notin Open
        /\ "none" \in Reports /\ "none" \in Points
    BY DEF Phases, Open, Reports, Points
  <2> QED BY <2>1, <2>2 DEF LeasesInit, ContractInit, LeasesTypeOK
<1>2. \A id \in Ids : CallInv(id)
  BY DEF LeasesInit, ContractInit, CallInv, PhaseInv, LeaseInv, PendingInv, GivenInv,
     HandlerPoints, ReportPoints
<1> QED BY <1>1, <1>2 DEF LeasesInv, LeasesInit, ContractInit, ReleasedInv, CrashedInv

----------------------------------------------------------------------------
\* The inductive invariant holds in every reachable state of the resolver's
\* session.
THEOREM LeaseInvariance == LeasesSpec => []LeasesInv
<1>1. LeasesInv /\ [LeasesNext]_leasesVars => LeasesInv'
  <2> SUFFICES ASSUME LeasesInv, [LeasesNext]_leasesVars PROVE LeasesInv'
    OBVIOUS
  <2>1. LeasesTypeOK'
    BY LeaseTypeStep DEF LeasesInv
  <2> QED BY <2>1, LeaseCallStep, ReleasedStep, CrashedStep DEF LeasesInv
<1> QED BY <1>1, StartsWithoutLeases, PTL DEF LeasesSpec

\* The lease tables, the counts of supporting files and the suspension points
\* of handlers and reports keep to their types.
THEOREM LeaseTypeCorrect == LeasesSpec => []LeasesTypeOK
<1>1. LeasesInv => LeasesTypeOK
  BY DEF LeasesInv
<1> QED BY <1>1, LeaseInvariance, PTL

\* A path that reached the client stays valid, whatever get, release and
\* request_finished do in between, until the client releases it, the session
\* ends or the transport is given up.
THEOREM GivenPathsStay == LeasesSpec => []GivenPathsExist
<1>1. LeasesInv => GivenPathsExist
  <2> SUFFICES ASSUME LeasesInv, NEW id \in given, id \in delivered
               PROVE  \/ id \in files \cap leases \/ id \in letGo \/ released
                      \/ broken /\ report[id] = "uncommitted"
    BY DEF GivenPathsExist
  <2>1. id \in Ids
    BY DEF LeasesInv, LeasesTypeOK
  <2>2. PhaseInv(id) /\ GivenInv(id)
    BY <2>1 DEF LeasesInv, CallInv
  <2> QED BY <2>2 DEF PhaseInv, GivenInv
<1> QED BY <1>1, LeaseInvariance, PTL

\* request_finished leaves nothing pending, and of a call that was not
\* committed neither lease nor file.
THEOREM CallsSettle == LeasesSpec => []SettledCalls
<1>1. LeasesInv => SettledCalls
  BY DEF LeasesInv, CallInv, LeaseInv, PendingInv, SettledCalls
<1> QED BY <1>1, LeaseInvariance, PTL

\* shutdown() empties the tables and the directory for good.
THEOREM ReleaseEmpties == LeasesSpec => []ReleasedMeansEmpty
<1>1. LeasesInv => ReleasedMeansEmpty
  BY DEF LeasesInv, ReleasedInv, ReleasedMeansEmpty
<1> QED BY <1>1, LeaseInvariance, PTL
=============================================================================
