------------------------ MODULE CallsControllerProofs ------------------------
(***************************************************************************)
(* TLAPS proofs about CallsController.  The main thread's queue is looked  *)
(* at as the set of events pending in it: an event occurs once, because    *)
(* the events of a call to one receiver are queued in the order of its     *)
(* states, so what a handler takes off the queue is no longer pending.     *)
(***************************************************************************)
EXTENDS CallsController, TLAPS

States == {"Calling", "EarlyMedia", "Confirmed", "Disconnected"}

Rank(st) == IF st = "Calling" THEN 0 ELSE IF st = "EarlyMedia" THEN 1
            ELSE IF st = "Confirmed" THEN 2 ELSE 3

Arrives(c) == [type |-> "incoming", call |-> c]
StateEvent(c, st) == [type |-> "state", call |-> c, st |-> st]

Events == {Arrives(c) : c \in CallIds} \cup {StateEvent(c, st) : c \in CallIds, st \in States}
          \cup {CallEvent(c, st) : c \in CallIds, st \in States}

\* The controller's own events, the others being for CallManager.
Told(e) == e.type = "callEvent"

\* How far in the life of its call an event is.
Stage(e) == IF e.type = "incoming" THEN 0 ELSE Rank(e.st)

\* Of two events, the first is about an earlier state, if they are for one receiver
\* and about one call.
Precedes(e, f) == e.call = f.call /\ (Told(e) <=> Told(f)) => Stage(e) < Stage(f)

Ordered(q) == \A i, j \in 1..Len(q) : i < j => Precedes(q[i], q[j])

Elements(q) == {q[i] : i \in 1..Len(q)}

\* What is pending on the main thread.
Pending == Elements(queue)

-----------------------------------------------------------------------------
(* The queue.                                                              *)

\* Events of different kinds, calls or states are different.
LEMMA EventFacts ==
  ASSUME NEW c, NEW d, NEW s, NEW t
  PROVE  /\ Arrives(c).call = c /\ StateEvent(c, s).call = c /\ CallEvent(c, s).call = c
         /\ ~Told(Arrives(c)) /\ ~Told(StateEvent(c, s)) /\ Told(CallEvent(c, s))
         /\ Stage(Arrives(c)) = 0 /\ Stage(StateEvent(c, s)) = Rank(s) /\ Stage(CallEvent(c, s)) = Rank(s)
         /\ Arrives(c) # StateEvent(d, t) /\ Arrives(c) # CallEvent(d, t)
         /\ StateEvent(c, s) # CallEvent(d, t)
         /\ (Arrives(c) = Arrives(d) => c = d)
         /\ (StateEvent(c, s) = StateEvent(d, t) => c = d /\ s = t)
         /\ (CallEvent(c, s) = CallEvent(d, t) => c = d /\ s = t)
  <1>1. /\ Arrives(c).type = "incoming" /\ Arrives(c).call = c /\ Arrives(d).call = d
        /\ StateEvent(c, s).type = "state" /\ StateEvent(c, s).call = c /\ StateEvent(c, s).st = s
        /\ StateEvent(d, t).type = "state" /\ StateEvent(d, t).call = d /\ StateEvent(d, t).st = t
        /\ CallEvent(c, s).type = "callEvent" /\ CallEvent(c, s).call = c /\ CallEvent(c, s).st = s
        /\ CallEvent(d, t).type = "callEvent" /\ CallEvent(d, t).call = d /\ CallEvent(d, t).st = t
    BY DEF Arrives, StateEvent, CallEvent
  <1> QED
    BY <1>1 DEF Told, Stage

\* An event is one of the three kinds, and its type says which.
LEMMA EventForms ==
  ASSUME NEW e \in Events
  PROVE  /\ e.call \in CallIds /\ Stage(e) \in 0..3
         /\ e.type = "incoming" => e = Arrives(e.call)
         /\ e.type = "state" => e = StateEvent(e.call, e.st) /\ e.st \in States
         /\ e.type = "callEvent" => e = CallEvent(e.call, e.st) /\ e.st \in States
         /\ e.type \in {"incoming", "state", "callEvent"}
  <1>1. CASE \E c \in CallIds : e = Arrives(c)
    BY <1>1 DEF Arrives, Stage
  <1>2. CASE \E c \in CallIds, st \in States : e = StateEvent(c, st)
    BY <1>2 DEF StateEvent, Stage, Rank, States
  <1>3. CASE \E c \in CallIds, st \in States : e = CallEvent(c, st)
    BY <1>3 DEF CallEvent, Stage, Rank, States
  <1> QED
    BY <1>1, <1>2, <1>3 DEF Events

\* Queueing an event that comes after those of its kind.
LEMMA Push ==
  ASSUME NEW q \in Seq(Events), Ordered(q), NEW e \in Events,
         \A f \in Elements(q) : Precedes(f, e)
  PROVE  /\ Append(q, e) \in Seq(Events) /\ Ordered(Append(q, e))
         /\ Elements(Append(q, e)) = Elements(q) \cup {e}
         /\ Append(q, e) # <<>>
  <1> DEFINE r == Append(q, e)
  <1>1. /\ r \in Seq(Events) /\ Len(q) \in Nat /\ Len(r) = Len(q) + 1
        /\ \A i \in 1..Len(q) : r[i] = q[i]
        /\ r[Len(q) + 1] = e
    OBVIOUS
  <1> HIDE DEF r
  <1>2. \A i, j \in 1..Len(r) : i < j => Precedes(r[i], r[j])
    <2> SUFFICES ASSUME NEW i \in 1..Len(r), NEW j \in 1..Len(r), i < j PROVE Precedes(r[i], r[j])
      OBVIOUS
    <2>1. i \in 1..Len(q) /\ r[i] = q[i]
      BY <1>1
    <2>2. CASE j \in 1..Len(q)
      BY <1>1, <2>1, <2>2 DEF Ordered
    <2>3. CASE j = Len(q) + 1
      BY <1>1, <2>1, <2>3 DEF Elements
    <2> QED
      BY <1>1, <2>2, <2>3
  <1>3. Elements(r) = Elements(q) \cup {e}
    <2>1. \A i \in 1..Len(r) : r[i] \in Elements(q) \cup {e}
      BY <1>1 DEF Elements
    <2>2. \A i \in 1..Len(q) : q[i] \in Elements(r)
      BY <1>1 DEF Elements
    <2>3. e \in Elements(r)
      BY <1>1 DEF Elements
    <2> QED
      BY <2>1, <2>2, <2>3 DEF Elements
  <1>4. r # <<>>
    BY <1>1
  <1> QED
    BY <1>1, <1>2, <1>3, <1>4 DEF r, Ordered

\* Taking the first event off the queue: those left are about later states of the
\* call, if they are for the same receiver.
LEMMA Pop ==
  ASSUME NEW q \in Seq(Events), Ordered(q), q # <<>>
  PROVE  /\ Tail(q) \in Seq(Events) /\ Ordered(Tail(q)) /\ Head(q) \in Elements(q)
         /\ Head(q) \in Events
         /\ Elements(Tail(q)) = Elements(q) \ {Head(q)}
         /\ \A f \in Elements(Tail(q)) : Precedes(Head(q), f)
  <1> DEFINE r == Tail(q)
  <1>1. /\ r \in Seq(Events) /\ Len(q) \in Nat /\ Len(q) >= 1 /\ Len(r) = Len(q) - 1
        /\ \A i \in 1..Len(r) : r[i] = q[i + 1]
        /\ Head(q) = q[1] /\ \A i \in 1..Len(q) : q[i] \in Events
    OBVIOUS
  <1> HIDE DEF r
  <1>2. Ordered(r)
    <2> SUFFICES ASSUME NEW i \in 1..Len(r), NEW j \in 1..Len(r), i < j PROVE Precedes(r[i], r[j])
      BY DEF Ordered
    <2>1. i + 1 \in 1..Len(q) /\ j + 1 \in 1..Len(q) /\ i + 1 < j + 1
      BY <1>1
    <2> QED
      BY <1>1, <2>1 DEF Ordered
  <1>3. \A f \in Elements(r) : Precedes(q[1], f)
    <2> SUFFICES ASSUME NEW i \in 1..Len(r) PROVE Precedes(q[1], r[i])
      BY DEF Elements
    <2>1. 1 \in 1..Len(q) /\ i + 1 \in 1..Len(q) /\ 1 < i + 1
      BY <1>1
    <2> QED
      BY <1>1, <2>1 DEF Ordered
  <1>4. ~Precedes(q[1], q[1])
    <2>1. q[1] \in Events
      BY <1>1
    <2>2. Stage(q[1]) \in 0..3
      BY <2>1, EventForms
    <2> QED
      BY <2>2 DEF Precedes
  <1>5. Elements(r) = Elements(q) \ {q[1]}
    <2>1. \A i \in 1..Len(r) : r[i] \in Elements(q)
      BY <1>1 DEF Elements
    <2>2. ASSUME NEW i \in 1..Len(q) PROVE q[i] = q[1] \/ q[i] \in Elements(r)
      <3>1. CASE i = 1
        BY <3>1
      <3>2. CASE i # 1
        <4>1. i - 1 \in 1..Len(r) /\ r[i - 1] = q[(i - 1) + 1] /\ (i - 1) + 1 = i
          BY <1>1, <3>2
        <4> QED
          BY <4>1 DEF Elements
      <3> QED
        BY <3>1, <3>2
    <2>3. q[1] \notin Elements(r)
      BY <1>3, <1>4
    <2> QED
      BY <2>1, <2>2, <2>3 DEF Elements
  <1>6. q[1] \in Elements(q)
    BY <1>1 DEF Elements
  <1> QED
    BY <1>1, <1>2, <1>3, <1>5, <1>6 DEF r

-----------------------------------------------------------------------------
(* The inductive invariant.                                                *)

\* The variables are well typed.
TypeOK ==
  /\ m_records \in [CallIds -> {"Absent", "Calling", "EarlyMedia", "Confirmed"}]
  /\ {inbound, identified, sessions, connected, answered, everConfirmed} \subseteq SUBSET CallIds
  /\ {answerTimers, noAnswerTimers, m_lingeringCalls} \subseteq SUBSET CallIds
  /\ {m_currentCallId, m_incomingCallId} \subseteq CallIds \cup {kInvalidCallId}
  /\ m_ringing \in BOOLEAN /\ m_callState \in {"idle", "calling", "early", "active", "ended"}
  /\ dialedTarget \in [CallIds -> Targets \cup {NoTarget}]
  /\ settings \in SUBSET Features /\ toggles \in Nat
  /\ nextCallId \in Nat \ {0}
  /\ inv \in [CallIds -> States \cup {"none"}]
  /\ ended \in [CallIds -> {"no", "dropped", "forwarded"}]
  /\ rows \in [CallIds -> Seq(BOOLEAN)]

\* The queue has what the stack has posted, or what was made of it, in order.
QueueOK ==
  /\ queue \in Seq(Events) /\ Ordered(queue)
  /\ \A e \in Pending : e.call < nextCallId /\ Stage(e) <= Rank(inv[e.call])

\* CallManager and the controller have nothing of an id the stack has not given.
Fresh(c) ==
  IF c < nextCallId THEN inv[c] # "none"
  ELSE /\ inv[c] = "none" /\ c \notin Live /\ rows[c] = <<>>
       /\ c \notin sessions \cup connected \cup everConfirmed \cup inbound \cup identified

\* The controller hears of a state before CallManager does of the next.
InStep(c) ==
  \A s, t \in States : StateEvent(c, s) \in Pending /\ CallEvent(c, t) \in Pending => Rank(t) < Rank(s)

\* A call that has not been announced yet.
Coming(c) ==
  Arrives(c) \in Pending =>
    /\ c \in inbound /\ c \notin Live /\ c \notin sessions /\ c \notin connected /\ rows[c] = <<>>
    /\ \A s \in States : CallEvent(c, s) \notin Pending

\* A call with a record has a session and no row, and an end of it is queued.
Alive(c) ==
  /\ c \in Live => c \in sessions /\ rows[c] = <<>> /\ CallEvent(c, "Disconnected") \notin Pending
  /\ c \in Live \/ Arrives(c) \in Pending =>
       (inv[c] = "Disconnected" => StateEvent(c, "Disconnected") \in Pending)

\* The row of a call that is over.
Final(c) == IF c \in identified THEN <<c \in everConfirmed>> ELSE <<>>

\* A call whose record is gone: its end is queued for the controller, or logged.
Gone(c) == c < nextCallId /\ c \notin Live /\ Arrives(c) \notin Pending

Over(c) ==
  Gone(c) =>
    /\ inv[c] = "Disconnected" /\ \A s \in States : StateEvent(c, s) \notin Pending
    /\ CallEvent(c, "Disconnected") \in Pending => c \in sessions /\ rows[c] = <<>>
    /\ CallEvent(c, "Disconnected") \notin Pending =>
         /\ c \notin sessions /\ c \notin connected /\ rows[c] = Final(c)
         /\ \A s \in States : CallEvent(c, s) \notin Pending

\* That a call was answered is known to its session, or on its way there.
Talk(c) ==
  LET known == c \in connected \/ StateEvent(c, "Confirmed") \in Pending
               \/ CallEvent(c, "Confirmed") \in Pending
  IN /\ known => c \in everConfirmed
     /\ c \in everConfirmed => known \/ (Gone(c) /\ CallEvent(c, "Disconnected") \notin Pending)

CallOK(c) == Fresh(c) /\ InStep(c) /\ Coming(c) /\ Alive(c) /\ Over(c) /\ Talk(c)

\* What the no-answer timer may not find: a call that was answered and is still
\* prompted for.  No call has both timers, and none before it is announced.
TimersOK ==
  /\ \A c \in answered : ended[c] # "forwarded" /\ (m_incomingCallId = c => c \notin noAnswerTimers)
  /\ answerTimers \cap noAnswerTimers = {}
  /\ \A c \in CallIds : c >= nextCallId \/ Arrives(c) \in Pending =>
       c \notin answered \cup answerTimers \cup noAnswerTimers

IInv ==
  /\ TypeOK /\ QueueOK /\ TimersOK
  /\ \A c \in CallIds : CallOK(c)
  /\ NoDuplicateOutbound /\ RingingSettles /\ PromptsAreCurrent

-----------------------------------------------------------------------------
(* Types.                                                                  *)

\* The state shown is one of those the view knows.
LEMMA AggregateTyped ==
  ASSUME NEW st \in States
  PROVE  AggregateCallState(st) \in {"calling", "early", "active", "ended"}
  <1>1. /\ Shown["Calling"] = "calling" /\ Shown["EarlyMedia"] = "early"
        /\ Shown["Confirmed"] = "active" /\ Shown["Disconnected"] = "ended"
    BY DEF Shown
  <1> QED
    BY <1>1 DEF AggregateCallState, States

\* Commands change what they end and what they answer, of a call with a record.
LEMMA CommandsTyped ==
  ASSUME TypeOK, NEW c \in CallIds, NEW ok \in BOOLEAN, NEW why \in {"dropped", "forwarded"}
  PROVE  /\ EndSession(c, why, ok) =>
              /\ ended' \in [CallIds -> {"no", "dropped", "forwarded"}]
              /\ ended' = ended \/ (c \in Live /\ ended' = [ended EXCEPT ![c] = why])
         /\ AnswerSession(c, ok) =>
              /\ answered' \in SUBSET CallIds
              /\ answered' = answered
                 \/ (c \in Live /\ ended[c] = "no" /\ answered' = answered \cup {c} /\ ok)
  <1>1. ok \in Outcomes(c \in Live /\ Up(c)) /\ ok => c \in Live
    BY DEF Outcomes
  <1>2. ok \in Outcomes(c \in Live /\ c \in inbound /\ inv[c] = "Calling" /\ Up(c)) /\ ok
          => c \in Live /\ ended[c] = "no"
    BY DEF Outcomes, Up
  <1> QED
    BY <1>1, <1>2 DEF EndSession, AnswerSession, TypeOK

\* Every step keeps the types.
LEMMA TypeKeeps ==
  ASSUME TypeOK, QueueOK, Next PROVE TypeOK'
  <1>0. \A c \in CallIds : c \in Nat /\ c # kInvalidCallId
    BY BoundsAssumption DEF CallIds, kInvalidCallId
  <1>h. queue # <<>> => Head(queue) \in Events
    BY Pop DEF QueueOK
  <1>1. ASSUME NEW t \in Targets, Dial(t) PROVE TypeOK'
    <2>1. CASE UNCHANGED <<nextCallId, m_records, identified, inv, queue, dialedTarget>> /\ m_currentCallId' = kInvalidCallId
               /\ sessions' = NotedAfterRefusal
      BY <1>1, <2>1 DEF Dial, TypeOK, NotedAfterRefusal, timerVars, settingVars
    <2>2. CASE /\ nextCallId \in CallIds
               /\ nextCallId' = nextCallId + 1
               /\ m_records' = [m_records EXCEPT ![nextCallId] = "Calling"]
               /\ identified' = identified \cup {nextCallId}
               /\ inv' = [inv EXCEPT ![nextCallId] = "Calling"]
               /\ m_currentCallId' = nextCallId
               /\ sessions' = sessions \cup {nextCallId}
               /\ dialedTarget' = [dialedTarget EXCEPT ![nextCallId] = t]
      BY <1>1, <2>2 DEF Dial, TypeOK, timerVars, settingVars, States
    <2> QED
      BY <1>1, <2>1, <2>2 DEF Dial
  <1>2. ASSUME AcceptIncoming PROVE TypeOK'
    <2>1. m_incomingCallId \in CallIds
      BY <1>2 DEF AcceptIncoming, TypeOK
    <2>2. PICK ok \in BOOLEAN : AnswerSession(m_incomingCallId, ok)
      BY <1>2 DEF AcceptIncoming
    <2>3. answered' \in SUBSET CallIds
      BY <2>1, <2>2, CommandsTyped
    <2>4. m_ringing' \in BOOLEAN
      BY <1>2 DEF AcceptIncoming, IsRinging, TypeOK
    <2> QED
      BY <1>2, <2>3, <2>4 DEF AcceptIncoming, TypeOK, managerVars, sessionVars, timerVars, settingVars
  <1>3. ASSUME DeclineIncoming PROVE TypeOK'
    <2>1. m_incomingCallId \in CallIds
      BY <1>3 DEF DeclineIncoming, TypeOK
    <2>2. PICK ok \in BOOLEAN : EndSession(m_incomingCallId, "dropped", ok)
      BY <1>3 DEF DeclineIncoming
    <2>3. ended' \in [CallIds -> {"no", "dropped", "forwarded"}]
      BY <2>1, <2>2, CommandsTyped
    <2>4. m_ringing' \in BOOLEAN
      BY <1>3 DEF DeclineIncoming, IsRinging, TypeOK
    <2> QED
      BY <1>3, <2>3, <2>4 DEF DeclineIncoming, TypeOK, managerVars, sessionVars, timerVars, settingVars
  <1>4. ASSUME NEW f \in Features, ToggleSetting(f) PROVE TypeOK'
    BY <1>4 DEF ToggleSetting, TypeOK, managerVars, sessionVars, timerVars, stackVars
  <1>5. ASSUME OnIncomingCall PROVE TypeOK'
    <2> DEFINE c == Head(queue).call
    <2>1. c \in CallIds
      BY <1>5, <1>h, EventForms DEF OnIncomingCall
    <2>2. ended' \in [CallIds -> {"no", "dropped", "forwarded"}]
      BY <1>5 DEF OnIncomingCall, TypeOK
    <2>3. /\ m_records' = [m_records EXCEPT ![c] = "Calling"] /\ m_incomingCallId' = c
          /\ sessions' = sessions \cup {c} /\ m_ringing' = TRUE
          /\ answerTimers' \in {answerTimers, answerTimers \cup {c}}
          /\ noAnswerTimers' \in {noAnswerTimers, noAnswerTimers \cup {c}}
      BY <1>5 DEF OnIncomingCall
    <2>4. UNCHANGED <<m_lingeringCalls, inbound, identified, m_currentCallId, m_callState, connected,
                      dialedTarget, settings, toggles, nextCallId, inv, answered, everConfirmed, rows>>
      BY <1>5 DEF OnIncomingCall, settingVars
    <2> HIDE DEF c
    <2> QED
      BY <2>1, <2>2, <2>3, <2>4 DEF TypeOK
  <1>6. ASSUME OnCallState PROVE TypeOK'
    <2> DEFINE c == Head(queue).call
               st == Head(queue).st
    <2>1. c \in CallIds /\ st \in States
      BY <1>6, <1>h, EventForms DEF OnCallState
    <2>2. /\ \/ UNCHANGED m_records
             \/ st # "Disconnected" /\ m_records' = [m_records EXCEPT ![c] = st]
             \/ m_records' = [m_records EXCEPT ![c] = "Absent"]
          /\ m_lingeringCalls' \in {m_lingeringCalls, m_lingeringCalls \cup {c}}
          /\ m_currentCallId' \in {kInvalidCallId, m_currentCallId}
      BY <1>6 DEF OnCallState
    <2>3. m_ringing' \in BOOLEAN
      BY <1>6 DEF OnCallState, IsRinging, TypeOK
    <2>4. UNCHANGED <<inbound, identified, m_incomingCallId, m_callState, sessionVars, timerVars,
                      settingVars, stackVars, rows>>
      BY <1>6 DEF OnCallState
    <2> HIDE DEF c, st
    <2>5. m_records' \in [CallIds -> {"Absent", "Calling", "EarlyMedia", "Confirmed"}]
      BY <2>1, <2>2 DEF TypeOK, States
    <2> QED
      BY <2>1, <2>2, <2>3, <2>4, <2>5 DEF TypeOK, sessionVars, timerVars, settingVars, stackVars
  <1>7. ASSUME OnCallEvent PROVE TypeOK'
    <2> DEFINE c == Head(queue).call
               st == Head(queue).st
    <2>1. c \in CallIds /\ st \in States
      BY <1>7, <1>h, EventForms DEF OnCallEvent
    <2>2. /\ sessions' \in {sessions \ {c}, sessions \cup {c}}
          /\ connected' \in {connected \ {c}, connected \cup {c}, connected}
          /\ m_currentCallId' \in {kInvalidCallId, m_currentCallId}
          /\ m_incomingCallId' \in {kInvalidCallId, m_incomingCallId}
          /\ dialedTarget' \in {dialedTarget, [dialedTarget EXCEPT ![c] = NoTarget]}
          /\ m_callState' = AggregateCallState(st) /\ m_ringing' = IsRinging(m_records)
      BY <1>7 DEF OnCallEvent, Forgotten, PromptAfter, RingingAfterEvent
    <2>3. rows' = rows \/ rows' = [rows EXCEPT ![c] = Append(rows[c], c \in connected)]
      BY <1>7 DEF OnCallEvent
    <2>4. UNCHANGED <<managerVars, timerVars, settingVars, stackVars>>
      BY <1>7 DEF OnCallEvent
    <2>5. m_callState' \in {"idle", "calling", "early", "active", "ended"}
      BY <2>1, <2>2, AggregateTyped
    <2>6. m_ringing' \in BOOLEAN
      BY <2>2 DEF IsRinging
    <2> HIDE DEF c, st
    <2>7. rows' \in [CallIds -> Seq(BOOLEAN)]
      <3>1. rows[c] \in Seq(BOOLEAN) /\ (c \in connected) \in BOOLEAN
        BY <2>1 DEF TypeOK
      <3>2. Append(rows[c], c \in connected) \in Seq(BOOLEAN)
        BY <3>1
      <3> QED
        BY <2>3, <3>2 DEF TypeOK
    <2>8. sessions' \in SUBSET CallIds /\ connected' \in SUBSET CallIds
      BY <2>1, <2>2 DEF TypeOK
    <2>9. dialedTarget' \in [CallIds -> Targets \cup {NoTarget}]
      BY <2>1, <2>2 DEF TypeOK
    <2>10. {m_currentCallId', m_incomingCallId'} \subseteq CallIds \cup {kInvalidCallId}
      BY <2>2 DEF TypeOK
    <2> QED
      BY <2>4, <2>5, <2>6, <2>7, <2>8, <2>9, <2>10
      DEF TypeOK, managerVars, timerVars, settingVars, stackVars
  <1>8. ASSUME StackIncomingCall PROVE TypeOK'
    BY <1>8 DEF StackIncomingCall, TypeOK, sessionVars, timerVars, settingVars, States
  <1>9. ASSUME NEW c \in CallIds, Hangup(c) PROVE TypeOK'
    <2>1. PICK ok \in BOOLEAN : EndSession(c, "dropped", ok)
      BY <1>9 DEF Hangup
    <2>2. ended' \in [CallIds -> {"no", "dropped", "forwarded"}]
      BY <2>1, CommandsTyped
    <2> QED
      BY <1>9, <2>2 DEF Hangup, TypeOK, managerVars, sessionVars, timerVars, settingVars
  <1>10. ASSUME NEW c \in CallIds, AutoAnswerFires(c) PROVE TypeOK'
    <2>1. answered' \in SUBSET CallIds
      BY <1>10, CommandsTyped DEF AutoAnswerFires, TypeOK
    <2> QED
      BY <1>10, <2>1 DEF AutoAnswerFires, TypeOK, managerVars, sessionVars, settingVars
  <1>11. ASSUME NEW c \in CallIds, NoAnswerFires(c) PROVE TypeOK'
    <2>1. ended' \in [CallIds -> {"no", "dropped", "forwarded"}]
      BY <1>11, CommandsTyped DEF NoAnswerFires, TypeOK
    <2> QED
      BY <1>11, <2>1 DEF NoAnswerFires, TypeOK, managerVars, sessionVars, settingVars
  <1>12. ASSUME NEW c \in CallIds, LingerExpires(c) PROVE TypeOK'
    <2>1. m_ringing' \in BOOLEAN
      BY <1>12 DEF LingerExpires, IsRinging
    <2> QED
      BY <1>12, <2>1 DEF LingerExpires, TypeOK, sessionVars, timerVars, settingVars, stackVars
  <1>13. ASSUME NEW c \in CallIds, NEW st \in States, StackCallState(c, st) PROVE TypeOK'
    BY <1>13 DEF StackCallState, TypeOK, managerVars, sessionVars, timerVars, settingVars
  <1> QED
    BY <1>1, <1>2, <1>3, <1>4, <1>5, <1>6, <1>7, <1>8, <1>9, <1>10, <1>11, <1>12, <1>13 DEF Next, States

-----------------------------------------------------------------------------
(* What the handlers and the stack do to the queue.                        *)

\* The head of the queue and what is behind it.
LEMMA HeadFacts ==
  ASSUME QueueOK, queue # <<>>
  PROVE  /\ Head(queue) \in Pending /\ Head(queue) \in Events
         /\ \A f \in Pending \ {Head(queue)} : Precedes(Head(queue), f)
  BY Pop DEF QueueOK, Pending

\* Pending events are events of ids the stack has given.
LEMMA PendingFacts ==
  ASSUME TypeOK, QueueOK, NEW e \in Pending
  PROVE  /\ e \in Events /\ e.call \in CallIds /\ e.call < nextCallId /\ Stage(e) \in 0..3
         /\ inv[e.call] \in States \cup {"none"} /\ Stage(e) <= Rank(inv[e.call])
  <1>1. e \in Events
    BY DEF QueueOK, Pending, Elements
  <1>2. e.call \in CallIds /\ Stage(e) \in 0..3
    BY <1>1, EventForms
  <1> QED
    BY <1>1, <1>2 DEF QueueOK, TypeOK

\* The drained queue has nothing pending.
LEMMA DrainedFacts ==
  ASSUME QueueOK PROVE queue = <<>> <=> Pending = {}
  <1>1. queue # <<>> => Pending # {}
    BY HeadFacts
  <1>2. queue = <<>> => Pending = {}
    BY DEF Pending, Elements
  <1> QED
    BY <1>1, <1>2

\* The first event of a new id.
LEMMA PostFirst ==
  ASSUME TypeOK, QueueOK, nextCallId \in CallIds,
         NEW e \in {Arrives(nextCallId), StateEvent(nextCallId, "Calling")},
         queue' = Append(queue, e), nextCallId' = nextCallId + 1,
         inv' = [inv EXCEPT ![nextCallId] = "Calling"]
  PROVE  QueueOK' /\ Pending' = Pending \cup {e} /\ queue' # <<>>
  <1>0. e.call = nextCallId /\ Stage(e) = 0 /\ e \in Events /\ nextCallId \in Nat
    <2>1. CASE e = Arrives(nextCallId)
      BY <2>1 DEF Arrives, Stage, Events, TypeOK
    <2>2. CASE e = StateEvent(nextCallId, "Calling")
      <3>1. e \in Events
        BY <2>2 DEF Events, States
      <3> QED
        BY <2>2, <3>1 DEF StateEvent, Stage, Rank, TypeOK
    <2> QED
      BY <2>1, <2>2
  <1>1. \A f \in Pending : f.call # nextCallId /\ Precedes(f, e)
    <2> SUFFICES ASSUME NEW f \in Pending PROVE f.call # nextCallId
      BY <1>0 DEF Precedes
    <2>1. f.call < nextCallId /\ f.call \in CallIds
      BY PendingFacts
    <2> QED
      BY <1>0, <2>1, BoundsAssumption DEF CallIds
  <1>2. /\ queue' \in Seq(Events) /\ Ordered(queue') /\ Elements(queue') = Elements(queue) \cup {e}
        /\ queue' # <<>>
    BY <1>0, <1>1, Push DEF QueueOK, Pending
  <1>3. \A f \in Pending : f.call < nextCallId' /\ Stage(f) <= Rank(inv'[f.call])
    <2> SUFFICES ASSUME NEW f \in Pending PROVE f.call < nextCallId' /\ Stage(f) <= Rank(inv'[f.call])
      OBVIOUS
    <2>1. f.call \in CallIds /\ f.call < nextCallId /\ Stage(f) <= Rank(inv[f.call]) /\ f.call # nextCallId
      BY <1>1, PendingFacts
    <2>2. inv'[f.call] = inv[f.call]
      BY <2>1 DEF TypeOK
    <2> QED
      BY <1>0, <2>1, <2>2, BoundsAssumption DEF CallIds
  <1>4. e.call < nextCallId' /\ Stage(e) <= Rank(inv'[e.call])
    BY <1>0 DEF Rank, TypeOK
  <1> QED
    BY <1>2, <1>3, <1>4 DEF QueueOK, Pending

\* A later state of a call.
LEMMA PostState ==
  ASSUME TypeOK, QueueOK, NEW c \in CallIds, NEW st \in States, c < nextCallId,
         inv[c] # "none", Rank(inv[c]) < Rank(st),
         queue' = Append(queue, StateEvent(c, st)), nextCallId' = nextCallId,
         inv' = [inv EXCEPT ![c] = st]
  PROVE  QueueOK' /\ Pending' = Pending \cup {StateEvent(c, st)} /\ queue' # <<>>
  <1> DEFINE e == StateEvent(c, st)
  <1>0. e.call = c /\ Stage(e) = Rank(st) /\ e \in Events /\ Rank(st) \in 0..3 /\ Rank(inv[c]) \in 0..3
    BY EventFacts DEF Rank, Events
  <1>1. \A f \in Pending : Precedes(f, e)
    <2> SUFFICES ASSUME NEW f \in Pending, f.call = c PROVE Stage(f) < Stage(e)
      BY <1>0 DEF Precedes
    <2>1. Stage(f) \in 0..3 /\ Stage(f) <= Rank(inv[c])
      BY PendingFacts
    <2> QED
      BY <1>0, <2>1
  <1> HIDE DEF e
  <1>2. /\ queue' \in Seq(Events) /\ Ordered(queue') /\ Elements(queue') = Elements(queue) \cup {e}
        /\ queue' # <<>>
    BY <1>0, <1>1, Push DEF QueueOK, Pending, e
  <1>3. \A f \in Pending : f.call < nextCallId' /\ Stage(f) <= Rank(inv'[f.call])
    <2> SUFFICES ASSUME NEW f \in Pending PROVE f.call < nextCallId' /\ Stage(f) <= Rank(inv'[f.call])
      OBVIOUS
    <2>1. f.call \in CallIds /\ f.call < nextCallId /\ Stage(f) \in 0..3 /\ Stage(f) <= Rank(inv[f.call])
      BY PendingFacts
    <2>2. CASE f.call = c
      <3>1. inv'[c] = st
        BY DEF TypeOK
      <3> QED
        BY <1>0, <2>1, <2>2, <3>1
    <2>3. CASE f.call # c
      <3>1. inv'[f.call] = inv[f.call]
        BY <2>1, <2>3 DEF TypeOK
      <3> QED
        BY <2>1, <3>1
    <2> QED
      BY <2>2, <2>3
  <1>4. e.call < nextCallId' /\ Stage(e) <= Rank(inv'[e.call])
    BY <1>0 DEF TypeOK
  <1> QED
    BY <1>2, <1>3, <1>4 DEF QueueOK, Pending, e

\* CallManager takes an event and the controller is told.
LEMMA Relay ==
  ASSUME TypeOK, QueueOK, queue # <<>>, NEW c \in CallIds, NEW st \in States,
         Head(queue) \in {Arrives(c), StateEvent(c, st)}, Stage(Head(queue)) = Rank(st),
         \A t \in States : CallEvent(c, t) \in Pending => Rank(t) < Rank(st),
         queue' = Append(Tail(queue), CallEvent(c, st)), UNCHANGED <<inv, nextCallId>>
  PROVE  /\ QueueOK' /\ queue' # <<>>
         /\ Pending' = (Pending \ {Head(queue)}) \cup {CallEvent(c, st)}
  <1> DEFINE e == CallEvent(c, st)
             h == Head(queue)
  <1>0. /\ e.call = c /\ Stage(e) = Rank(st) /\ e \in Events /\ Told(e)
        /\ h.call = c /\ h \in Pending
    BY EventFacts, HeadFacts DEF Events
  <1>1. /\ Tail(queue) \in Seq(Events) /\ Ordered(Tail(queue)) /\ Elements(Tail(queue)) = Pending \ {h}
    BY Pop DEF QueueOK, Pending
  <1>2. ASSUME NEW f \in Pending PROVE Precedes(f, e)
    <2> SUFFICES ASSUME f.call = c, Told(f) PROVE Stage(f) < Rank(st)
      BY <1>0 DEF Precedes
    <2>1. f = CallEvent(c, f.st) /\ f.st \in States
      BY PendingFacts, EventForms DEF Told
    <2>2. Rank(f.st) < Rank(st)
      BY <2>1
    <2>3. Stage(f) = Rank(f.st)
      BY DEF Stage, Told
    <2> QED
      BY <2>2, <2>3
  <1> HIDE DEF e, h
  <1>3. /\ queue' \in Seq(Events) /\ Ordered(queue') /\ Elements(queue') = (Pending \ {h}) \cup {e}
        /\ queue' # <<>>
    <2>1. \A f \in Elements(Tail(queue)) : Precedes(f, e)
      BY <1>1, <1>2
    <2>2. queue' = Append(Tail(queue), e)
      BY DEF e
    <2> QED
      BY <1>0, <1>1, <2>1, <2>2, Push
  <1>4. e.call < nextCallId /\ Stage(e) <= Rank(inv[e.call])
    <2>1. h.call < nextCallId /\ Stage(h) <= Rank(inv[h.call]) /\ Stage(h) = Rank(st)
      BY <1>0, PendingFacts DEF h
    <2> QED
      BY <1>0, <2>1
  <1>5. \A f \in (Pending \ {h}) \cup {e} : f.call < nextCallId /\ Stage(f) <= Rank(inv[f.call])
    BY <1>4 DEF QueueOK
  <1> QED
    BY <1>3, <1>5 DEF QueueOK, Pending, e, h

\* An event is taken and nothing is queued.
LEMMA Consume ==
  ASSUME QueueOK, queue # <<>>, queue' = Tail(queue), UNCHANGED <<inv, nextCallId>>
  PROVE  QueueOK' /\ Pending' = Pending \ {Head(queue)}
  BY Pop DEF QueueOK, Pending

-----------------------------------------------------------------------------
(* The life of one call.                                                   *)

\* A step that leaves a call alone.
LEMMA SameCall ==
  ASSUME NEW c \in CallIds, CallOK(c), m_records'[c] = m_records[c], inv'[c] = inv[c], rows'[c] = rows[c],
         c \in sessions' <=> c \in sessions, c \in connected' <=> c \in connected,
         c \in everConfirmed' <=> c \in everConfirmed, c \in inbound' <=> c \in inbound,
         c \in identified' <=> c \in identified, c < nextCallId' <=> c < nextCallId,
         Arrives(c) \in Pending' <=> Arrives(c) \in Pending,
         \A s \in States : StateEvent(c, s) \in Pending' <=> StateEvent(c, s) \in Pending,
         \A s \in States : CallEvent(c, s) \in Pending' <=> CallEvent(c, s) \in Pending
  PROVE  CallOK(c)'
  <1>1. c \in Live' <=> c \in Live
    BY DEF Live
  <1>2. {"Confirmed", "Disconnected"} \subseteq States
    BY DEF States
  <1>3. Final(c)' = Final(c) /\ (Gone(c)' <=> Gone(c))
    BY <1>1 DEF Final, Gone
  <1>4. Fresh(c)'
    BY <1>1 DEF CallOK, Fresh
  <1>5. InStep(c)' /\ Coming(c)'
    BY <1>1 DEF CallOK, InStep, Coming
  <1>6. Alive(c)'
    BY <1>1, <1>2 DEF CallOK, Alive
  <1>7. Over(c)'
    BY <1>2, <1>3 DEF CallOK, Over
  <1>8. Talk(c)'
    BY <1>2, <1>3 DEF CallOK, Talk
  <1> QED
    BY <1>4, <1>5, <1>6, <1>7, <1>8 DEF CallOK

\* Nothing is pending about an id the stack has not given.
LEMMA NothingPending ==
  ASSUME TypeOK, QueueOK, NEW c \in CallIds, c >= nextCallId
  PROVE  /\ Arrives(c) \notin Pending
         /\ \A s \in States : StateEvent(c, s) \notin Pending /\ CallEvent(c, s) \notin Pending
  <1>1. \A e \in Pending : e.call # c
    <2> SUFFICES ASSUME NEW e \in Pending, e.call = c PROVE FALSE
      OBVIOUS
    <2>1. c < nextCallId /\ c \in Nat /\ nextCallId \in Nat
      BY PendingFacts, BoundsAssumption DEF CallIds, TypeOK
    <2> QED
      BY <2>1
  <1>2. Arrives(c).call = c /\ \A s \in States : StateEvent(c, s).call = c /\ CallEvent(c, s).call = c
    BY DEF Arrives, StateEvent, CallEvent
  <1> QED
    BY <1>1, <1>2

\* dial: the call it starts has a record and a session at once, and its first state
\* is queued.
LEMMA DialTracks ==
  ASSUME IInv, NEW t \in Targets, Dial(t)
  PROVE  QueueOK' /\ \A c \in CallIds : CallOK(c)'
  <1> DEFINE x == nextCallId
  <1>0. UNCHANGED <<inbound, connected, everConfirmed, rows>>
    BY DEF Dial
  <1>1. CASE UNCHANGED <<nextCallId, m_records, identified, inv, queue>> /\ sessions' = NotedAfterRefusal
    <2>1. Pending' = Pending /\ QueueOK' /\ sessions' = sessions
      BY <1>1 DEF IInv, QueueOK, Pending, NotedAfterRefusal
    <2> QED
      BY <1>0, <1>1, <2>1, SameCall DEF IInv
  <1>2. CASE /\ x \in CallIds /\ nextCallId' = x + 1
             /\ m_records' = [m_records EXCEPT ![x] = "Calling"]
             /\ identified' = identified \cup {x}
             /\ inv' = [inv EXCEPT ![x] = "Calling"]
             /\ queue' = Append(queue, [type |-> "state", call |-> x, st |-> "Calling"])
             /\ sessions' = sessions \cup {x}
    <2>0. TypeOK /\ QueueOK /\ x \in Nat /\ CallOK(x) /\ "Calling" \in States
      BY <1>2 DEF IInv, TypeOK, States
    <2>1. QueueOK' /\ Pending' = Pending \cup {StateEvent(x, "Calling")}
      <3>1. queue' = Append(queue, StateEvent(x, "Calling"))
        BY <1>2 DEF StateEvent
      <3> QED
        BY <1>2, <2>0, <3>1, PostFirst
    <2>2. ASSUME NEW c \in CallIds, c # x PROVE CallOK(c)'
      <3>1. /\ m_records'[c] = m_records[c] /\ inv'[c] = inv[c]
            /\ (c < nextCallId' <=> c < nextCallId) /\ CallOK(c)
        BY <1>2, <2>0, <2>2, BoundsAssumption DEF TypeOK, CallIds, IInv
      <3>2. /\ Arrives(c) # StateEvent(x, "Calling")
            /\ \A s \in States : StateEvent(c, s) # StateEvent(x, "Calling") /\ CallEvent(c, s) # StateEvent(x, "Calling")
        BY <2>2, EventFacts
      <3> QED
        BY <1>0, <1>2, <2>1, <2>2, <3>1, <3>2, SameCall
    <2>3. \A c : c = x => CallOK(c)'
      <3>1. /\ Arrives(x) \notin Pending /\ \A s \in States : StateEvent(x, s) \notin Pending /\ CallEvent(x, s) \notin Pending
        BY <1>2, <2>0, NothingPending
      <3>2. /\ Arrives(x) \notin Pending' /\ \A s \in States : CallEvent(x, s) \notin Pending'
            /\ \A s \in States : StateEvent(x, s) \in Pending' => s = "Calling"
        BY <2>1, <3>1, EventFacts
      <3>3. /\ x \in Live' /\ x \in sessions' /\ x < nextCallId' /\ inv'[x] = "Calling"
            /\ rows'[x] = <<>> /\ x \notin connected' /\ x \notin everConfirmed'
        <4>1. rows[x] = <<>> /\ x \notin connected /\ x \notin everConfirmed
          BY <2>0 DEF CallOK, Fresh
        <4> QED
          BY <1>0, <1>2, <2>0, <4>1 DEF Live, TypeOK
      <3>4. {"Confirmed", "Disconnected"} \subseteq States
        BY DEF States
      <3> HIDE DEF x
      <3>5. \A c : c = x => CallOK(c)'
        BY <3>2, <3>3, <3>4 DEF CallOK, Fresh, InStep, Coming, Alive, Gone, Over, Talk
      <3> QED
        BY <3>5
    <2> QED
      BY <2>1, <2>2, <2>3
  <1> QED
    BY <1>1, <1>2 DEF Dial

\* An incoming call is queued.
LEMMA StackIncomingTracks ==
  ASSUME IInv, StackIncomingCall
  PROVE  QueueOK' /\ \A c \in CallIds : CallOK(c)'
  <1> DEFINE x == nextCallId
  <1>0. UNCHANGED <<m_records, sessions, connected, everConfirmed, rows>>
    BY DEF StackIncomingCall, sessionVars
  <1>1. /\ x \in CallIds /\ nextCallId' = x + 1 /\ inbound' = inbound \cup {x}
        /\ identified' \in {identified, identified \cup {x}}
        /\ inv' = [inv EXCEPT ![x] = "Calling"]
    BY DEF StackIncomingCall
  <1>2. TypeOK /\ QueueOK /\ x \in Nat /\ CallOK(x)
    BY <1>1 DEF IInv, TypeOK
  <1>3. QueueOK' /\ Pending' = Pending \cup {Arrives(x)}
    <2>1. queue' = Append(queue, Arrives(x))
      BY DEF Arrives, StackIncomingCall
    <2> QED
      BY <1>1, <1>2, <2>1, PostFirst
  <1>4. ASSUME NEW c \in CallIds, c # x PROVE CallOK(c)'
    <2>1. /\ inv'[c] = inv[c] /\ (c < nextCallId' <=> c < nextCallId) /\ CallOK(c)
          /\ (c \in identified' <=> c \in identified)
      BY <1>1, <1>2, <1>4, BoundsAssumption DEF TypeOK, CallIds, IInv
    <2>2. /\ Arrives(c) # Arrives(x)
          /\ \A s \in States : StateEvent(c, s) # Arrives(x) /\ CallEvent(c, s) # Arrives(x)
      BY <1>4, EventFacts
    <2> QED
      BY <1>0, <1>1, <1>3, <1>4, <2>1, <2>2, SameCall
  <1>5. \A c : c = x => CallOK(c)'
    <2>1. \A s \in States : StateEvent(x, s) \notin Pending /\ CallEvent(x, s) \notin Pending
      BY <1>1, <1>2, NothingPending
    <2>2. /\ Arrives(x) \in Pending'
          /\ \A s \in States : StateEvent(x, s) \notin Pending' /\ CallEvent(x, s) \notin Pending'
      BY <1>3, <2>1, EventFacts
    <2>3. /\ x < nextCallId' /\ inv'[x] = "Calling" /\ x \notin Live' /\ rows'[x] = <<>> /\ x \in inbound'
          /\ x \notin sessions' /\ x \notin connected' /\ x \notin everConfirmed'
      <3>1. rows[x] = <<>> /\ x \notin connected /\ x \notin everConfirmed /\ x \notin Live /\ x \notin sessions
        BY <1>2 DEF CallOK, Fresh
      <3> QED
        BY <1>0, <1>1, <1>2, <3>1 DEF Live, TypeOK
    <2>4. {"Confirmed", "Disconnected"} \subseteq States
      BY DEF States
    <2> HIDE DEF x
    <2> QED
      BY <2>2, <2>3, <2>4 DEF CallOK, Fresh, InStep, Coming, Alive, Gone, Over, Talk
  <1> QED
    BY <1>3, <1>4, <1>5

\* The states of a session follow one another.
LEMMA StateAfterFacts ==
  ASSUME TypeOK, NEW c \in CallIds, NEW st \in StateAfter(c)
  PROVE  /\ inv[c] # "none" /\ inv[c] # "Disconnected" /\ inv[c] \in States
         /\ st \in States /\ Rank(inv[c]) < Rank(st)
  BY DEF StateAfter, States, Rank, TypeOK

\* A state of the session is queued.  The session had not ended, so CallManager has
\* a record of the call or is going to.
LEMMA StackStateTracks ==
  ASSUME IInv, NEW x \in CallIds, NEW st \in States, StackCallState(x, st)
  PROVE  QueueOK' /\ \A c \in CallIds : CallOK(c)'
  <1>0. UNCHANGED <<m_records, inbound, identified, sessions, connected, rows, nextCallId>>
    BY DEF StackCallState, managerVars, sessionVars
  <1>1. /\ st \in StateAfter(x) /\ inv' = [inv EXCEPT ![x] = st]
        /\ everConfirmed' = IF st = "Confirmed" THEN everConfirmed \cup {x} ELSE everConfirmed
        /\ queue' = Append(queue, StateEvent(x, st))
    BY DEF StackCallState, StateEvent
  <1>2. TypeOK /\ QueueOK /\ CallOK(x)
    BY DEF IInv
  <1>3. inv[x] # "none" /\ inv[x] # "Disconnected" /\ inv[x] \in States /\ Rank(inv[x]) < Rank(st)
    BY <1>1, <1>2, StateAfterFacts
  <1>4. x < nextCallId
    BY <1>2, <1>3 DEF CallOK, Fresh
  <1>5. QueueOK' /\ Pending' = Pending \cup {StateEvent(x, st)}
    BY <1>0, <1>1, <1>2, <1>3, <1>4, PostState
  <1>6. ASSUME NEW c \in CallIds, c # x PROVE CallOK(c)'
    <2>1. /\ inv'[c] = inv[c] /\ CallOK(c) /\ (c \in everConfirmed' <=> c \in everConfirmed)
      BY <1>1, <1>2, <1>6 DEF TypeOK, IInv
    <2>2. /\ Arrives(c) # StateEvent(x, st)
          /\ \A s \in States : StateEvent(c, s) # StateEvent(x, st) /\ CallEvent(c, s) # StateEvent(x, st)
      BY <1>6, EventFacts
    <2> QED
      BY <1>0, <1>5, <1>6, <2>1, <2>2, SameCall
  <1>7. CallOK(x)'
    <2>1. /\ Arrives(x) \in Pending' <=> Arrives(x) \in Pending
          /\ \A s \in States : CallEvent(x, s) \in Pending' <=> CallEvent(x, s) \in Pending
          /\ \A s \in States : StateEvent(x, s) \in Pending' <=> StateEvent(x, s) \in Pending \/ s = st
      BY <1>5, EventFacts
    <2>2. \A t \in States : CallEvent(x, t) \in Pending => Rank(t) < Rank(st)
      <3> SUFFICES ASSUME NEW t \in States, CallEvent(x, t) \in Pending PROVE Rank(t) < Rank(st)
        OBVIOUS
      <3>1. CallEvent(x, t).call = x /\ Stage(CallEvent(x, t)) = Rank(t)
        BY DEF CallEvent, Stage
      <3>2. Rank(t) <= Rank(inv[x])
        BY <1>2, <3>1, PendingFacts
      <3> QED
        BY <1>3, <3>2 DEF Rank
    <2>3. inv'[x] = st /\ (x \in Live' <=> x \in Live)
      BY <1>0, <1>1, <1>2 DEF TypeOK, Live
    <2>4. x \in Live \/ Arrives(x) \in Pending
      BY <1>2, <1>3, <1>4 DEF CallOK, Over, Gone
    <2>5. {"Confirmed", "Disconnected"} \subseteq States
      BY DEF States
    <2>6. Fresh(x)'
      BY <1>0, <1>4, <2>3 DEF Fresh, States
    <2>7. InStep(x)'
      BY <1>2, <2>1, <2>2 DEF CallOK, InStep
    <2>8. Coming(x)' /\ Alive(x)'
      BY <1>0, <1>2, <1>3, <2>1, <2>3, <2>4, <2>5 DEF CallOK, Coming, Alive
    <2>9. Over(x)'
      BY <2>1, <2>3, <2>4 DEF Over, Gone
    <2>10. Talk(x)'
      <3>1. ~Gone(x) /\ ~Gone(x)'
        BY <2>1, <2>3, <2>4 DEF Gone
      <3> QED
        BY <1>0, <1>1, <1>2, <2>1, <2>5, <3>1 DEF CallOK, Talk
    <2> QED
      BY <2>6, <2>7, <2>8, <2>9, <2>10 DEF CallOK
  <1> QED
    BY <1>5, <1>6, <1>7

\* CallManager announces an incoming call.
LEMMA IncomingTracks ==
  ASSUME IInv, OnIncomingCall, NEW x, x = Head(queue).call
  PROVE  /\ QueueOK' /\ \A c \in CallIds : CallOK(c)'
         /\ Arrives(x) \in Pending /\ x \in CallIds
         /\ Pending' = (Pending \ {Arrives(x)}) \cup {CallEvent(x, "Calling")}
         /\ queue' # <<>>
  <1>0. UNCHANGED <<inbound, identified, connected, rows, nextCallId, inv, everConfirmed>>
    BY DEF OnIncomingCall
  <1>1. /\ queue # <<>> /\ Head(queue).type = "incoming"
        /\ m_records' = [m_records EXCEPT ![x] = "Calling"]
        /\ queue' = Append(Tail(queue), CallEvent(x, "Calling"))
        /\ sessions' = sessions \cup {x}
    BY DEF OnIncomingCall
  <1>2. TypeOK /\ QueueOK
    BY DEF IInv
  <1>3. x \in CallIds /\ Head(queue) = Arrives(x) /\ Arrives(x) \in Pending
    BY <1>1, <1>2, HeadFacts, EventForms
  <1>4. CallOK(x) /\ \A f \in Pending \ {Arrives(x)} : Precedes(Arrives(x), f)
    BY <1>1, <1>2, <1>3, HeadFacts DEF IInv
  <1>5. \A s \in States : CallEvent(x, s) \notin Pending
    BY <1>3, <1>4 DEF CallOK, Coming
  <1>6. QueueOK' /\ queue' # <<>> /\ Pending' = (Pending \ {Arrives(x)}) \cup {CallEvent(x, "Calling")}
    <2>1. Stage(Arrives(x)) = Rank("Calling") /\ "Calling" \in States
      BY DEF Arrives, Stage, Rank, States
    <2> QED
      BY <1>0, <1>1, <1>2, <1>3, <1>5, <2>1, Relay
  <1>7. ASSUME NEW c \in CallIds, c # x PROVE CallOK(c)'
    <2>1. m_records'[c] = m_records[c] /\ CallOK(c)
      BY <1>1, <1>2, <1>7 DEF TypeOK, IInv
    <2>2. /\ Arrives(c) \notin {Arrives(x), CallEvent(x, "Calling")}
          /\ \A s \in States : {StateEvent(c, s), CallEvent(c, s)} \cap {Arrives(x), CallEvent(x, "Calling")} = {}
      BY <1>7, EventFacts
    <2> QED
      BY <1>0, <1>1, <1>6, <1>7, <2>1, <2>2, SameCall
  <1>8. CallOK(x)'
    <2>1. /\ Arrives(x) \notin Pending'
          /\ \A s \in States : CallEvent(x, s) \in Pending' => s = "Calling"
          /\ \A s \in States : StateEvent(x, s) \in Pending' <=> StateEvent(x, s) \in Pending
      <3>1. /\ Arrives(x) # CallEvent(x, "Calling")
            /\ \A s \in States : /\ StateEvent(x, s) \notin {Arrives(x), CallEvent(x, "Calling")}
                                 /\ CallEvent(x, s) = CallEvent(x, "Calling") => s = "Calling"
        BY EventFacts
      <3>2. Arrives(x) \notin Pending'
        BY <1>6, <3>1
      <3>3. \A s \in States : CallEvent(x, s) \in Pending' => s = "Calling"
        BY <1>5, <1>6, <3>1
      <3>4. \A s \in States : StateEvent(x, s) \in Pending' <=> StateEvent(x, s) \in Pending
        BY <1>6, <3>1
      <3> QED
        BY <3>2, <3>3, <3>4
    <2>2. \A s \in States : StateEvent(x, s) \in Pending => Rank("Calling") < Rank(s)
      <3> SUFFICES ASSUME NEW s \in States, StateEvent(x, s) \in Pending PROVE Rank("Calling") < Rank(s)
        OBVIOUS
      <3>1. Precedes(Arrives(x), StateEvent(x, s))
        BY <1>4, EventFacts
      <3> QED
        BY <3>1 DEF Precedes, Arrives, StateEvent, Told, Stage, Rank
    <2>3. /\ x \in Live' /\ x < nextCallId /\ inv[x] # "none" /\ rows[x] = <<>> /\ x \notin connected
      BY <1>1, <1>2, <1>3, <1>4, PendingFacts, EventFacts DEF Live, TypeOK, CallOK, Coming, Fresh
    <2>4. {"Confirmed", "Disconnected"} \subseteq States
      BY DEF States
    <2>5. Fresh(x)' /\ InStep(x)' /\ Coming(x)'
      BY <1>0, <2>1, <2>2, <2>3 DEF Fresh, InStep, Coming
    <2>6. Alive(x)'
      BY <1>0, <1>1, <1>3, <1>4, <2>1, <2>3, <2>4 DEF CallOK, Alive
    <2>7. Over(x)'
      BY <2>3 DEF Over, Gone
    <2>8. Talk(x)'
      BY <1>0, <1>3, <1>4, <1>5, <2>1, <2>4 DEF CallOK, Talk, Gone
    <2> QED
      BY <2>5, <2>6, <2>7, <2>8 DEF CallOK
  <1> QED
    BY <1>3, <1>6, <1>7, <1>8

\* A state that CallManager takes off the queue is of a call with a record: a call
\* is announced before its first state, and its end is the last of its states.
LEMMA HeadIsLive ==
  ASSUME IInv, queue # <<>>, Head(queue).type = "state"
  PROVE  /\ Head(queue).call \in Live
         /\ Head(queue) = StateEvent(Head(queue).call, Head(queue).st)
         /\ Head(queue).st \in States
  <1> DEFINE x == Head(queue).call
             st == Head(queue).st
  <1>1. TypeOK /\ QueueOK
    BY DEF IInv
  <1>2. /\ x \in CallIds /\ Head(queue) = StateEvent(x, st) /\ st \in States
        /\ StateEvent(x, st) \in Pending /\ Rank(st) \in 0..3
    BY <1>1, HeadFacts, EventForms DEF Rank
  <1>3. CallOK(x) /\ \A f \in Pending \ {StateEvent(x, st)} : Precedes(StateEvent(x, st), f)
    BY <1>1, <1>2, HeadFacts DEF IInv
  <1> HIDE DEF x, st
  <1>4. Arrives(x) \notin Pending
    <2> SUFFICES ASSUME Arrives(x) \in Pending PROVE FALSE
      OBVIOUS
    <2>1. Precedes(StateEvent(x, st), Arrives(x))
      BY <1>3, EventFacts
    <2> QED
      BY <1>2, <2>1 DEF Precedes, Arrives, StateEvent, Told, Stage
  <1>5. x < nextCallId
    <2>1. StateEvent(x, st).call = x
      BY DEF StateEvent
    <2> QED
      BY <1>1, <1>2, <2>1, PendingFacts
  <1>6. x \in Live
    BY <1>2, <1>3, <1>4, <1>5 DEF CallOK, Over, Gone
  <1> QED
    BY <1>2, <1>6 DEF x, st

\* CallManager takes a state over.  With the last one the record goes, and the end
\* is the last that is queued about the call.
LEMMA StateTracks ==
  ASSUME IInv, OnCallState, NEW x, NEW st, x = Head(queue).call, st = Head(queue).st
  PROVE  /\ QueueOK' /\ \A c \in CallIds : CallOK(c)'
         /\ x \in Live /\ st \in States /\ queue' # <<>>
         /\ Pending' = (Pending \ {StateEvent(x, st)}) \cup {CallEvent(x, st)}
         /\ m_records' = [m_records EXCEPT ![x] = IF st = "Disconnected" THEN "Absent" ELSE st]
  <1>0. UNCHANGED <<inbound, identified, sessions, connected, rows, nextCallId, inv, everConfirmed>>
    BY DEF OnCallState, sessionVars, stackVars
  <1>1. queue # <<>> /\ Head(queue).type = "state"
    BY DEF OnCallState
  <1>2. TypeOK /\ QueueOK
    BY DEF IInv
  <1>3. /\ x \in Live /\ x \in CallIds /\ st \in States /\ Head(queue) = StateEvent(x, st)
        /\ StateEvent(x, st) \in Pending
    BY <1>1, <1>2, HeadIsLive, HeadFacts DEF Live
  <1>4. CallOK(x) /\ \A f \in Pending \ {StateEvent(x, st)} : Precedes(StateEvent(x, st), f)
    BY <1>1, <1>2, <1>3, HeadFacts DEF IInv
  <1>5. /\ m_records' = [m_records EXCEPT ![x] = IF st = "Disconnected" THEN "Absent" ELSE st]
        /\ queue' = Append(Tail(queue), CallEvent(x, st))
    BY <1>3 DEF OnCallState
  <1>6. \A t \in States : CallEvent(x, t) \in Pending => Rank(t) < Rank(st)
    BY <1>3, <1>4 DEF CallOK, InStep
  <1>7. QueueOK' /\ queue' # <<>> /\ Pending' = (Pending \ {StateEvent(x, st)}) \cup {CallEvent(x, st)}
    <2>1. Stage(StateEvent(x, st)) = Rank(st)
      BY DEF StateEvent, Stage
    <2> QED
      BY <1>0, <1>1, <1>2, <1>3, <1>5, <1>6, <2>1, Relay
  <1>8. ASSUME NEW c \in CallIds, c # x PROVE CallOK(c)'
    <2>1. m_records'[c] = m_records[c] /\ CallOK(c)
      BY <1>2, <1>5, <1>8 DEF TypeOK, IInv
    <2>2. /\ Arrives(c) \notin {StateEvent(x, st), CallEvent(x, st)}
          /\ \A s \in States : {StateEvent(c, s), CallEvent(c, s)} \cap {StateEvent(x, st), CallEvent(x, st)} = {}
      BY <1>8, EventFacts
    <2> QED
      BY <1>0, <1>7, <1>8, <2>1, <2>2, SameCall
  <1>9. CallOK(x)'
    <2>1. /\ Arrives(x) \notin Pending'
          /\ \A s \in States : CallEvent(x, s) \in Pending' <=> CallEvent(x, s) \in Pending \/ s = st
          /\ \A s \in States : StateEvent(x, s) \in Pending' <=> StateEvent(x, s) \in Pending /\ s # st
      <3>1. /\ Arrives(x) # CallEvent(x, st)
            /\ \A s \in States : StateEvent(x, s) # CallEvent(x, st) /\ CallEvent(x, s) # StateEvent(x, st)
            /\ \A s \in States : CallEvent(x, s) = CallEvent(x, st) => s = st
            /\ \A s \in States : StateEvent(x, s) = StateEvent(x, st) => s = st
        BY EventFacts
      <3>2. Arrives(x) \notin Pending
        BY <1>3, <1>4 DEF CallOK, Coming
      <3> QED
        BY <1>7, <3>1, <3>2
    <2>2. \A s \in States : StateEvent(x, s) \in Pending /\ s # st => Rank(st) < Rank(s)
      <3> SUFFICES ASSUME NEW s \in States, StateEvent(x, s) \in Pending, s # st PROVE Rank(st) < Rank(s)
        OBVIOUS
      <3>1. Precedes(StateEvent(x, st), StateEvent(x, s))
        BY <1>4, EventFacts
      <3> QED
        BY <3>1 DEF Precedes, StateEvent, Told, Stage
    <2>3. Rank(st) <= Rank(inv[x]) /\ x < nextCallId
      <3>1. StateEvent(x, st).call = x /\ Stage(StateEvent(x, st)) = Rank(st)
        BY DEF StateEvent, Stage
      <3> QED
        BY <1>2, <1>3, <3>1, PendingFacts
    <2>4. x \in Live' <=> st # "Disconnected"
      BY <1>2, <1>3, <1>5 DEF Live, TypeOK, States
    <2>5. {"Confirmed", "Disconnected"} \subseteq States
      BY DEF States
    <2>6. Fresh(x)'
      BY <1>0, <1>4, <2>3 DEF CallOK, Fresh
    <2>7. InStep(x)'
      <3> SUFFICES ASSUME NEW s \in States, NEW t \in States, StateEvent(x, s) \in Pending', CallEvent(x, t) \in Pending'
                   PROVE  Rank(t) < Rank(s)
        BY DEF InStep
      <3>1. StateEvent(x, s) \in Pending /\ Rank(st) < Rank(s)
        BY <2>1, <2>2
      <3>2. t = st \/ Rank(t) < Rank(s)
        BY <1>4, <2>1, <3>1 DEF CallOK, InStep
      <3> QED
        BY <3>1, <3>2
    <2>8. Coming(x)'
      BY <2>1 DEF Coming
    <2>9. Alive(x)'
      BY <1>0, <1>3, <1>4, <2>1, <2>4, <2>5 DEF CallOK, Alive
    <2>10. st = "Disconnected" => /\ \A s \in States : StateEvent(x, s) \notin Pending'
                                  /\ inv[x] = "Disconnected"
      BY <1>2, <1>3, <1>4, <2>1, <2>2, <2>3 DEF Rank, States, TypeOK, CallOK, Fresh
    <2>11. Over(x)'
      BY <1>0, <1>3, <1>4, <2>1, <2>4, <2>5, <2>10 DEF CallOK, Alive, Over, Gone
    <2>12. Talk(x)'
      <3>1. ~Gone(x)
        BY <1>3 DEF Gone
      <3>2. CASE st = "Disconnected"
        <4>1. StateEvent(x, "Confirmed") \notin Pending
          BY <2>1, <2>5, <2>10, <3>2
        <4> QED
          BY <1>0, <1>4, <2>1, <2>5, <3>1, <3>2, <4>1 DEF CallOK, Talk
      <3>3. CASE st # "Disconnected"
        BY <1>0, <1>3, <1>4, <2>1, <2>5, <3>1, <3>3 DEF CallOK, Talk
      <3> QED
        BY <3>2, <3>3
    <2> QED
      BY <2>6, <2>7, <2>8, <2>9, <2>11, <2>12 DEF CallOK
  <1> QED
    BY <1>3, <1>5, <1>7, <1>8, <1>9

\* The controller takes a state over.  The last one makes the row, of what its
\* session knows by then, and takes the session away.
LEMMA EventTracks ==
  ASSUME IInv, OnCallEvent, NEW x, NEW st, x = Head(queue).call, st = Head(queue).st
  PROVE  /\ QueueOK' /\ \A c \in CallIds : CallOK(c)'
         /\ x \in CallIds /\ st \in States
         /\ CallEvent(x, st) \in Pending /\ Pending' = Pending \ {CallEvent(x, st)}
  <1>0. UNCHANGED <<m_records, inbound, identified, nextCallId, inv, everConfirmed>>
    BY DEF OnCallEvent, managerVars, stackVars
  <1>1. queue # <<>> /\ Head(queue).type = "callEvent" /\ queue' = Tail(queue)
    BY DEF OnCallEvent
  <1>2. TypeOK /\ QueueOK
    BY DEF IInv
  <1>3. /\ x \in CallIds /\ st \in States /\ Head(queue) = CallEvent(x, st) /\ CallEvent(x, st) \in Pending
    BY <1>1, <1>2, HeadFacts, EventForms
  <1>4. CallOK(x) /\ \A f \in Pending \ {CallEvent(x, st)} : Precedes(CallEvent(x, st), f)
    BY <1>1, <1>2, <1>3, HeadFacts DEF IInv
  <1>5. /\ sessions' = IF st = "Disconnected" THEN sessions \ {x} ELSE sessions \cup {x}
        /\ connected' = IF st = "Disconnected" THEN connected \ {x}
                        ELSE IF st = "Confirmed" THEN connected \cup {x} ELSE connected
        /\ rows' = IF st = "Disconnected" /\ x \in identified
                   THEN [rows EXCEPT ![x] = Append(rows[x], x \in connected)] ELSE rows
    BY DEF OnCallEvent, Forgotten, Logged
  <1>6. QueueOK' /\ Pending' = Pending \ {CallEvent(x, st)}
    BY <1>0, <1>1, <1>2, <1>3, Consume
  <1>7. ASSUME NEW c \in CallIds, c # x PROVE CallOK(c)'
    <2>1. /\ rows'[c] = rows[c] /\ CallOK(c) /\ (c \in sessions' <=> c \in sessions)
          /\ (c \in connected' <=> c \in connected)
      BY <1>2, <1>5, <1>7 DEF TypeOK, IInv
    <2>2. /\ Arrives(c) # CallEvent(x, st)
          /\ \A s \in States : StateEvent(c, s) # CallEvent(x, st) /\ CallEvent(c, s) # CallEvent(x, st)
      BY <1>7, EventFacts
    <2> QED
      BY <1>0, <1>6, <1>7, <2>1, <2>2, SameCall
  <1>8. CallOK(x)'
    <2>1. /\ Arrives(x) \notin Pending /\ Arrives(x) \notin Pending'
          /\ \A s \in States : StateEvent(x, s) \in Pending' <=> StateEvent(x, s) \in Pending
          /\ \A s \in States : CallEvent(x, s) \in Pending' <=> CallEvent(x, s) \in Pending /\ s # st
      <3>1. /\ \A s \in States : StateEvent(x, s) # CallEvent(x, st)
            /\ \A s \in States : CallEvent(x, s) = CallEvent(x, st) => s = st
        BY EventFacts
      <3>2. Arrives(x) \notin Pending
        BY <1>3, <1>4 DEF CallOK, Coming
      <3> QED
        BY <1>6, <3>1, <3>2
    <2>2. \A s \in States : CallEvent(x, s) \in Pending /\ s # st => Rank(st) < Rank(s)
      <3> SUFFICES ASSUME NEW s \in States, CallEvent(x, s) \in Pending, s # st PROVE Rank(st) < Rank(s)
        OBVIOUS
      <3>1. Precedes(CallEvent(x, st), CallEvent(x, s))
        BY <1>4, EventFacts
      <3> QED
        BY <3>1 DEF Precedes, CallEvent, Told, Stage
    <2>3. x < nextCallId
      <3>1. CallEvent(x, st).call = x
        BY DEF CallEvent
      <3> QED
        BY <1>2, <1>3, <3>1, PendingFacts
    <2>4. (x \in Live' <=> x \in Live) /\ (Gone(x)' <=> Gone(x)) /\ (Gone(x) <=> x \notin Live)
      BY <1>0, <2>1, <2>3 DEF Live, Gone
    <2>5. {"Confirmed", "Disconnected"} \subseteq States
      BY DEF States
    <2>6. Fresh(x)' /\ InStep(x)' /\ Coming(x)'
      BY <1>0, <1>4, <2>1, <2>3 DEF CallOK, Fresh, InStep, Coming
    <2>7. CASE st # "Disconnected"
      <3>1. rows' = rows /\ x \in sessions'
        BY <1>5, <2>7
      <3>2. Alive(x)'
        BY <1>0, <1>4, <2>1, <2>4, <2>5, <3>1 DEF CallOK, Alive
      <3>3. Over(x)'
        BY <1>0, <1>3, <1>4, <2>1, <2>4, <2>5, <2>7, <3>1 DEF CallOK, Over
      <3>4. Gone(x) => CallEvent(x, "Disconnected") \in Pending
        BY <1>3, <1>4 DEF CallOK, Over
      <3>5. Talk(x)'
        BY <1>0, <1>3, <1>4, <1>5, <2>1, <2>4, <2>5, <2>7, <3>4 DEF CallOK, Talk
      <3> QED
        BY <2>6, <3>2, <3>3, <3>5 DEF CallOK
    <2>8. CASE st = "Disconnected"
      <3>1. Gone(x) /\ x \notin Live
        BY <1>3, <1>4, <2>4, <2>8 DEF CallOK, Alive
      <3>2. rows[x] = <<>> /\ inv[x] = "Disconnected" /\ \A s \in States : StateEvent(x, s) \notin Pending
        BY <1>3, <1>4, <2>8, <3>1 DEF CallOK, Over
      <3>3. \A s \in States : CallEvent(x, s) \notin Pending'
        BY <2>1, <2>2, <2>8 DEF Rank, States
      <3>4. x \in connected <=> x \in everConfirmed
        <4>1. CallEvent(x, "Confirmed") \notin Pending
          BY <2>2, <2>5, <2>8 DEF Rank
        <4> QED
          BY <1>3, <1>4, <2>5, <2>8, <3>2, <4>1 DEF CallOK, Talk
      <3>5. rows'[x] = Final(x)'
        <4>1. CASE x \in identified
          <5>1. rows'[x] = Append(<<>>, x \in connected)
            BY <1>2, <1>3, <1>5, <2>8, <3>2, <4>1 DEF TypeOK
          <5>2. Append(<<>>, x \in connected) = <<x \in connected>>
            OBVIOUS
          <5>3. (x \in connected) = (x \in everConfirmed)
            BY <3>4
          <5> QED
            BY <1>0, <4>1, <5>1, <5>2, <5>3 DEF Final
        <4>2. CASE x \notin identified
          BY <1>0, <1>5, <3>2, <4>2 DEF Final
        <4> QED
          BY <4>1, <4>2
      <3>6. x \notin sessions' /\ x \notin connected'
        BY <1>5, <2>8
      <3>7. Alive(x)'
        BY <2>1, <2>4, <3>1 DEF Alive
      <3>8. Over(x)'
        BY <1>0, <2>1, <2>5, <3>2, <3>3, <3>5, <3>6 DEF Over
      <3>9. Talk(x)'
        BY <2>1, <2>4, <2>5, <3>1, <3>2, <3>3, <3>6 DEF Talk
      <3> QED
        BY <2>6, <3>7, <3>8, <3>9 DEF CallOK
    <2> QED
      BY <2>7, <2>8
  <1> QED
    BY <1>3, <1>6, <1>7, <1>8

\* Steps that touch neither records, sessions, rows nor the queue.
LEMMA QuietTracks ==
  ASSUME IInv, UNCHANGED <<m_records, queue, inbound, identified, sessions, connected, rows, inv,
                           everConfirmed, nextCallId>>
  PROVE  QueueOK' /\ (\A c \in CallIds : CallOK(c)') /\ Pending' = Pending /\ Live' = Live
  <1>1. QueueOK' /\ Pending' = Pending /\ Live' = Live
    BY DEF IInv, QueueOK, Pending, Live
  <1> QED
    BY <1>1, SameCall DEF IInv

\* Every step keeps the queue and each call in order.
LEMMA TracksKeep ==
  ASSUME IInv, Next PROVE QueueOK' /\ \A c \in CallIds : CallOK(c)'
  <1>1. ASSUME NEW t \in Targets, Dial(t) PROVE QueueOK' /\ \A c \in CallIds : CallOK(c)'
    BY <1>1, DialTracks
  <1>2. CASE AcceptIncoming \/ DeclineIncoming
    BY <1>2, QuietTracks DEF AcceptIncoming, DeclineIncoming, managerVars, sessionVars
  <1>3. ASSUME NEW f \in Features, ToggleSetting(f) PROVE QueueOK' /\ \A c \in CallIds : CallOK(c)'
    BY <1>3, QuietTracks DEF ToggleSetting, managerVars, sessionVars, stackVars
  <1>4. CASE OnIncomingCall
    BY <1>4, IncomingTracks
  <1>5. CASE OnCallState
    BY <1>5, StateTracks
  <1>6. CASE OnCallEvent
    BY <1>6, EventTracks
  <1>7. CASE StackIncomingCall
    BY <1>7, StackIncomingTracks
  <1>8. ASSUME NEW c \in CallIds, Hangup(c) \/ AutoAnswerFires(c) \/ NoAnswerFires(c) \/ LingerExpires(c)
        PROVE  QueueOK' /\ \A d \in CallIds : CallOK(d)'
    BY <1>8, QuietTracks
    DEF Hangup, AutoAnswerFires, NoAnswerFires, LingerExpires, managerVars, sessionVars, stackVars
  <1>9. ASSUME NEW c \in CallIds, NEW st \in States, StackCallState(c, st)
        PROVE  QueueOK' /\ \A d \in CallIds : CallOK(d)'
    BY <1>9, StackStateTracks
  <1> QED
    BY <1>1, <1>2, <1>3, <1>4, <1>5, <1>6, <1>7, <1>8, <1>9 DEF Next, States

-----------------------------------------------------------------------------
(* The timers of an incoming call.                                         *)

\* Nothing of the timers changes and nothing arrives.
LEMMA TimersUntouched ==
  ASSUME TimersOK, UNCHANGED <<answered, ended, answerTimers, noAnswerTimers>>,
         m_incomingCallId' \in {m_incomingCallId, kInvalidCallId},
         \A c \in CallIds : c >= nextCallId' \/ Arrives(c) \in Pending' => c >= nextCallId \/ Arrives(c) \in Pending,
         TypeOK
  PROVE  TimersOK'
  <1>1. kInvalidCallId \notin CallIds
    BY BoundsAssumption DEF CallIds, kInvalidCallId
  <1> QED
    BY <1>1 DEF TimersOK, TypeOK

\* Every step keeps the no-answer timer off answered calls.
LEMMA TimersKeep ==
  ASSUME IInv, Next PROVE TimersOK'
  <1>0. TypeOK /\ QueueOK /\ TimersOK /\ (\A c \in CallIds : CallOK(c)) /\ nextCallId \in Nat
        /\ (\A c \in CallIds : c \in Nat) /\ kInvalidCallId \notin CallIds
    BY BoundsAssumption DEF IInv, TypeOK, CallIds, kInvalidCallId
  <1>l. \A c \in Live : c \in CallIds /\ c < nextCallId /\ Arrives(c) \notin Pending
    BY <1>0 DEF Live, CallOK, Fresh, Coming
  <1>1. ASSUME NEW t \in Targets, Dial(t) PROVE TimersOK'
    <2>1. \A c \in CallIds : c >= nextCallId' \/ Arrives(c) \in Pending' => c >= nextCallId \/ Arrives(c) \in Pending
      <3>1. CASE nextCallId' = nextCallId /\ queue' = queue
        BY <3>1 DEF Pending
      <3>2. CASE /\ nextCallId \in CallIds /\ nextCallId' = nextCallId + 1
                 /\ inv' = [inv EXCEPT ![nextCallId] = "Calling"]
                 /\ queue' = Append(queue, StateEvent(nextCallId, "Calling"))
        <4>1. Pending' = Pending \cup {StateEvent(nextCallId, "Calling")}
          BY <1>0, <3>2, PostFirst
        <4>2. \A c \in CallIds : Arrives(c) # StateEvent(nextCallId, "Calling")
          BY EventFacts
        <4> QED
          BY <1>0, <3>2, <4>1, <4>2
      <3> QED
        BY <1>1, <3>1, <3>2 DEF Dial, StateEvent
    <2> QED
      BY <1>0, <1>1, <2>1, TimersUntouched DEF Dial, timerVars
  <1>2. ASSUME AcceptIncoming PROVE TimersOK'
    <2>1. m_incomingCallId \in CallIds
      BY <1>0, <1>2 DEF AcceptIncoming, TypeOK
    <2>2. PICK ok \in BOOLEAN : /\ AnswerSession(m_incomingCallId, ok)
                                /\ m_incomingCallId' = IF ok THEN kInvalidCallId ELSE m_incomingCallId
      BY <1>2 DEF AcceptIncoming
    <2>3. \/ answered' = answered
          \/ /\ m_incomingCallId \in Live /\ ended[m_incomingCallId] = "no"
             /\ answered' = answered \cup {m_incomingCallId} /\ ok
      BY <1>0, <2>1, <2>2, CommandsTyped
    <2>4. UNCHANGED <<ended, answerTimers, noAnswerTimers, nextCallId>> /\ Pending' = Pending
      BY <1>2 DEF AcceptIncoming, timerVars, Pending
    <2> QED
      BY <1>0, <1>l, <2>2, <2>3, <2>4 DEF TimersOK, TypeOK
  <1>3. ASSUME DeclineIncoming PROVE TimersOK'
    <2>1. m_incomingCallId \in CallIds
      BY <1>0, <1>3 DEF DeclineIncoming, TypeOK
    <2>2. PICK ok \in BOOLEAN : /\ EndSession(m_incomingCallId, "dropped", ok)
                                /\ m_incomingCallId' = IF ok THEN kInvalidCallId ELSE m_incomingCallId
      BY <1>3 DEF DeclineIncoming
    <2>3. ended' = ended \/ ended' = [ended EXCEPT ![m_incomingCallId] = "dropped"]
      BY <1>0, <2>1, <2>2, CommandsTyped
    <2>4. UNCHANGED <<answered, answerTimers, noAnswerTimers, nextCallId>> /\ Pending' = Pending
      BY <1>3 DEF DeclineIncoming, timerVars, Pending
    <2>5. \A c \in CallIds : ended[c] # "forwarded" => ended'[c] # "forwarded"
      BY <1>0, <2>3 DEF TypeOK
    <2> QED
      BY <1>0, <2>2, <2>4, <2>5 DEF TimersOK, TypeOK
  <1>4. ASSUME NEW f \in Features, ToggleSetting(f) PROVE TimersOK'
    BY <1>0, <1>4, TimersUntouched DEF ToggleSetting, timerVars, stackVars, Pending
  <1>5. ASSUME OnIncomingCall PROVE TimersOK'
    <2>1. PICK x : x = Head(queue).call
      OBVIOUS
    <2>2. /\ x \in CallIds /\ Arrives(x) \in Pending
          /\ Pending' = (Pending \ {Arrives(x)}) \cup {CallEvent(x, "Calling")}
      BY <1>5, <2>1, IncomingTracks
    <2>3. x \notin answered /\ x \notin answerTimers /\ x \notin noAnswerTimers
      BY <1>0, <2>2 DEF TimersOK
    <2>4. /\ UNCHANGED <<answered, nextCallId>> /\ m_incomingCallId' = x
          /\ \/ UNCHANGED <<answerTimers, noAnswerTimers>>
             \/ answerTimers' = answerTimers \cup {x} /\ noAnswerTimers' = noAnswerTimers
             \/ answerTimers' = answerTimers /\ noAnswerTimers' = noAnswerTimers \cup {x}
          /\ ended' = ended \/ \E why : ended' = [ended EXCEPT ![x] = why]
      <3> DEFINE policy == Policy(Cardinality(Live \cup {x}))
      <3>1. /\ UNCHANGED <<answered, nextCallId>> /\ m_incomingCallId' = x
            /\ answerTimers' = IF policy = "autoAnswer" THEN answerTimers \cup {x} ELSE answerTimers
            /\ noAnswerTimers' = IF policy = "noAnswer" THEN noAnswerTimers \cup {x} ELSE noAnswerTimers
        BY <1>5, <2>1 DEF OnIncomingCall
      <3>2. ended' = ended \/ \E why : ended' = [ended EXCEPT ![x] = why]
        BY <1>5, <2>1 DEF OnIncomingCall
      <3> HIDE DEF policy
      <3> QED
        BY <3>1, <3>2
    <2>5. \A c \in answered : ended'[c] # "forwarded"
      BY <1>0, <2>2, <2>3, <2>4 DEF TimersOK, TypeOK
    <2>6. \A c \in CallIds : Arrives(c) \in Pending' => Arrives(c) \in Pending /\ c # x
      BY <2>2, EventFacts
    <2>7. x < nextCallId
      BY <1>0, <2>2, PendingFacts, EventFacts
    <2> QED
      BY <1>0, <2>3, <2>4, <2>5, <2>6, <2>7 DEF TimersOK, TypeOK
  <1>6. ASSUME OnCallState PROVE TimersOK'
    <2>1. PICK x, st : x = Head(queue).call /\ st = Head(queue).st
      OBVIOUS
    <2>2. Pending' = (Pending \ {StateEvent(x, st)}) \cup {CallEvent(x, st)}
      BY <1>6, <2>1, StateTracks
    <2>3. \A c \in CallIds : Arrives(c) # CallEvent(x, st)
      BY EventFacts
    <2> QED
      BY <1>0, <1>6, <2>2, <2>3, TimersUntouched DEF OnCallState, timerVars, stackVars
  <1>7. ASSUME OnCallEvent PROVE TimersOK'
    <2>1. PICK x, st : x = Head(queue).call /\ st = Head(queue).st
      OBVIOUS
    <2>2. Pending' = Pending \ {CallEvent(x, st)}
      BY <1>7, <2>1, EventTracks
    <2>3. m_incomingCallId' \in {m_incomingCallId, kInvalidCallId}
      BY <1>7 DEF OnCallEvent, PromptAfter
    <2> QED
      BY <1>0, <1>7, <2>2, <2>3, TimersUntouched DEF OnCallEvent, timerVars, stackVars
  <1>8. ASSUME StackIncomingCall PROVE TimersOK'
    <2>1. /\ nextCallId \in CallIds /\ nextCallId' = nextCallId + 1
          /\ inv' = [inv EXCEPT ![nextCallId] = "Calling"]
          /\ queue' = Append(queue, Arrives(nextCallId))
      BY <1>8 DEF StackIncomingCall, Arrives
    <2>2. Pending' = Pending \cup {Arrives(nextCallId)}
      BY <1>0, <2>1, PostFirst
    <2>3. \A c \in CallIds : Arrives(c) = Arrives(nextCallId) => c = nextCallId
      BY EventFacts
    <2>4. \A c \in CallIds : c >= nextCallId' \/ Arrives(c) \in Pending' => c >= nextCallId \/ Arrives(c) \in Pending
      BY <1>0, <2>1, <2>2, <2>3
    <2> QED
      BY <1>0, <1>8, <2>4, TimersUntouched DEF StackIncomingCall, timerVars
  <1>9. ASSUME NEW c \in CallIds, Hangup(c) PROVE TimersOK'
    <2>1. PICK ok \in BOOLEAN : EndSession(c, "dropped", ok)
      BY <1>9 DEF Hangup
    <2>2. ended' = ended \/ ended' = [ended EXCEPT ![c] = "dropped"]
      BY <1>0, <2>1, CommandsTyped
    <2>3. \A d \in CallIds : ended[d] # "forwarded" => ended'[d] # "forwarded"
      BY <1>0, <2>2 DEF TypeOK
    <2>4. UNCHANGED <<answered, answerTimers, noAnswerTimers, nextCallId, m_incomingCallId>> /\ Pending' = Pending
      BY <1>9 DEF Hangup, timerVars, Pending
    <2> QED
      BY <1>0, <2>3, <2>4 DEF TimersOK, TypeOK
  <1>10. ASSUME NEW c \in CallIds, AutoAnswerFires(c) PROVE TimersOK'
    <2>1. \/ answered' = answered
          \/ c \in Live /\ ended[c] = "no" /\ answered' = answered \cup {c}
      BY <1>0, <1>10, CommandsTyped DEF AutoAnswerFires
    <2>2. /\ UNCHANGED <<ended, noAnswerTimers, nextCallId, m_incomingCallId>> /\ Pending' = Pending
          /\ c \in answerTimers /\ answerTimers' = answerTimers \ {c}
      BY <1>10 DEF AutoAnswerFires, Pending
    <2>3. c \notin noAnswerTimers
      BY <1>0, <2>2 DEF TimersOK
    <2> QED
      BY <1>0, <1>l, <2>1, <2>2, <2>3 DEF TimersOK
  <1>11. ASSUME NEW c \in CallIds, NoAnswerFires(c) PROVE TimersOK'
    <2>1. \/ ended' = ended
          \/ m_incomingCallId = c /\ ended' = [ended EXCEPT ![c] = "forwarded"]
      BY <1>0, <1>11, CommandsTyped DEF NoAnswerFires
    <2>2. /\ UNCHANGED <<answered, answerTimers, nextCallId, m_incomingCallId>> /\ Pending' = Pending
          /\ c \in noAnswerTimers /\ noAnswerTimers' = noAnswerTimers \ {c}
      BY <1>11 DEF NoAnswerFires, Pending
    <2>3. m_incomingCallId = c => c \notin answered
      BY <1>0, <2>2 DEF TimersOK
    <2>4. \A d \in answered : ended'[d] # "forwarded"
      BY <1>0, <2>1, <2>3 DEF TimersOK, TypeOK
    <2> QED
      BY <1>0, <2>2, <2>4 DEF TimersOK
  <1>12. ASSUME NEW c \in CallIds, LingerExpires(c) PROVE TimersOK'
    BY <1>0, <1>12, TimersUntouched DEF LingerExpires, timerVars, stackVars, Pending
  <1>13. ASSUME NEW c \in CallIds, NEW st \in States, StackCallState(c, st) PROVE TimersOK'
    <2>1. st \in StateAfter(c) /\ queue' = Append(queue, StateEvent(c, st)) /\ inv' = [inv EXCEPT ![c] = st]
          /\ UNCHANGED <<answered, ended, answerTimers, noAnswerTimers, nextCallId, m_incomingCallId>>
      BY <1>13 DEF StackCallState, StateEvent, timerVars
    <2>2. inv[c] # "none" /\ Rank(inv[c]) < Rank(st)
      BY <1>0, <2>1, StateAfterFacts
    <2>3. c < nextCallId
      BY <1>0, <2>2 DEF CallOK, Fresh
    <2>4. Pending' = Pending \cup {StateEvent(c, st)}
      BY <1>0, <2>1, <2>2, <2>3, PostState
    <2>5. \A d \in CallIds : Arrives(d) # StateEvent(c, st)
      BY EventFacts
    <2> QED
      BY <1>0, <2>1, <2>4, <2>5, TimersUntouched
  <1> QED
    BY <1>1, <1>2, <1>3, <1>4, <1>5, <1>6, <1>7, <1>8, <1>9, <1>10, <1>11, <1>12, <1>13 DEF Next, States

-----------------------------------------------------------------------------
(* What the user sees.                                                     *)

\* No step makes a second outbound call to a target.
LEMMA OutboundKeeps ==
  ASSUME IInv, Next PROVE NoDuplicateOutbound'
  <1>0. TypeOK /\ NoDuplicateOutbound /\ \A c \in CallIds : CallOK(c)
    BY DEF IInv
  <1>1. ASSUME Live' \ inbound' \subseteq Live \ inbound,
               \A c \in CallIds : dialedTarget'[c] \in {dialedTarget[c], NoTarget}
        PROVE  NoDuplicateOutbound'
    BY <1>0, <1>1 DEF NoDuplicateOutbound, Live
  <1>2. CASE UNCHANGED <<m_records, inbound, dialedTarget>>
    BY <1>1, <1>2 DEF Live
  <1>3. ASSUME NEW t \in Targets, Dial(t) PROVE NoDuplicateOutbound'
    <2>1. \A c \in Live : dialedTarget[c] # t
      BY <1>0, <1>3 DEF Dial, HasLiveOutboundTo, CallOK, Alive, Live
    <2>2. CASE /\ nextCallId \in CallIds
               /\ m_records' = [m_records EXCEPT ![nextCallId] = "Calling"]
               /\ dialedTarget' = [dialedTarget EXCEPT ![nextCallId] = t]
               /\ inbound' = inbound
      <3>1. \A c \in Live' : c # nextCallId => c \in Live /\ dialedTarget'[c] = dialedTarget[c]
        BY <1>0, <2>2 DEF Live, TypeOK
      <3>2. dialedTarget'[nextCallId] = t
        BY <1>0, <2>2 DEF TypeOK
      <3> SUFFICES ASSUME NEW c \in Live' \ inbound', NEW d \in Live' \ inbound', c # d, dialedTarget'[c] # NoTarget
                   PROVE  dialedTarget'[c] # dialedTarget'[d]
        BY DEF NoDuplicateOutbound
      <3>3. CASE c = nextCallId
        BY <2>1, <3>1, <3>2, <3>3
      <3>4. CASE d = nextCallId
        BY <2>1, <3>1, <3>2, <3>4
      <3>5. CASE c # nextCallId /\ d # nextCallId
        BY <1>0, <2>2, <3>1, <3>5 DEF NoDuplicateOutbound
      <3> QED
        BY <3>3, <3>4, <3>5
    <2> QED
      BY <1>2, <1>3, <2>2 DEF Dial
  <1>4. CASE OnIncomingCall
    <2>1. PICK x : x = Head(queue).call
      OBVIOUS
    <2>2. x \in CallIds /\ Arrives(x) \in Pending
      BY <1>4, <2>1, IncomingTracks
    <2>3. x \in inbound
      BY <1>0, <2>2 DEF CallOK, Coming
    <2>4. m_records' = [m_records EXCEPT ![x] = "Calling"] /\ UNCHANGED <<inbound, dialedTarget>>
      BY <1>4, <2>1 DEF OnIncomingCall
    <2> QED
      BY <1>0, <1>1, <2>3, <2>4 DEF Live, TypeOK
  <1>5. CASE OnCallState
    <2>1. PICK x, st : x = Head(queue).call /\ st = Head(queue).st
      OBVIOUS
    <2>2. /\ x \in Live
          /\ m_records' = [m_records EXCEPT ![x] = IF st = "Disconnected" THEN "Absent" ELSE st]
      BY <1>5, <2>1, StateTracks
    <2>3. Live' \subseteq Live
      BY <1>0, <2>2 DEF Live, TypeOK
    <2>4. UNCHANGED <<inbound, dialedTarget>>
      BY <1>5 DEF OnCallState, sessionVars
    <2> QED
      BY <1>1, <2>3, <2>4
  <1>6. CASE OnCallEvent
    <2>1. /\ UNCHANGED <<m_records, inbound>>
          /\ dialedTarget' \in {dialedTarget, [dialedTarget EXCEPT ![Head(queue).call] = NoTarget]}
      BY <1>6 DEF OnCallEvent, managerVars
    <2>2. \A c \in CallIds : dialedTarget'[c] \in {dialedTarget[c], NoTarget}
      BY <1>0, <2>1 DEF TypeOK
    <2> QED
      BY <1>1, <2>1, <2>2 DEF Live
  <1>7. CASE StackIncomingCall
    <2>1. Live' \ inbound' \subseteq Live \ inbound /\ UNCHANGED dialedTarget
      BY <1>7 DEF StackIncomingCall, sessionVars, Live
    <2> QED
      BY <1>1, <2>1
  <1>8. CASE AcceptIncoming \/ DeclineIncoming \/ \E f \in Features : ToggleSetting(f)
    BY <1>2, <1>8 DEF AcceptIncoming, DeclineIncoming, ToggleSetting, managerVars, sessionVars
  <1>9. ASSUME NEW c \in CallIds,
               \/ Hangup(c) \/ AutoAnswerFires(c) \/ NoAnswerFires(c) \/ LingerExpires(c)
               \/ \E st \in States : StackCallState(c, st)
        PROVE  NoDuplicateOutbound'
    BY <1>2, <1>9
    DEF Hangup, AutoAnswerFires, NoAnswerFires, LingerExpires, StackCallState, managerVars, sessionVars
  <1> QED
    BY <1>3, <1>4, <1>5, <1>6, <1>7, <1>8, <1>9 DEF Next, States

\* With a live call, the state shown does not depend on the event that is handled.
LEMMA AggregateOfLive ==
  ASSUME TypeOK, Live # {}, NEW st PROVE AggregateCallState(st) = AggregateCallState("Calling")
  <1>1. PICK c \in CallIds : m_records[c] \in {"Calling", "EarlyMedia", "Confirmed"} /\ c \in Live
    BY DEF Live, TypeOK
  <1>2. m_records[c] \in {m_records[d] : d \in Live}
    BY <1>1
  <1> QED
    BY <1>1, <1>2 DEF AggregateCallState

\* Whatever empties the queue settles the ringtone and the state shown.
LEMMA RingingKeeps ==
  ASSUME IInv, Next PROVE RingingSettles'
  <1>0. TypeOK /\ QueueOK /\ RingingSettles
    BY DEF IInv
  <1>1. CASE queue' # <<>>
    BY <1>1 DEF RingingSettles, CaughtUp
  <1>2. ASSUME UNCHANGED <<m_records, inbound, queue, m_callState>>, m_ringing' \in {m_ringing, IsRinging(m_records)}
        PROVE  RingingSettles'
    <2>1. (IsRinging(m_records)' <=> IsRinging(m_records)) /\ Live' = Live
      BY <1>2 DEF IsRinging, Live
    <2>2. AggregateCallState("Calling")' = AggregateCallState("Calling")
      BY <1>2, <2>1 DEF AggregateCallState
    <2>3. IsRinging(m_records)' = IsRinging(m_records)
      BY <2>1 DEF IsRinging
    <2> QED
      BY <1>0, <1>2, <2>1, <2>2, <2>3 DEF RingingSettles, CaughtUp
  <1>3. ASSUME NEW t \in Targets, Dial(t) PROVE RingingSettles'
    <2>1. CASE UNCHANGED <<m_records, queue>>
      BY <1>2, <1>3, <2>1 DEF Dial
    <2>2. CASE \E e : queue' = Append(queue, e)
      <3>1. PICK e : queue' = Append(queue, e)
        BY <2>2
      <3>2. queue' # <<>>
        BY <1>0, <3>1 DEF QueueOK
      <3> QED
        BY <1>1, <3>2
    <2> QED
      BY <1>3, <2>1, <2>2 DEF Dial
  <1>4. CASE OnIncomingCall
    BY <1>1, <1>4, IncomingTracks
  <1>5. CASE OnCallState
    BY <1>1, <1>5, StateTracks
  <1>6. CASE OnCallEvent
    <2>1. PICK st : st = Head(queue).st
      OBVIOUS
    <2>2. /\ UNCHANGED <<m_records, inbound>> /\ m_ringing' = IsRinging(m_records)
          /\ m_callState' = AggregateCallState(st)
      BY <1>6, <2>1 DEF OnCallEvent, RingingAfterEvent, managerVars
    <2>3. IsRinging(m_records)' = IsRinging(m_records) /\ Live' = Live
      BY <2>2 DEF IsRinging, Live
    <2>4. AggregateCallState("Calling")' = AggregateCallState("Calling")
      BY <2>2, <2>3 DEF AggregateCallState
    <2>5. Live # {} => m_callState' = AggregateCallState("Calling")
      BY <1>0, <2>2, AggregateOfLive
    <2> QED
      BY <2>2, <2>3, <2>4, <2>5 DEF RingingSettles
  <1>7. CASE StackIncomingCall \/ \E c \in CallIds, st \in States : StackCallState(c, st)
    <2>1. PICK e : queue' = Append(queue, e)
      BY <1>7 DEF StackIncomingCall, StackCallState
    <2>2. queue' # <<>>
      BY <1>0, <2>1 DEF QueueOK
    <2> QED
      BY <1>1, <2>2
  <1>8. CASE AcceptIncoming \/ DeclineIncoming \/ \E f \in Features : ToggleSetting(f)
    BY <1>2, <1>8 DEF AcceptIncoming, DeclineIncoming, ToggleSetting, managerVars
  <1>9. ASSUME NEW c \in CallIds, Hangup(c) \/ AutoAnswerFires(c) \/ NoAnswerFires(c) \/ LingerExpires(c)
        PROVE  RingingSettles'
    BY <1>2, <1>9 DEF Hangup, AutoAnswerFires, NoAnswerFires, LingerExpires, managerVars
  <1> QED
    BY <1>3, <1>4, <1>5, <1>6, <1>7, <1>8, <1>9 DEF Next, States

\* The prompt and the current call, in terms of what is pending.
Prompted(c) == c \in Live \/ CallEvent(c, "Disconnected") \in Pending

\* The prompt and the current call go with their call, at the latest with its last
\* event.
LEMMA PromptsKeep ==
  ASSUME IInv, Next PROVE PromptsAreCurrent'
  <1>0. TypeOK /\ QueueOK /\ kInvalidCallId \notin CallIds
    BY BoundsAssumption DEF IInv, CallIds, kInvalidCallId
  <1>1. \A c \in {m_incomingCallId, m_currentCallId} \ {kInvalidCallId} : Prompted(c)
    BY DEF IInv, PromptsAreCurrent, Prompted, Pending, Elements
  <1>2. SUFFICES \A c \in {m_incomingCallId', m_currentCallId'} \ {kInvalidCallId} : Prompted(c)'
    BY DEF PromptsAreCurrent, Prompted, Pending, Elements
  <1>3. ASSUME {m_incomingCallId', m_currentCallId'} \subseteq {m_incomingCallId, m_currentCallId, kInvalidCallId},
               \A c \in CallIds : c \in {m_incomingCallId', m_currentCallId'} /\ Prompted(c) => Prompted(c)'
        PROVE  \A c \in {m_incomingCallId', m_currentCallId'} \ {kInvalidCallId} : Prompted(c)'
    BY <1>0, <1>1, <1>3 DEF TypeOK
  <1>4. ASSUME UNCHANGED <<m_records, queue>>,
               {m_incomingCallId', m_currentCallId'} \subseteq {m_incomingCallId, m_currentCallId, kInvalidCallId}
        PROVE  \A c \in {m_incomingCallId', m_currentCallId'} \ {kInvalidCallId} : Prompted(c)'
    BY <1>3, <1>4 DEF Prompted, Live, Pending
  <1>5. ASSUME UNCHANGED <<m_records, m_incomingCallId, m_currentCallId>>, Pending \subseteq Pending'
        PROVE  \A c \in {m_incomingCallId', m_currentCallId'} \ {kInvalidCallId} : Prompted(c)'
    BY <1>3, <1>5 DEF Prompted, Live
  <1> DEFINE Goal == \A c \in {m_incomingCallId', m_currentCallId'} \ {kInvalidCallId} : Prompted(c)'
  <1>6. ASSUME NEW t \in Targets, Dial(t) PROVE Goal
    <2>1. CASE UNCHANGED <<m_records, queue>> /\ m_currentCallId' = kInvalidCallId
      BY <1>4, <1>6, <2>1 DEF Dial
    <2>2. CASE /\ nextCallId \in CallIds /\ nextCallId' = nextCallId + 1
               /\ m_records' = [m_records EXCEPT ![nextCallId] = "Calling"]
               /\ inv' = [inv EXCEPT ![nextCallId] = "Calling"]
               /\ queue' = Append(queue, StateEvent(nextCallId, "Calling"))
               /\ m_currentCallId' = nextCallId /\ m_incomingCallId' = m_incomingCallId
      <3>1. Pending \subseteq Pending'
        BY <1>0, <2>2, PostFirst
      <3>2. Live' = Live \cup {nextCallId}
        BY <1>0, <2>2 DEF Live, TypeOK
      <3> QED
        BY <1>1, <2>2, <3>1, <3>2 DEF Prompted
    <2> QED
      BY <1>6, <2>1, <2>2 DEF Dial, StateEvent
  <1>7. CASE OnIncomingCall
    <2>1. PICK x : x = Head(queue).call
      OBVIOUS
    <2>2. x \in CallIds /\ Pending' = (Pending \ {Arrives(x)}) \cup {CallEvent(x, "Calling")}
      BY <1>7, <2>1, IncomingTracks
    <2>3. m_records' = [m_records EXCEPT ![x] = "Calling"] /\ m_incomingCallId' = x /\ m_currentCallId' = m_currentCallId
      BY <1>7, <2>1 DEF OnIncomingCall
    <2>4. Live' = Live \cup {x}
      BY <1>0, <2>2, <2>3 DEF Live, TypeOK
    <2>5. \A c : CallEvent(c, "Disconnected") # Arrives(x)
      BY DEF CallEvent, Arrives
    <2> QED
      BY <1>1, <2>2, <2>3, <2>4, <2>5 DEF Prompted
  <1>8. CASE OnCallState
    <2>1. PICK x, st : x = Head(queue).call /\ st = Head(queue).st
      OBVIOUS
    <2>2. /\ x \in Live /\ st \in States /\ Pending' = (Pending \ {StateEvent(x, st)}) \cup {CallEvent(x, st)}
          /\ m_records' = [m_records EXCEPT ![x] = IF st = "Disconnected" THEN "Absent" ELSE st]
      BY <1>8, <2>1, StateTracks
    <2>3. \A c \in CallIds : c \in Live => c \in Live' \/ (c = x /\ st = "Disconnected")
      BY <1>0, <2>2 DEF Live, TypeOK, States
    <2>4. \A c : CallEvent(c, "Disconnected") # StateEvent(x, st)
      BY EventFacts
    <2>5. m_incomingCallId' = m_incomingCallId /\ m_currentCallId' \in {m_currentCallId, kInvalidCallId}
      BY <1>8 DEF OnCallState
    <2>6. \A c \in CallIds : Prompted(c) => Prompted(c)'
      BY <2>2, <2>3, <2>4 DEF Prompted
    <2> QED
      BY <1>3, <2>5, <2>6
  <1>9. CASE OnCallEvent
    <2>1. PICK x, st : x = Head(queue).call /\ st = Head(queue).st
      OBVIOUS
    <2>2. Pending' = Pending \ {CallEvent(x, st)}
      BY <1>9, <2>1, EventTracks
    <2>3. /\ m_incomingCallId' = IF st = "Disconnected" /\ m_incomingCallId = x THEN kInvalidCallId ELSE m_incomingCallId
          /\ m_currentCallId' = IF st = "Disconnected" /\ m_currentCallId = x THEN kInvalidCallId ELSE m_currentCallId
          /\ m_records' = m_records
      BY <1>9, <2>1 DEF OnCallEvent, PromptAfter, managerVars
    <2>4. \A c : CallEvent(c, "Disconnected") = CallEvent(x, st) => c = x /\ st = "Disconnected"
      BY EventFacts
    <2>5. Live' = Live
      BY <2>3 DEF Live
    <2>6. ASSUME NEW c \in CallIds, c \in {m_incomingCallId', m_currentCallId'}, Prompted(c) PROVE Prompted(c)'
      <3>1. ~(c = x /\ st = "Disconnected")
        BY <1>0, <2>3, <2>6
      <3> QED
        BY <2>2, <2>4, <2>5, <2>6, <3>1 DEF Prompted
    <2> QED
      BY <1>3, <2>3, <2>6
  <1>10. CASE StackIncomingCall
    <2>1. Pending \subseteq Pending'
      BY <1>0, <1>10, PostFirst DEF StackIncomingCall, Arrives
    <2> QED
      BY <1>5, <1>10, <2>1 DEF StackIncomingCall
  <1>11. ASSUME NEW c \in CallIds, NEW st \in States, StackCallState(c, st) PROVE Goal
    <2>1. st \in StateAfter(c) /\ queue' = Append(queue, StateEvent(c, st)) /\ inv' = [inv EXCEPT ![c] = st]
          /\ UNCHANGED <<m_records, nextCallId, m_incomingCallId, m_currentCallId>>
      BY <1>11 DEF StackCallState, StateEvent, managerVars
    <2>2. inv[c] # "none" /\ Rank(inv[c]) < Rank(st)
      BY <1>0, <2>1, StateAfterFacts
    <2>3. c < nextCallId
      BY <2>2 DEF IInv, CallOK, Fresh
    <2>4. Pending \subseteq Pending'
      BY <1>0, <2>1, <2>2, <2>3, PostState
    <2> QED
      BY <1>5, <2>1, <2>4
  <1>12. CASE AcceptIncoming \/ DeclineIncoming \/ \E f \in Features : ToggleSetting(f)
    BY <1>4, <1>12 DEF AcceptIncoming, DeclineIncoming, ToggleSetting, managerVars
  <1>13. ASSUME NEW c \in CallIds, Hangup(c) \/ AutoAnswerFires(c) \/ NoAnswerFires(c) \/ LingerExpires(c)
         PROVE  Goal
    BY <1>4, <1>13 DEF Hangup, AutoAnswerFires, NoAnswerFires, LingerExpires, managerVars
  <1> QED
    BY <1>6, <1>7, <1>8, <1>9, <1>10, <1>11, <1>12, <1>13 DEF Next, States

-----------------------------------------------------------------------------
(* Theorems.                                                               *)

\* The invariant holds of every behaviour.
THEOREM ControllerInvariance == Spec => []IInv
  <1>1. Init => IInv
    <2> SUFFICES ASSUME Init PROVE IInv
      OBVIOUS
    <2>1. Pending = {} /\ Live = {}
      BY DEF Init, Pending, Elements, Live
    <2>2. TypeOK
      <3>1. rows \in [CallIds -> Seq(BOOLEAN)]
        BY DEF Init
      <3>2. /\ dialedTarget \in [CallIds -> Targets \cup {NoTarget}]
            /\ inv \in [CallIds -> States \cup {"none"}]
            /\ ended \in [CallIds -> {"no", "dropped", "forwarded"}]
            /\ m_records \in [CallIds -> {"Absent", "Calling", "EarlyMedia", "Confirmed"}]
        BY DEF Init
      <3>3. /\ {m_currentCallId, m_incomingCallId} \subseteq CallIds \cup {kInvalidCallId}
            /\ m_callState \in {"idle", "calling", "early", "active", "ended"}
            /\ settings \in SUBSET Features /\ toggles \in Nat /\ nextCallId \in Nat \ {0}
        BY DEF Init
      <3>4. /\ {inbound, identified, sessions, connected, answered, everConfirmed} \subseteq SUBSET CallIds
            /\ {answerTimers, noAnswerTimers, m_lingeringCalls} \subseteq SUBSET CallIds
        BY DEF Init
      <3>5. m_ringing \in BOOLEAN
        BY DEF Init
      <3> QED
        BY <3>1, <3>2, <3>3, <3>4, <3>5 DEF TypeOK
    <2>3. QueueOK
      BY <2>1 DEF Init, QueueOK, Ordered
    <2>4. TimersOK
      BY <2>1 DEF Init, TimersOK
    <2>5. \A c \in CallIds : CallOK(c)
      <3>1. \A c \in CallIds : ~(c < nextCallId)
        BY BoundsAssumption DEF Init, CallIds
      <3> QED
        BY <2>1, <3>1 DEF Init, CallOK, Fresh, InStep, Coming, Alive, Over, Gone, Talk
    <2>6. NoDuplicateOutbound /\ PromptsAreCurrent
      BY <2>1 DEF Init, NoDuplicateOutbound, PromptsAreCurrent
    <2>7. RingingSettles
      <3>1. ~IsRinging(m_records)
        BY DEF Init, IsRinging
      <3>2. IsRinging(m_records) \in BOOLEAN
        BY DEF IsRinging
      <3> QED
        BY <2>1, <3>1, <3>2 DEF Init, RingingSettles
    <2> QED
      BY <2>2, <2>3, <2>4, <2>5, <2>6, <2>7 DEF IInv
  <1>2. IInv /\ [Next]_vars => IInv'
    <2> SUFFICES ASSUME IInv, [Next]_vars PROVE IInv'
      OBVIOUS
    <2>1. CASE Next
      <3>1. TypeOK /\ QueueOK
        BY DEF IInv
      <3>2. TypeOK' /\ TimersOK'
        BY <2>1, <3>1, TypeKeeps, TimersKeep
      <3>3. QueueOK' /\ \A c \in CallIds : CallOK(c)'
        BY <2>1, TracksKeep
      <3>4. NoDuplicateOutbound' /\ RingingSettles' /\ PromptsAreCurrent'
        BY <2>1, OutboundKeeps, RingingKeeps, PromptsKeep
      <3> QED
        BY <3>2, <3>3, <3>4 DEF IInv
    <2>2. CASE UNCHANGED vars
      <3>1. UNCHANGED <<m_records, queue, inbound, identified, sessions, connected, rows, inv,
                        everConfirmed, nextCallId>>
        BY <2>2 DEF vars, managerVars, sessionVars, stackVars
      <3>2. QueueOK' /\ (\A c \in CallIds : CallOK(c)') /\ Pending' = Pending /\ Live' = Live
        BY <3>1, QuietTracks
      <3>3. UNCHANGED <<m_currentCallId, m_incomingCallId, m_ringing, m_callState, dialedTarget, answered,
                        ended, answerTimers, noAnswerTimers, settings, toggles, m_lingeringCalls>>
        BY <2>2 DEF vars, managerVars, sessionVars, timerVars, settingVars, stackVars
      <3>4. TypeOK' /\ TimersOK'
        BY <3>1, <3>2, <3>3 DEF IInv, TypeOK, TimersOK
      <3>5. NoDuplicateOutbound' /\ PromptsAreCurrent'
        BY <3>1, <3>2, <3>3 DEF IInv, NoDuplicateOutbound, PromptsAreCurrent
      <3>6. RingingSettles'
        <4>1. IsRinging(m_records)' = IsRinging(m_records) /\ AggregateCallState("Calling")' = AggregateCallState("Calling")
          BY <3>1, <3>2 DEF IsRinging, AggregateCallState
        <4> QED
          BY <3>1, <3>2, <3>3, <4>1 DEF IInv, RingingSettles, CaughtUp
      <3> QED
        BY <3>2, <3>4, <3>5, <3>6 DEF IInv
    <2> QED
      BY <2>1, <2>2
  <1> QED
    BY <1>1, <1>2, PTL DEF Spec

\* However events, handlers, timers and the user interleave, for any number of calls
\* and any length of the queue: a call that is over has one row once the queue is
\* drained, with talk time if it was answered, and never two.
THEOREM HistoryIsComplete == Spec => []HistoryComplete
  <1>1. IInv => HistoryComplete
    <2> SUFFICES ASSUME IInv, NEW c \in CallIds
                 PROVE  /\ Len(rows[c]) <= 1
                        /\ CaughtUp /\ inv[c] = "Disconnected" =>
                             rows[c] = IF c \in identified THEN <<c \in everConfirmed>> ELSE <<>>
      BY DEF HistoryComplete
    <2>1. CallOK(c) /\ TypeOK /\ QueueOK
      BY DEF IInv
    <2>2. rows[c] = <<>> \/ rows[c] = <<c \in everConfirmed>>
      BY <2>1 DEF CallOK, Fresh, Coming, Alive, Over, Gone, Final
    <2>3. Len(rows[c]) <= 1
      <3>1. CASE rows[c] = <<>>
        BY <3>1
      <3>2. CASE rows[c] = <<c \in everConfirmed>>
        <4>1. Len(<<c \in everConfirmed>>) = 1
          OBVIOUS
        <4>2. Len(rows[c]) = 1
          BY <3>2, <4>1, Zenon
        <4> QED
          BY <4>2
      <3> QED
        BY <2>2, <3>1, <3>2, Zenon
    <2>4. ASSUME CaughtUp, inv[c] = "Disconnected" PROVE rows[c] = Final(c)
      <3>1. Pending = {}
        BY <2>1, <2>4, DrainedFacts DEF CaughtUp
      <3>2. Gone(c)
        BY <2>1, <2>4, <3>1 DEF CallOK, Fresh, Alive, Gone
      <3> QED
        BY <2>1, <3>1, <3>2 DEF CallOK, Over
    <2> QED
      BY <2>3, <2>4 DEF Final
  <1> QED
    BY <1>1, ControllerInvariance, PTL

\* Two outbound calls to one target are never up at a time, whatever state the first
\* one is in and whatever is queued about it.
THEOREM NoDuplicateCalls == Spec => []NoDuplicateOutbound
  <1>1. IInv => NoDuplicateOutbound
    BY DEF IInv
  <1> QED
    BY <1>1, ControllerInvariance, PTL

\* Once the queue is drained the tracker has a session for exactly the live calls.
THEOREM SessionsFollowCalls == Spec => []SessionsMatchCalls
  <1>1. IInv => SessionsMatchCalls
    <2> SUFFICES ASSUME IInv, CaughtUp PROVE sessions = Live
      BY DEF SessionsMatchCalls
    <2>1. TypeOK /\ QueueOK /\ Pending = {}
      BY DrainedFacts DEF IInv, CaughtUp
    <2>2. \A c \in CallIds : c \in sessions <=> c \in Live
      BY <2>1 DEF IInv, CallOK, Fresh, Alive, Over, Gone
    <2> QED
      BY <2>1, <2>2 DEF TypeOK, Live
  <1> QED
    BY <1>1, ControllerInvariance, PTL

\* Once the queue is drained the ringtone plays exactly while a call rings, and the
\* state shown is that of the calls that are up.
THEOREM RingingIsSettled == Spec => []RingingSettles
  <1>1. IInv => RingingSettles
    BY DEF IInv
  <1> QED
    BY <1>1, ControllerInvariance, PTL

\* The prompt and the current call are of a call with a record, or its end is queued.
THEOREM PromptsFollowCalls == Spec => []PromptsAreCurrent
  <1>1. IInv => PromptsAreCurrent
    BY DEF IInv
  <1> QED
    BY <1>1, ControllerInvariance, PTL

\* A timer armed when a call arrived never forwards it after it was answered, by the
\* user or by the other timer.
THEOREM AnsweredStaysAnswered == Spec => []AnsweredNotForwarded
  <1>1. IInv => AnsweredNotForwarded
    BY DEF IInv, TimersOK, AnsweredNotForwarded
  <1> QED
    BY <1>1, ControllerInvariance, PTL
=============================================================================
