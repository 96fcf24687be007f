------------------------- MODULE CallManagerProofs -------------------------
(***************************************************************************)
(* TLAPS proofs about CallManager, for every number of calls, accounts,    *)
(* queued events and retry budgets.                                        *)
(***************************************************************************)
EXTENDS CallManager, TLAPS

\* What the three ways of moving the active role leave true of the manager's
\* call bookkeeping and of the re-INVITEs in flight.
LEMMA SetActiveTyped ==
  ASSUME ManagerTypeOK, NEW id \in CallIds, SetActiveCall(id),
         reinvite \in [CallIds -> {"none", "hold", "unhold"}]
  PROVE  /\ m_activeCallId' = id
         /\ held' \subseteq Live
         /\ reinvite' \in [CallIds -> {"none", "hold", "unhold"}]
  BY DEF ManagerTypeOK, SetActiveCall, AutoHeld, Live, Confirmed

\* Arming and disarming a timer keep a table of timer counts.
LEMMA ArmTyped ==
  ASSUME NEW S, NEW B, NEW timers \in [S -> [B -> Nat]], NEW c \in S, NEW n \in B
  PROVE  /\ Arm(timers, c, n) \in [S -> [B -> Nat]]
         /\ timers[c][n] > 0 => Disarm(timers, c, n) \in [S -> [B -> Nat]]
  BY DEF Arm, Disarm

\* requestUnhold() moves the active role to the call it resumes or leaves it,
\* keeps held flags on live records and arms timers within the budgets.
LEMMA RequestUnholdTyped ==
  ASSUME ManagerTypeOK, NEW id \in Live, NEW n \in Budgets,
         NEW timers \in [CallIds -> [Budgets -> Nat]],
         RequestUnhold(id, n, timers),
         reinvite \in [CallIds -> {"none", "hold", "unhold"}]
  PROVE  /\ m_activeCallId' \in {m_activeCallId, id}
         /\ held' \subseteq Live
         /\ unholdTimers' \in [CallIds -> [Budgets -> Nat]]
         /\ reinvite' \in [CallIds -> {"none", "hold", "unhold"}]
  <1> USE DEF ManagerTypeOK, AutoHeld, Live, Confirmed
  <1>1. n > 0 => n - 1 \in Budgets
    BY BoundsAssumption DEF Budgets
  <1>2. n > 0 => Arm(timers, id, n - 1) \in [CallIds -> [Budgets -> Nat]]
    BY <1>1, ArmTyped
  <1>3. QED
    BY <1>2 DEF RequestUnhold

\* After handleDisconnected() the active call is none or a live call, never the
\* one that ended, and the ended call keeps no held flag.
LEMMA PromoteAfterTyped ==
  ASSUME ManagerTypeOK, NEW id \in Live, PromoteAfter(id),
         unholdTimers \in [CallIds -> [Budgets -> Nat]],
         reinvite \in [CallIds -> {"none", "hold", "unhold"}]
  PROVE  /\ m_activeCallId' \in (CallIds \cup {kInvalidCallId}) \ {id}
         /\ m_activeCallId' \in {kInvalidCallId, m_activeCallId} \cup Live
         /\ held' \subseteq Live \ {id}
         /\ unholdTimers' \in [CallIds -> [Budgets -> Nat]]
         /\ reinvite' \in [CallIds -> {"none", "hold", "unhold"}]
  <1> USE DEF ManagerTypeOK, Live, Confirmed, Promotable
  <1>1. PromoteRetries - 1 \in Budgets
    BY BoundsAssumption DEF Budgets
  <1>2. \A c \in CallIds :
          Arm(unholdTimers, c, PromoteRetries - 1) \in [CallIds -> [Budgets -> Nat]]
    BY <1>1, ArmTyped
  <1>3. kInvalidCallId \notin CallIds
    BY DEF CallIds, kInvalidCallId
  <1>4. CASE m_activeCallId # id
    BY <1>4 DEF PromoteAfter
  <1>5. CASE m_activeCallId = id /\ m_activeCallId' = kInvalidCallId
    BY <1>3, <1>5 DEF PromoteAfter
  <1>6. CASE m_activeCallId = id /\ m_activeCallId' # kInvalidCallId
    <2>1. PICK next \in (Confirmed \cap held) \ {id} :
            /\ m_activeCallId' = next
            /\ held' = held \ {id, next}
            /\ \/ /\ reinvite' = [reinvite EXCEPT ![next] = "unhold"]
                  /\ UNCHANGED unholdTimers
               \/ /\ unholdTimers' = Arm(unholdTimers, next, PromoteRetries - 1)
                  /\ UNCHANGED reinvite
      BY <1>6 DEF PromoteAfter
    <2>2. QED
      BY <1>2, <2>1
  <1>7. QED
    BY <1>4, <1>5, <1>6

-----------------------------------------------------------------------------
\* Active call and pending transfers, with typing: the invariant below is
\* inductive.
CallInv ==
  /\ TypeOK
  /\ ActiveIsLive
  /\ PendingTransfersLive

\* The invariant holds when the manager is constructed.
LEMMA CallInvInit == Init => CallInv
  <1> SUFFICES ASSUME Init PROVE CallInv
    OBVIOUS
  <1> USE DEF Init
  <1>1. ManagerTypeOK
    BY DEF ManagerTypeOK, RecordStates, kInvalidCallId
  <1>2. TimersTypeOK
    BY DEF TimersTypeOK
  <1>3. AccountsTypeOK
    BY DEF AccountsTypeOK, kInvalidAccountId
  <1>4. StackTypeOK
    BY DEF StackTypeOK
  <1>5. PairsTypeOK
    BY DEF PairsTypeOK
  <1>6. events \in Seq(Event)
    OBVIOUS
  <1>7. ActiveIsLive /\ PendingTransfersLive
    BY DEF ActiveIsLive, PendingTransfersLive
  <1>8. QED
    BY <1>1, <1>2, <1>3, <1>4, <1>5, <1>6, <1>7 DEF CallInv, TypeOK

\* Facts about state the action leaves alone.
LEMMA Frame ==
  ASSUME TypeOK
  PROVE  /\ UNCHANGED <<m_records, held, m_lingering, m_transfers, m_activeCallId>>
              => ManagerTypeOK'
         /\ UNCHANGED <<lingerTimers, unholdTimers, bridgeTimers>> => TimersTypeOK'
         /\ UNCHANGED accountIds => AccountsTypeOK'
         /\ UNCHANGED <<nextCallId, m_calls, inv, mayConfirm, media, reinvite,
                        hungUp, refers, attempts>> => StackTypeOK'
         /\ UNCHANGED <<bridged, accepted, resumed>> => PairsTypeOK'
         /\ UNCHANGED events => (events \in Seq(Event))'
  <1> USE DEF TypeOK
  <1>1. UNCHANGED <<m_records, held, m_lingering, m_transfers, m_activeCallId>>
          => ManagerTypeOK'
    BY DEF ManagerTypeOK, Live
  <1>2. UNCHANGED <<lingerTimers, unholdTimers, bridgeTimers>> => TimersTypeOK'
    BY DEF TimersTypeOK
  <1>3. UNCHANGED accountIds => AccountsTypeOK'
    BY DEF AccountsTypeOK, accountIds
  <1>4. UNCHANGED <<nextCallId, m_calls, inv, mayConfirm, media, reinvite,
                    hungUp, refers, attempts>> => StackTypeOK'
    BY DEF StackTypeOK
  <1>5. UNCHANGED <<bridged, accepted, resumed>> => PairsTypeOK'
    BY DEF PairsTypeOK
  <1>6. QED
    BY <1>1, <1>2, <1>3, <1>4, <1>5

\* hold() preserves the invariant.
LEMMA HoldPreserves ==
  ASSUME CallInv, NEW id \in CallIds, Hold(id)
  PROVE  CallInv'
  <1> USE DEF CallInv, Hold, transfers
  <1>1. ManagerTypeOK'
    BY DEF TypeOK, ManagerTypeOK, Live
  <1>2. StackTypeOK'
    BY DEF TypeOK, StackTypeOK
  <1>3. ActiveIsLive' /\ PendingTransfersLive'
    BY DEF ActiveIsLive, PendingTransfersLive, Live
  <1>4. QED
    BY <1>1, <1>2, <1>3, Frame DEF TypeOK

\* unhold() preserves the invariant: it resumes a live call or arms a retry.
LEMMA UnholdPreserves ==
  ASSUME CallInv, NEW id \in CallIds, Unhold(id)
  PROVE  CallInv'
  <1> USE DEF CallInv, Unhold, transfers
  <1>1. /\ m_activeCallId' \in {m_activeCallId, id}
        /\ held' \subseteq Live
        /\ unholdTimers' \in [CallIds -> [Budgets -> Nat]]
        /\ reinvite' \in [CallIds -> {"none", "hold", "unhold"}]
    <2>1. UnholdRetries \in Budgets
      BY BoundsAssumption DEF Budgets
    <2>2. QED
      BY <2>1, RequestUnholdTyped DEF TypeOK, TimersTypeOK, StackTypeOK
  <1>2. ManagerTypeOK'
    BY <1>1 DEF TypeOK, ManagerTypeOK, Live
  <1>3. TimersTypeOK' /\ StackTypeOK'
    BY <1>1 DEF TypeOK, TimersTypeOK, StackTypeOK
  <1>4. ActiveIsLive' /\ PendingTransfersLive'
    BY <1>1 DEF ActiveIsLive, PendingTransfersLive, Live
  <1>5. QED
    BY <1>2, <1>3, <1>4, Frame DEF TypeOK

\* An unhold retry preserves the invariant: it makes a call active only after
\* finding its record again.
LEMMA UnholdTimerPreserves ==
  ASSUME CallInv, NEW id \in CallIds, NEW n \in Budgets, UnholdTimerFires(id, n)
  PROVE  CallInv'
  <1> DEFINE timers == Disarm(unholdTimers, id, n)
  <1> USE DEF CallInv, UnholdTimerFires, transfers
  <1>1. timers \in [CallIds -> [Budgets -> Nat]]
    BY ArmTyped DEF TypeOK, TimersTypeOK
  <1>2. /\ m_activeCallId' = m_activeCallId \/ (m_activeCallId' = id /\ id \in Live)
        /\ held' \subseteq Live
        /\ unholdTimers' \in [CallIds -> [Budgets -> Nat]]
        /\ reinvite' \in [CallIds -> {"none", "hold", "unhold"}]
    <2> HIDE DEF timers
    <2>1. CASE id \in Live
      <3>1. RequestUnhold(id, n, timers)
        BY <2>1 DEF timers
      <3>2. ManagerTypeOK /\ reinvite \in [CallIds -> {"none", "hold", "unhold"}]
        BY DEF TypeOK, StackTypeOK
      <3>3. QED
        BY <1>1, <2>1, <3>1, <3>2, RequestUnholdTyped
    <2>2. CASE id \notin Live
      BY <1>1, <2>2 DEF TypeOK, ManagerTypeOK, StackTypeOK, timers
    <2>3. QED
      BY <2>1, <2>2
  <1>3. ManagerTypeOK'
    BY <1>2 DEF TypeOK, ManagerTypeOK, Live
  <1>4. TimersTypeOK' /\ StackTypeOK'
    BY <1>2 DEF TypeOK, TimersTypeOK, StackTypeOK
  <1>5. ActiveIsLive' /\ PendingTransfersLive'
    BY <1>2 DEF ActiveIsLive, PendingTransfersLive, Live
  <1>6. QED
    BY <1>3, <1>4, <1>5, Frame DEF TypeOK

\* wireBridge() keeps the conference pairs and its retry timers typed.
LEMMA WireBridgeTyped ==
  ASSUME NEW a \in CallIds, NEW h \in CallIds, NEW n \in BridgeBudgets,
         NEW timers \in [CallIds \X CallIds -> [BridgeBudgets -> Nat]],
         bridged \subseteq SUBSET CallIds,
         WireBridge(a, h, n, timers)
  PROVE  /\ bridged' \subseteq SUBSET CallIds
         /\ bridgeTimers' \in [CallIds \X CallIds -> [BridgeBudgets -> Nat]]
  <1>1. n > 0 => n - 1 \in BridgeBudgets
    BY BoundsAssumption DEF BridgeBudgets
  <1>2. n > 0 => Arm(timers, <<a, h>>, n - 1)
                   \in [CallIds \X CallIds -> [BridgeBudgets -> Nat]]
    BY <1>1, ArmTyped
  <1>3. {a, h} \in SUBSET CallIds
    OBVIOUS
  <1>4. QED
    BY <1>2, <1>3 DEF WireBridge

\* mergeCalls() preserves the invariant: its unhold is for a confirmed call.
LEMMA MergePreserves ==
  ASSUME CallInv, NEW a \in CallIds, NEW h \in CallIds, MergeCalls(a, h)
  PROVE  CallInv'
  <1> USE DEF CallInv, transfers
  <1>1. h \in Live /\ UnholdRetries \in Budgets /\ BridgeRetries \in BridgeBudgets
    BY BoundsAssumption DEF MergeCalls, Confirmed, Live, Budgets, BridgeBudgets
  <1>2. /\ m_activeCallId' \in {m_activeCallId, h}
        /\ held' \subseteq Live
        /\ unholdTimers' \in [CallIds -> [Budgets -> Nat]]
        /\ reinvite' \in [CallIds -> {"none", "hold", "unhold"}]
        /\ bridged' \subseteq SUBSET CallIds
        /\ bridgeTimers' \in [CallIds \X CallIds -> [BridgeBudgets -> Nat]]
    <2>1. /\ ManagerTypeOK
          /\ held \subseteq Live
          /\ unholdTimers \in [CallIds -> [Budgets -> Nat]]
          /\ bridgeTimers \in [CallIds \X CallIds -> [BridgeBudgets -> Nat]]
          /\ reinvite \in [CallIds -> {"none", "hold", "unhold"}]
          /\ bridged \subseteq SUBSET CallIds
      BY DEF TypeOK, ManagerTypeOK, TimersTypeOK, StackTypeOK, PairsTypeOK
    <2> HIDE DEF CallInv
    <2>2. CASE h \in held
      <3>1. /\ RequestUnhold(h, UnholdRetries, unholdTimers)
            /\ bridgeTimers' = Arm(bridgeTimers, <<a, h>>, BridgeRetries)
            /\ bridged' = bridged
        BY <2>2 DEF MergeCalls
      <3>2. Arm(bridgeTimers, <<a, h>>, BridgeRetries)
              \in [CallIds \X CallIds -> [BridgeBudgets -> Nat]]
        BY <1>1, <2>1, ArmTyped
      <3>3. QED
        BY <1>1, <2>1, <3>1, <3>2, RequestUnholdTyped
    <2>3. CASE h \notin held
      <3>1. /\ WireBridge(a, h, BridgeRetries, bridgeTimers)
            /\ UNCHANGED <<held, m_activeCallId, reinvite, unholdTimers>>
        BY <2>3 DEF MergeCalls
      <3>2. QED
        BY <1>1, <2>1, <3>1, WireBridgeTyped
    <2>4. QED
      BY <2>2, <2>3
  <1>3. resumed' \subseteq CallIds \X CallIds
    BY DEF TypeOK, PairsTypeOK, MergeCalls
  <1>4. UNCHANGED <<m_records, m_lingering, lingerTimers, accountIds, transfers,
                    nextCallId, m_calls, inv, mayConfirm, media, hungUp, events>>
    BY DEF MergeCalls
  <1>5. ManagerTypeOK'
    BY <1>2, <1>4, <1>1 DEF TypeOK, ManagerTypeOK, Live
  <1>6. TimersTypeOK' /\ StackTypeOK' /\ PairsTypeOK'
    BY <1>2, <1>3, <1>4 DEF TypeOK, TimersTypeOK, StackTypeOK, PairsTypeOK
  <1>7. ActiveIsLive' /\ PendingTransfersLive'
    BY <1>1, <1>2, <1>4 DEF ActiveIsLive, PendingTransfersLive, Live
  <1>8. QED
    BY <1>4, <1>5, <1>6, <1>7, Frame DEF TypeOK

\* A conference retry preserves the invariant.
LEMMA BridgeTimerPreserves ==
  ASSUME CallInv, NEW a \in CallIds, NEW h \in CallIds, NEW n \in BridgeBudgets,
         BridgeTimerFires(a, h, n)
  PROVE  CallInv'
  <1> USE DEF CallInv, transfers
  <1>1. Disarm(bridgeTimers, <<a, h>>, n)
          \in [CallIds \X CallIds -> [BridgeBudgets -> Nat]]
    BY ArmTyped DEF TypeOK, TimersTypeOK, BridgeTimerFires
  <1>2. /\ bridged' \subseteq SUBSET CallIds
        /\ bridgeTimers' \in [CallIds \X CallIds -> [BridgeBudgets -> Nat]]
    BY <1>1, WireBridgeTyped DEF TypeOK, PairsTypeOK, BridgeTimerFires
  <1>3. TimersTypeOK' /\ PairsTypeOK'
    BY <1>2 DEF TypeOK, TimersTypeOK, PairsTypeOK, BridgeTimerFires
  <1>4. ActiveIsLive' /\ PendingTransfersLive'
    BY DEF ActiveIsLive, PendingTransfersLive, Live, BridgeTimerFires
  <1>5. QED
    BY <1>3, <1>4, Frame DEF TypeOK, BridgeTimerFires

\* makeCall() preserves the invariant: the record exists before the call is
\* promoted, and a refused call changes nothing but the next id.
LEMMA MakeCallPreserves ==
  ASSUME CallInv, NEW acc \in Accounts, MakeCall(acc)
  PROVE  CallInv'
  <1> USE DEF CallInv, transfers
  <1>1. /\ nextCallId \in CallIds
        /\ UNCHANGED <<m_lingering, unholdTimers, bridgeTimers, lingerTimers,
                       accountIds, transfers, resumed, media, bridged, hungUp,
                       events>>
        /\ nextCallId' = nextCallId + 1
    BY DEF MakeCall
  <1>2. CASE UNCHANGED <<m_records, m_calls, mayConfirm, inv, m_activeCallId,
                         held, reinvite>>
    <2>1. StackTypeOK'
      BY <1>1, <1>2 DEF TypeOK, StackTypeOK
    <2>2. ActiveIsLive' /\ PendingTransfersLive'
      BY <1>1, <1>2 DEF ActiveIsLive, PendingTransfersLive, Live
    <2>3. QED
      BY <1>1, <1>2, <2>1, <2>2, Frame DEF TypeOK
  <1>3. CASE /\ m_records' = [m_records EXCEPT ![nextCallId] = "Calling"]
             /\ m_calls' = m_calls \cup {nextCallId}
             /\ mayConfirm' = mayConfirm \cup {nextCallId}
             /\ inv' = [inv EXCEPT ![nextCallId] = "Calling"]
             /\ SetActiveCall(nextCallId)
    <2>1. /\ m_activeCallId' = nextCallId
          /\ held' \subseteq Live
          /\ reinvite' \in [CallIds -> {"none", "hold", "unhold"}]
      <3>1. ManagerTypeOK /\ reinvite \in [CallIds -> {"none", "hold", "unhold"}]
        BY DEF TypeOK, StackTypeOK
      <3> HIDE DEF CallInv
      <3>2. QED
        BY <1>1, <1>3, <3>1, SetActiveTyped
    <2>2. m_records' \in [CallIds -> RecordStates] /\ Live' = Live \cup {nextCallId}
      BY <1>1, <1>3 DEF TypeOK, ManagerTypeOK, RecordStates, Live
    <2>3. ManagerTypeOK'
      BY <1>1, <2>1, <2>2 DEF TypeOK, ManagerTypeOK
    <2>4. StackTypeOK'
      <3>1. StackTypeOK
        BY DEF TypeOK
      <3> HIDE DEF CallInv
      <3>2. /\ nextCallId' \in Nat \ {0}
            /\ m_calls' \subseteq CallIds /\ mayConfirm' \subseteq CallIds
            /\ UNCHANGED <<media, hungUp, refers, attempts>>
        BY <1>1, <1>3, <3>1 DEF StackTypeOK
      <3>3. inv' \in [CallIds -> {"none", "Calling", "Confirmed", "Disconnected"}]
        BY <1>1, <1>3, <3>1 DEF StackTypeOK
      <3>4. QED
        BY <2>1, <3>1, <3>2, <3>3 DEF StackTypeOK
    <2>5. ActiveIsLive' /\ PendingTransfersLive'
      BY <1>1, <2>1, <2>2 DEF ActiveIsLive, PendingTransfersLive
    <2>6. QED
      BY <1>1, <2>3, <2>4, <2>5, Frame DEF TypeOK
  <1>4. QED
    BY <1>2, <1>3 DEF MakeCall

\* accept() preserves the invariant: only a call with a record is promoted.
LEMMA AcceptPreserves ==
  ASSUME CallInv, NEW id \in CallIds, Accept(id)
  PROVE  CallInv'
  <1> USE DEF CallInv, transfers
  <1>1. /\ m_activeCallId' = id
        /\ held' \subseteq Live
        /\ reinvite' \in [CallIds -> {"none", "hold", "unhold"}]
    BY SetActiveTyped DEF TypeOK, StackTypeOK, Accept
  <1>2. ManagerTypeOK'
    BY <1>1 DEF TypeOK, ManagerTypeOK, Live, Accept
  <1>3. StackTypeOK'
    BY <1>1 DEF TypeOK, StackTypeOK, Accept
  <1>4. ActiveIsLive' /\ PendingTransfersLive'
    BY <1>1 DEF ActiveIsLive, PendingTransfersLive, Live, Accept
  <1>5. QED
    BY <1>2, <1>3, <1>4, Frame DEF TypeOK, Accept

\* decline(), forwardCall() and hangup() preserve the invariant.
LEMMA EndCallPreserves ==
  ASSUME CallInv, NEW id \in CallIds, EndCall(id)
  PROVE  CallInv'
  <1> USE DEF CallInv, EndCall, manager, history
  <1>1. StackTypeOK'
    BY DEF TypeOK, StackTypeOK
  <1>2. ActiveIsLive' /\ PendingTransfersLive'
    BY DEF ActiveIsLive, PendingTransfersLive, Live
  <1>3. QED
    BY <1>1, <1>2, Frame DEF TypeOK

\* A transfer preserves the invariant: its legs contain the originating call,
\* and a refused one leaves no entry.
LEMMA TransferPreserves ==
  ASSUME CallInv, NEW id \in CallIds, NEW legs \in SUBSET CallIds,
         id \in legs, Transfer(id, legs)
  PROVE  CallInv'
  <1> USE DEF CallInv, Transfer, Forget, stack
  <1>1. m_transfers' \in [CallIds -> SUBSET CallIds]
    BY DEF TypeOK, ManagerTypeOK
  <1>2. ManagerTypeOK'
    BY <1>1 DEF TypeOK, ManagerTypeOK, Live
  <1>3. StackTypeOK'
    <2>1. StackTypeOK
      BY DEF TypeOK
    <2>2. /\ attempts' = [attempts EXCEPT ![id] = @ + 1]
          /\ refers' \in {refers, [refers EXCEPT ![id] = @ + 1]}
          /\ UNCHANGED <<nextCallId, m_calls, inv, mayConfirm, media, reinvite,
                         hungUp>>
      OBVIOUS
    <2> HIDE DEF CallInv, Transfer
    <2>3. attempts' \in [CallIds -> Nat] /\ refers' \in [CallIds -> Nat]
      BY <2>1, <2>2 DEF StackTypeOK
    <2>4. QED
      BY <2>1, <2>2, <2>3 DEF StackTypeOK
  <1>4. PairsTypeOK'
    <2>1. PairsTypeOK /\ resumed' = resumed /\ bridged' = bridged
      BY DEF TypeOK
    <2>2. accepted' \in {accepted, [accepted EXCEPT ![id] = @ \cup {legs}]}
      OBVIOUS
    <2> HIDE DEF CallInv, Transfer
    <2>3. accepted \in [CallIds -> SUBSET SUBSET CallIds]
      BY <2>1 DEF PairsTypeOK
    <2>4. accepted[id] \cup {legs} \in SUBSET SUBSET CallIds
      BY <2>3
    <2>5. accepted' \in [CallIds -> SUBSET SUBSET CallIds]
      BY <2>2, <2>3, <2>4
    <2>6. QED
      BY <2>1, <2>5 DEF PairsTypeOK
  <1>5. ActiveIsLive'
    BY DEF ActiveIsLive, Live
  <1>6. PendingTransfersLive'
    BY DEF PendingTransfersLive, Live, TypeOK, ManagerTypeOK
  <1>7. QED
    BY <1>2, <1>3, <1>4, <1>5, <1>6, Frame DEF TypeOK

\* The head of the queue is an event of one of the three types, for a call in
\* CallIds, and what remains is a queue.
LEMMA HeadTyped ==
  ASSUME events \in Seq(Event), events # <<>>
  PROVE  /\ Head(events) \in Event
         /\ Head(events).call \in CallIds
         /\ Tail(events) \in Seq(Event)
  <1>1. Head(events) \in Event /\ Tail(events) \in Seq(Event)
    OBVIOUS
  <1>2. QED
    BY <1>1 DEF Event

\* A delivered NOTIFY preserves the invariant: it only removes entries.
LEMMA OnTransferStatusPreserves ==
  ASSUME CallInv, OnTransferStatus
  PROVE  CallInv'
  <1> DEFINE id == Head(events).call
  <1>1. /\ id \in CallIds
        /\ events' \in Seq(Event)
    BY HeadTyped DEF CallInv, TypeOK, OnTransferStatus
  <1>2. m_transfers' \in {m_transfers, [m_transfers EXCEPT ![id] = {}]}
    BY DEF OnTransferStatus, PendingAfter, Forget
  <1>3. /\ hungUp' = hungUp \cup (LegsToHangup(id, Head(events).code) \cap Live)
        /\ UNCHANGED <<m_records, held, m_lingering, m_activeCallId,
                       unholdTimers, bridgeTimers, lingerTimers, accountIds,
                       refers, history, nextCallId, m_calls, inv, mayConfirm,
                       media, reinvite, bridged>>
    BY DEF OnTransferStatus
  <1> HIDE DEF id
  <1>4. ManagerTypeOK'
    BY <1>1, <1>2, <1>3 DEF CallInv, TypeOK, ManagerTypeOK, Live
  <1>5. StackTypeOK'
    BY <1>3 DEF CallInv, TypeOK, StackTypeOK, Live, history
  <1>6. ActiveIsLive' /\ PendingTransfersLive'
    BY <1>1, <1>2, <1>3 DEF CallInv, TypeOK, ManagerTypeOK, ActiveIsLive,
                            PendingTransfersLive, Live
  <1>7. QED
    BY <1>1, <1>3, <1>4, <1>5, <1>6, Frame DEF CallInv, TypeOK, history

\* A delivered incoming call preserves the invariant: it only adds a record.
LEMMA OnIncomingCallPreserves ==
  ASSUME CallInv, OnIncomingCall
  PROVE  CallInv'
  <1> DEFINE id == Head(events).call
  <1>1. /\ id \in CallIds
        /\ events' \in Seq(Event)
    BY HeadTyped DEF CallInv, TypeOK, OnIncomingCall
  <1>2. /\ m_records' \in {m_records, [m_records EXCEPT ![id] = "Calling"]}
        /\ hungUp' \in {hungUp, hungUp \cup {id}}
        /\ m_calls' \in {m_calls, m_calls \ {id}}
        /\ UNCHANGED <<held, m_lingering, m_activeCallId, unholdTimers,
                       bridgeTimers, lingerTimers, accountIds, transfers,
                       resumed, nextCallId, inv, mayConfirm, media, reinvite,
                       bridged>>
    BY DEF OnIncomingCall, ReleaseCall
  <1> HIDE DEF id
  <1>3. Live \subseteq Live' /\ m_records' \in [CallIds -> RecordStates]
    BY <1>1, <1>2 DEF CallInv, TypeOK, ManagerTypeOK, Live, RecordStates
  <1>4. ManagerTypeOK'
    BY <1>2, <1>3 DEF CallInv, TypeOK, ManagerTypeOK, transfers
  <1>5. StackTypeOK'
    BY <1>1, <1>2 DEF CallInv, TypeOK, StackTypeOK, transfers
  <1>6. ActiveIsLive' /\ PendingTransfersLive'
    BY <1>2, <1>3 DEF CallInv, ActiveIsLive, PendingTransfersLive, transfers
  <1>7. QED
    BY <1>1, <1>2, <1>4, <1>5, <1>6, Frame DEF CallInv, TypeOK, transfers

\* handleDisconnected() takes the record, the pending transfer and the active
\* role of the call away together.
LEMMA DisconnectPreserves ==
  ASSUME ManagerTypeOK, TimersTypeOK, ActiveIsLive, PendingTransfersLive,
         reinvite \in [CallIds -> {"none", "hold", "unhold"}],
         NEW id \in Live, Disconnect(id), UNCHANGED bridgeTimers
  PROVE  /\ ManagerTypeOK' /\ TimersTypeOK'
         /\ ActiveIsLive' /\ PendingTransfersLive'
         /\ reinvite' \in [CallIds -> {"none", "hold", "unhold"}]
  <1>1. id \in CallIds /\ unholdTimers \in [CallIds -> [Budgets -> Nat]]
    BY DEF Live, TimersTypeOK
  <1>2. /\ m_activeCallId' \in (CallIds \cup {kInvalidCallId}) \ {id}
        /\ m_activeCallId' \in {kInvalidCallId, m_activeCallId} \cup Live
        /\ held' \subseteq Live \ {id}
        /\ unholdTimers' \in [CallIds -> [Budgets -> Nat]]
        /\ reinvite' \in [CallIds -> {"none", "hold", "unhold"}]
    BY <1>1, PromoteAfterTyped DEF Disconnect
  <1>3. Live' = Live \ {id} /\ m_records' \in [CallIds -> RecordStates]
    BY <1>1 DEF Disconnect, Live, ManagerTypeOK, RecordStates
  <1>4. ManagerTypeOK'
    BY <1>1, <1>2, <1>3 DEF ManagerTypeOK, Disconnect, Forget
  <1>5. TimersTypeOK'
    BY <1>1, <1>2 DEF TimersTypeOK, Disconnect
  <1>6. ActiveIsLive'
    BY <1>2, <1>3 DEF ActiveIsLive
  <1>7. PendingTransfersLive'
    BY <1>1, <1>3 DEF PendingTransfersLive, Disconnect, Forget, ManagerTypeOK
  <1>8. QED
    BY <1>2, <1>4, <1>5, <1>6, <1>7

\* A delivered call state preserves the invariant, for unknown calls too.
LEMMA OnCallStatePreserves ==
  ASSUME CallInv, OnCallState
  PROVE  CallInv'
  <1> DEFINE id == Head(events).call
  <1>1. /\ id \in CallIds
        /\ events' \in Seq(Event)
    BY HeadTyped DEF CallInv, TypeOK, OnCallState
  <1>2. UNCHANGED <<accountIds, refers, history, nextCallId, inv, mayConfirm,
                    media, bridged, hungUp>>
    BY DEF OnCallState
  <1>3. ManagerTypeOK /\ TimersTypeOK /\ StackTypeOK /\ ActiveIsLive /\ PendingTransfersLive
    BY DEF CallInv, TypeOK
  <1>4. /\ ManagerTypeOK' /\ TimersTypeOK'
        /\ ActiveIsLive' /\ PendingTransfersLive'
        /\ reinvite' \in [CallIds -> {"none", "hold", "unhold"}]
        /\ m_calls' \subseteq CallIds
    <2>1. CASE UNCHANGED <<manager, m_calls, reinvite>>
      BY <1>3, <2>1 DEF ManagerTypeOK, TimersTypeOK, StackTypeOK, ActiveIsLive,
                        PendingTransfersLive, Live, manager
    <2>2. CASE id \in Live /\ Disconnect(id) /\ UNCHANGED bridgeTimers
      <3> HIDE DEF id
      <3>1. m_calls' \subseteq CallIds
        BY <1>3, <2>2 DEF Disconnect, ReleaseCall, StackTypeOK
      <3>2. QED
        BY <1>3, <2>2, <3>1, DisconnectPreserves DEF StackTypeOK
    <2>3. CASE /\ id \in Live
               /\ m_records' = [m_records EXCEPT ![id] = "Confirmed"]
               /\ UNCHANGED <<held, m_lingering, m_transfers, m_activeCallId,
                              unholdTimers, bridgeTimers, lingerTimers,
                              m_calls, reinvite>>
      <3> HIDE DEF id
      <3>1. Live' = Live /\ m_records' \in [CallIds -> RecordStates]
        BY <1>1, <1>3, <2>3 DEF ManagerTypeOK, Live, RecordStates
      <3>2. ManagerTypeOK' /\ ActiveIsLive' /\ PendingTransfersLive'
        BY <1>3, <2>3, <3>1 DEF ManagerTypeOK, ActiveIsLive, PendingTransfersLive
      <3>3. QED
        BY <1>3, <2>3, <3>2 DEF TimersTypeOK, StackTypeOK
    <2>4. QED
      BY <2>1, <2>2, <2>3 DEF OnCallState
  <1>5. StackTypeOK'
    BY <1>2, <1>3, <1>4 DEF StackTypeOK, history
  <1>6. QED
    BY <1>1, <1>2, <1>4, <1>5, Frame DEF CallInv, TypeOK, history

\* A posted event keeps the queue a sequence of events.
LEMMA PostTyped ==
  ASSUME events \in Seq(Event), NEW e \in Event, Post(e)
  PROVE  events' \in Seq(Event)
  BY DEF Post

\* A step that touches no state of the manager disturbs neither the active
\* call nor the pending transfers.
LEMMA ManagerFrame ==
  ASSUME CallInv, UNCHANGED manager
  PROVE  ManagerTypeOK' /\ TimersTypeOK' /\ ActiveIsLive' /\ PendingTransfersLive'
  <1>1. ActiveIsLive' /\ PendingTransfersLive'
    BY DEF CallInv, ActiveIsLive, PendingTransfersLive, Live, manager
  <1>2. QED
    BY <1>1, Frame DEF CallInv, manager

\* wrapIncomingCall() on the worker thread preserves the invariant.
LEMMA WrapIncomingCallPreserves ==
  ASSUME CallInv, NEW acc \in Accounts, WrapIncomingCall(acc)
  PROVE  CallInv'
  <1>1. /\ UNCHANGED <<manager, accountIds, refers, history, mayConfirm,
                       media, reinvite, bridged, hungUp>>
        /\ nextCallId \in CallIds
        /\ nextCallId' = nextCallId + 1
        /\ m_calls' = m_calls \cup {nextCallId}
        /\ inv' = [inv EXCEPT ![nextCallId] = "Calling"]
    BY DEF WrapIncomingCall
  <1>2. events' \in Seq(Event)
    <2>1. m_backendIds[acc] \in Nat
      BY DEF CallInv, TypeOK, AccountsTypeOK
    <2>2. [type |-> "incoming", call |-> nextCallId, acc |-> m_backendIds[acc]] \in Event
      BY <1>1, <2>1 DEF Event
    <2>3. QED
      BY <2>2, PostTyped DEF CallInv, TypeOK, WrapIncomingCall
  <1>3. StackTypeOK'
    <2>1. StackTypeOK
      BY DEF CallInv, TypeOK
    <2>2. nextCallId' \in Nat \ {0} /\ m_calls' \subseteq CallIds
      BY <1>1, <2>1 DEF StackTypeOK
    <2>3. inv' \in [CallIds -> {"none", "Calling", "Confirmed", "Disconnected"}]
      BY <1>1, <2>1 DEF StackTypeOK
    <2>4. QED
      BY <1>1, <2>1, <2>2, <2>3 DEF StackTypeOK, history
  <1>4. QED
    BY <1>1, <1>2, <1>3, ManagerFrame, Frame DEF CallInv, TypeOK, history

\* A session that is answered preserves the invariant.
LEMMA SessionConfirmedPreserves ==
  ASSUME CallInv, NEW c \in CallIds, SessionConfirmed(c)
  PROVE  CallInv'
  <1>1. /\ UNCHANGED <<manager, accountIds, refers, history, nextCallId,
                       m_calls, mayConfirm, reinvite, bridged, hungUp>>
        /\ inv' = [inv EXCEPT ![c] = "Confirmed"]
        /\ media' = [media EXCEPT ![c] = "active"]
    BY DEF SessionConfirmed
  <1>2. events' \in Seq(Event)
    <2>1. [type |-> "state", call |-> c, st |-> "Confirmed"] \in Event
      BY DEF Event
    <2>2. QED
      BY <2>1, PostTyped DEF CallInv, TypeOK, SessionConfirmed
  <1>3. StackTypeOK'
    BY <1>1 DEF CallInv, TypeOK, StackTypeOK, history
  <1>4. QED
    BY <1>1, <1>2, <1>3, ManagerFrame, Frame DEF CallInv, TypeOK, history

\* A session that ends preserves the invariant: the record waits for the event.
LEMMA SessionDisconnectedPreserves ==
  ASSUME CallInv, NEW c \in CallIds, SessionDisconnected(c)
  PROVE  CallInv'
  <1>1. /\ UNCHANGED <<manager, accountIds, refers, history, nextCallId, m_calls>>
        /\ inv' = [inv EXCEPT ![c] = "Disconnected"]
        /\ media' = [media EXCEPT ![c] = "none"]
        /\ reinvite' = [reinvite EXCEPT ![c] = "none"]
        /\ bridged' \subseteq bridged
        /\ mayConfirm' = mayConfirm \ {c}
        /\ hungUp' = hungUp \ {c}
    BY DEF SessionDisconnected
  <1>2. events' \in Seq(Event)
    <2>1. [type |-> "state", call |-> c, st |-> "Disconnected"] \in Event
      BY DEF Event
    <2>2. QED
      BY <2>1, PostTyped DEF CallInv, TypeOK, SessionDisconnected
  <1>3. StackTypeOK'
    BY <1>1 DEF CallInv, TypeOK, StackTypeOK, history
  <1>4. PairsTypeOK'
    BY <1>1 DEF CallInv, TypeOK, PairsTypeOK, history
  <1>5. QED
    BY <1>1, <1>2, <1>3, <1>4, ManagerFrame, Frame DEF CallInv, TypeOK

\* The answer to a re-INVITE preserves the invariant.
LEMMA ReinviteAnsweredPreserves ==
  ASSUME CallInv, NEW c \in CallIds, ReinviteAnswered(c)
  PROVE  CallInv'
  <1>1. /\ UNCHANGED <<manager, accountIds, refers, history, nextCallId,
                       m_calls, inv, mayConfirm, hungUp, events>>
        /\ reinvite' = [reinvite EXCEPT ![c] = "none"]
        /\ media' \in {media, [media EXCEPT ![c] = "held"],
                       [media EXCEPT ![c] = "active"]}
        /\ bridged' \subseteq bridged
    BY DEF ReinviteAnswered
  <1>2. StackTypeOK'
    BY <1>1 DEF CallInv, TypeOK, StackTypeOK, history
  <1>3. PairsTypeOK'
    BY <1>1 DEF CallInv, TypeOK, PairsTypeOK, history
  <1>4. QED
    BY <1>1, <1>2, <1>3, ManagerFrame, Frame DEF CallInv, TypeOK

\* Queueing a NOTIFY preserves the invariant.
LEMMA TransferNotifyPreserves ==
  ASSUME CallInv, NEW c \in CallIds, NEW code \in {"progress", "ok", "fail"},
         TransferNotify(c, code)
  PROVE  CallInv'
  <1>1. /\ UNCHANGED <<manager, accountIds, history, nextCallId, m_calls, inv,
                       mayConfirm, media, reinvite, bridged, hungUp>>
        /\ refers[c] > 0
        /\ refers' \in {refers, [refers EXCEPT ![c] = @ - 1]}
    BY DEF TransferNotify
  <1>2. events' \in Seq(Event)
    <2>1. [type |-> "transfer", call |-> c, code |-> code] \in Event
      BY DEF Event
    <2>2. QED
      BY <2>1, PostTyped DEF CallInv, TypeOK, TransferNotify
  <1>3. StackTypeOK'
    <2>1. StackTypeOK
      BY DEF CallInv, TypeOK
    <2>2. refers' \in [CallIds -> Nat]
      BY <1>1, <2>1 DEF StackTypeOK
    <2>3. QED
      BY <1>1, <2>1, <2>2 DEF StackTypeOK, history
  <1>4. QED
    BY <1>1, <1>2, <1>3, ManagerFrame, Frame DEF CallInv, TypeOK, history

\* Registering or unregistering an account preserves the invariant.
LEMMA AccountStepPreserves ==
  ASSUME CallInv, NEW acc \in Accounts,
         RegisterAccount(acc) \/ UnregisterAccount(acc)
  PROVE  CallInv'
  <1>1. UNCHANGED <<manager, stack, refers, history>>
    BY DEF RegisterAccount, UnregisterAccount
  <1>2. AccountsTypeOK'
    BY DEF CallInv, TypeOK, AccountsTypeOK, RegisterAccount, UnregisterAccount,
           kInvalidAccountId
  <1>3. QED
    BY <1>1, <1>2, ManagerFrame, Frame DEF CallInv, TypeOK, stack, history

\* eraseLingering() preserves the invariant.
LEMMA LingerTimerPreserves ==
  ASSUME CallInv, NEW id \in CallIds, LingerTimerFires(id)
  PROVE  CallInv'
  <1> USE DEF LingerTimerFires, transfers, stack
  <1>1. ManagerTypeOK' /\ TimersTypeOK'
    BY DEF CallInv, TypeOK, ManagerTypeOK, TimersTypeOK, Live
  <1>2. ActiveIsLive' /\ PendingTransfersLive'
    BY DEF CallInv, ActiveIsLive, PendingTransfersLive, Live
  <1>3. QED
    BY <1>1, <1>2, Frame DEF CallInv, TypeOK

\* A step that changes nothing preserves the invariant.
LEMMA StutterPreserves == CallInv /\ UNCHANGED vars => CallInv'
  <1> SUFFICES ASSUME CallInv, UNCHANGED vars PROVE CallInv'
    OBVIOUS
  <1>1. UNCHANGED <<manager, accountIds, stack, refers, history>>
    BY DEF vars
  <1>2. QED
    BY <1>1, ManagerFrame, Frame DEF CallInv, TypeOK, stack, history

\* Every step of the manager, of the stack and of the accounts preserves the
\* invariant.
LEMMA CallInvNext == CallInv /\ [Next]_vars => CallInv'
  <1> SUFFICES ASSUME CallInv, [Next]_vars PROVE CallInv'
    OBVIOUS
  <1>1. CASE UNCHANGED vars
    BY <1>1, StutterPreserves
  <1>2. ASSUME NEW acc \in Accounts,
               \/ MakeCall(acc) \/ WrapIncomingCall(acc)
               \/ RegisterAccount(acc) \/ UnregisterAccount(acc)
        PROVE  CallInv'
    BY <1>2, MakeCallPreserves, WrapIncomingCallPreserves, AccountStepPreserves
  <1>3. ASSUME NEW c \in CallIds, Command(c) PROVE CallInv'
    <2>1. CASE Accept(c) \/ EndCall(c) \/ Hold(c) \/ Unhold(c)
      BY <2>1, AcceptPreserves, EndCallPreserves, HoldPreserves, UnholdPreserves
    <2>2. CASE BlindTransfer(c)
      BY <2>2, TransferPreserves DEF BlindTransfer
    <2>3. ASSUME NEW d \in CallIds, AttendedTransfer(c, d) PROVE CallInv'
      BY <2>3, TransferPreserves DEF AttendedTransfer
    <2>4. ASSUME NEW d \in CallIds, MergeCalls(c, d) PROVE CallInv'
      BY <2>4, MergePreserves
    <2>5. QED
      BY <1>3, <2>1, <2>2, <2>3, <2>4 DEF Command
  <1>4. ASSUME NEW c \in CallIds, Session(c) PROVE CallInv'
    BY <1>4, SessionConfirmedPreserves, SessionDisconnectedPreserves,
       ReinviteAnsweredPreserves, TransferNotifyPreserves DEF Session
  <1>5. CASE Deliver
    BY <1>5, OnIncomingCallPreserves, OnCallStatePreserves,
       OnTransferStatusPreserves DEF Deliver
  <1>6. CASE RetryTimer
    BY <1>6, UnholdTimerPreserves, BridgeTimerPreserves DEF RetryTimer
  <1>7. QED
    BY <1>1, <1>2, <1>3, <1>4, <1>5, <1>6, LingerTimerPreserves DEF Next

\* The inductive invariant holds in every reachable state of the manager and
\* the stack beneath it.
THEOREM CallInvariance == Spec => []CallInv
  BY CallInvInit, CallInvNext, PTL DEF Spec

\* The manager's and the stack's state keep their types; in particular the
\* held flag is only ever set on a live record, and no retry or promotion
\* timer leaves its budget.
THEOREM TypeCorrect == Spec => []TypeOK
  <1>1. CallInv => TypeOK
    BY DEF CallInv
  <1>2. QED
    BY <1>1, CallInvariance, PTL

\* m_activeCallId never names a call without a record, whatever order
\* promotions, retry timers and Disconnected events come in.
THEOREM ActiveCallIsLive == Spec => []ActiveIsLive
  <1>1. CallInv => ActiveIsLive
    BY DEF CallInv
  <1>2. QED
    BY <1>1, CallInvariance, PTL

\* A pending transfer always belongs to a live call and covers that call.
THEOREM PendingTransfersBelong == Spec => []PendingTransfersLive
  <1>1. CallInv => PendingTransfersLive
    BY DEF CallInv
  <1>2. QED
    BY <1>1, CallInvariance, PTL


-----------------------------------------------------------------------------
(* The event queue.  The manager's records lag behind the stack by what is *)
(* queued, so its records and the stack's wrappers are related through the *)
(* queue: ids are minted once, a call's first event is its incoming one,   *)
(* and what happened to a session the manager knows, or is about to know,  *)
(* is still queued.                                                        *)

\* An id is minted before the stack, the manager or a REFER uses it.
Minted ==
  \A c \in CallIds :
    /\ inv[c] # "none" => c < nextCallId
    /\ c \in m_calls \cup Live \/ refers[c] > 0 => inv[c] # "none"

\* Events are about calls that were minted.
EventsKnown == \A i \in 1..Len(events) : inv[events[i].call] # "none"

\* An incoming call has no record yet, and no event before the one that
\* announces it.
IncomingFirst ==
  \A i \in 1..Len(events) : events[i].type = "incoming" =>
    /\ events[i].call \notin Live
    /\ \A j \in 1..Len(events) : j < i => events[j].call # events[i].call

\* What the manager does not know yet of a session is queued.
Announced ==
  \A c \in CallIds : c \in Live \/ QueuedIncoming(c) =>
    /\ inv[c] = "Disconnected" => QueuedState(c, "Disconnected")
    /\ inv[c] = "Confirmed" /\ m_records[c] # "Confirmed" => QueuedState(c, "Confirmed")

QueueInv ==
  /\ Minted /\ EventsKnown /\ IncomingFirst /\ Announced
  /\ WrappersAccountedFor

\* What delivering the head leaves of the queue.
LEMMA TailFacts ==
  ASSUME events \in Seq(Event), events # <<>>, events' = Tail(events)
  PROVE  /\ 1 \in 1..Len(events) /\ events[1] = Head(events)
         /\ Len(events) \in Nat /\ Len(events') = Len(events) - 1
         /\ \A i \in 1..Len(events') : i + 1 \in 1..Len(events) /\ events'[i] = events[i + 1]
         /\ \A i \in 1..Len(events) : i # 1 => i - 1 \in 1..Len(events') /\ events'[i - 1] = events[i]
  OBVIOUS

\* What posting an event makes of it.
LEMMA PostFacts ==
  ASSUME events \in Seq(Event), NEW e \in Event, Post(e)
  PROVE  /\ Len(events) \in Nat /\ Len(events') = Len(events) + 1
         /\ \A i \in 1..Len(events) : i \in 1..Len(events') /\ events'[i] = events[i]
         /\ events'[Len(events) + 1] = e
         /\ \A i \in 1..Len(events') : i \in 1..Len(events) \/ i = Len(events) + 1
  BY DEF Post

\* Every event is about a call of CallIds.
LEMMA EventCalls ==
  ASSUME events \in Seq(Event)
  PROVE  \A i \in 1..Len(events) : events[i] \in Event /\ events[i].call \in CallIds
  <1>1. \A i \in 1..Len(events) : events[i] \in Event
    OBVIOUS
  <1>2. \A e \in Event : e.call \in CallIds
    BY DEF Event
  <1> QED
    BY <1>1, <1>2

\* The queue is empty when the manager is constructed, and nothing is minted.
LEMMA QueueInvInit == Init => QueueInv
  <1> SUFFICES ASSUME Init PROVE QueueInv
    OBVIOUS
  <1>1. Live = {} /\ m_calls = {} /\ Len(events) = 0
    BY DEF Init, Live
  <1>2. \A c \in CallIds : inv[c] = "none" /\ refers[c] = 0
    BY DEF Init
  <1> QED
    BY <1>1, <1>2 DEF QueueInv, Minted, EventsKnown, IncomingFirst, Announced, WrappersAccountedFor,
                      QueuedIncoming, QueuedState

\* Steps that touch neither the records, nor the wrappers, nor the queue.
LEMMA QueueFrame ==
  ASSUME QueueInv, UNCHANGED <<m_records, m_calls, inv, nextCallId, events>>,
         \A c \in CallIds : refers'[c] > 0 => inv[c] # "none"
  PROVE  QueueInv'
  <1>1. Live' = Live
    BY DEF Live
  <1>2. \A c \in CallIds : /\ QueuedIncoming(c)' <=> QueuedIncoming(c)
                           /\ \A st : QueuedState(c, st)' <=> QueuedState(c, st)
    BY DEF QueuedIncoming, QueuedState
  <1>3. Minted' /\ EventsKnown' /\ IncomingFirst'
    BY <1>1 DEF QueueInv, Minted, EventsKnown, IncomingFirst
  <1>4. Announced' /\ WrappersAccountedFor'
    BY <1>1, <1>2 DEF QueueInv, Announced, WrappersAccountedFor
  <1> QED
    BY <1>3, <1>4 DEF QueueInv

\* A call the manager makes: its record and its wrapper come together.
LEMMA MakeCallQueued ==
  ASSUME CallInv, QueueInv, NEW acc \in Accounts, MakeCall(acc)
  PROVE  QueueInv'
  <1> DEFINE id == nextCallId
  <1>1. /\ id \in CallIds /\ id \in Nat /\ nextCallId' = id + 1
        /\ events' = events /\ refers' = refers
        /\ m_records \in [CallIds -> RecordStates] /\ m_calls \subseteq CallIds
        /\ inv \in [CallIds -> {"none", "Calling", "Confirmed", "Disconnected"}]
    BY DEF CallInv, TypeOK, ManagerTypeOK, StackTypeOK, MakeCall, transfers
  <1>2. \A c \in CallIds : /\ QueuedIncoming(c)' <=> QueuedIncoming(c)
                           /\ \A st : QueuedState(c, st)' <=> QueuedState(c, st)
    BY <1>1 DEF QueuedIncoming, QueuedState
  <1>3. CASE UNCHANGED <<m_records, m_calls, inv>>
    <2>1. Live' = Live
      BY <1>3 DEF Live
    <2>2. Minted'
      <3>1. \A c \in CallIds : c < id => c < id + 1
        BY <1>1 DEF CallIds
      <3> HIDE DEF id
      <3> QED
        BY <1>1, <1>3, <2>1, <3>1 DEF QueueInv, Minted, id
    <2>3. EventsKnown' /\ IncomingFirst'
      BY <1>1, <1>3, <2>1 DEF QueueInv, EventsKnown, IncomingFirst
    <2>4. Announced' /\ WrappersAccountedFor'
      BY <1>2, <1>3, <2>1 DEF QueueInv, Announced, WrappersAccountedFor
    <2> QED
      BY <2>2, <2>3, <2>4 DEF QueueInv
  <1>4. CASE /\ m_records' = [m_records EXCEPT ![id] = "Calling"]
             /\ m_calls' = m_calls \cup {id}
             /\ inv' = [inv EXCEPT ![id] = "Calling"]
    <2>1. inv[id] = "none"
      BY <1>1 DEF QueueInv, Minted
    <2>2. Live' = Live \cup {id}
      BY <1>1, <1>4 DEF Live
    <2>3. /\ inv'[id] = "Calling" /\ \A c \in CallIds : c # id => inv'[c] = inv[c] /\ m_records'[c] = m_records[c]
          /\ \A c \in CallIds : inv[c] # "none" => inv'[c] # "none"
      BY <1>1, <1>4
    <2>4. \A i \in 1..Len(events) : events[i].call # id /\ events[i].call \in CallIds
      BY <2>1, EventCalls DEF QueueInv, EventsKnown, CallInv, TypeOK
    <2> HIDE DEF id
    <2>5. Minted'
      <3>1. \A c \in CallIds : inv'[c] # "none" => c < id + 1
        BY <1>1, <2>3 DEF QueueInv, Minted, id, CallIds
      <3> QED
        BY <1>1, <1>4, <2>2, <2>3, <3>1 DEF QueueInv, Minted
    <2>6. EventsKnown' /\ IncomingFirst'
      BY <1>1, <2>2, <2>3, <2>4 DEF QueueInv, EventsKnown, IncomingFirst
    <2>7. Announced'
      BY <1>2, <2>2, <2>3 DEF QueueInv, Announced
    <2>8. WrappersAccountedFor'
      BY <1>2, <1>4, <2>2 DEF QueueInv, WrappersAccountedFor
    <2> QED
      BY <2>5, <2>6, <2>7, <2>8 DEF QueueInv
  <1> QED
    BY <1>3, <1>4 DEF MakeCall

\* A call that comes in: its wrapper is there when its event is queued, and no
\* event is about its id yet.
LEMMA WrapIncomingCallQueued ==
  ASSUME CallInv, QueueInv, NEW acc \in Accounts, WrapIncomingCall(acc)
  PROVE  QueueInv'
  <1> DEFINE id == nextCallId
             e == [type |-> "incoming", call |-> id, acc |-> m_backendIds[acc]]
  <1>1. /\ id \in CallIds /\ id \in Nat /\ nextCallId' = id + 1
        /\ m_calls' = m_calls \cup {id} /\ inv' = [inv EXCEPT ![id] = "Calling"]
        /\ m_records' = m_records /\ refers' = refers
        /\ inv \in [CallIds -> {"none", "Calling", "Confirmed", "Disconnected"}]
        /\ events \in Seq(Event) /\ Post(e)
    BY DEF CallInv, TypeOK, StackTypeOK, WrapIncomingCall, manager
  <1>2. e \in Event /\ e.type = "incoming" /\ e.call = id
    BY <1>1 DEF CallInv, TypeOK, AccountsTypeOK, Event
  <1>3. inv[id] = "none" /\ id \notin Live
    BY <1>1 DEF QueueInv, Minted
  <1>4. \A i \in 1..Len(events) : events[i].call # id /\ events[i].call \in CallIds
    BY <1>1, <1>3, EventCalls DEF QueueInv, EventsKnown
  <1> HIDE DEF id, e
  <1>5. /\ Len(events) \in Nat /\ Len(events') = Len(events) + 1
        /\ \A i \in 1..Len(events) : i \in 1..Len(events') /\ events'[i] = events[i]
        /\ events'[Len(events) + 1] = e
        /\ \A i \in 1..Len(events') : i \in 1..Len(events) \/ i = Len(events) + 1
    BY <1>1, <1>2, PostFacts
  <1>6. Live' = Live
    BY <1>1 DEF Live
  <1>7. /\ inv'[id] = "Calling" /\ \A c \in CallIds : c # id => inv'[c] = inv[c]
    BY <1>1
  <1>8. \A c \in CallIds : c # id => /\ QueuedIncoming(c)' <=> QueuedIncoming(c)
                                     /\ \A st : QueuedState(c, st) => QueuedState(c, st)'
    BY <1>2, <1>5 DEF QueuedIncoming, QueuedState
  <1>9. \A c \in CallIds : c = id => QueuedIncoming(c)'
    BY <1>2, <1>5 DEF QueuedIncoming
  <1>10. Minted'
    <2>1. \A c \in CallIds : inv'[c] # "none" => c < id + 1
      BY <1>1, <1>7 DEF QueueInv, Minted, id, CallIds
    <2> QED
      BY <1>1, <1>6, <1>7, <2>1 DEF QueueInv, Minted
  <1>11. EventsKnown'
    BY <1>2, <1>4, <1>5, <1>7 DEF QueueInv, EventsKnown
  <1>12. IncomingFirst'
    <2> SUFFICES ASSUME NEW i \in 1..Len(events'), events'[i].type = "incoming"
                 PROVE  /\ events'[i].call \notin Live
                        /\ \A j \in 1..Len(events') : j < i => events'[j].call # events'[i].call
      BY <1>6 DEF IncomingFirst
    <2>1. CASE i \in 1..Len(events)
      BY <1>5, <2>1 DEF QueueInv, IncomingFirst
    <2>2. CASE i = Len(events) + 1
      BY <1>2, <1>3, <1>4, <1>5, <2>2
    <2> QED
      BY <1>5, <2>1, <2>2
  <1>13. Announced'
    BY <1>1, <1>6, <1>7, <1>8 DEF QueueInv, Announced
  <1>14. WrappersAccountedFor'
    BY <1>1, <1>6, <1>8, <1>9 DEF QueueInv, WrappersAccountedFor
  <1> QED
    BY <1>10, <1>11, <1>12, <1>13, <1>14 DEF QueueInv

\* An event about a minted call that is not an incoming one, posted when its
\* session changes as the event says.
LEMMA PostQueued ==
  ASSUME CallInv, QueueInv, NEW c \in CallIds, inv[c] # "none",
         NEW e \in Event, e.type # "incoming", e.call = c, Post(e),
         UNCHANGED <<m_records, m_calls, nextCallId>>,
         \A d \in CallIds : refers'[d] > 0 => refers[d] > 0,
         \/ inv' = inv
         \/ inv' = [inv EXCEPT ![c] = "Confirmed"] /\ e.type = "state" /\ e.st = "Confirmed"
         \/ inv' = [inv EXCEPT ![c] = "Disconnected"] /\ e.type = "state" /\ e.st = "Disconnected"
  PROVE  QueueInv'
  <1>1. events \in Seq(Event) /\ inv \in [CallIds -> {"none", "Calling", "Confirmed", "Disconnected"}]
    BY DEF CallInv, TypeOK, StackTypeOK
  <1>2. /\ Len(events) \in Nat /\ Len(events') = Len(events) + 1
        /\ \A i \in 1..Len(events) : i \in 1..Len(events') /\ events'[i] = events[i]
        /\ events'[Len(events) + 1] = e
        /\ \A i \in 1..Len(events') : i \in 1..Len(events) \/ i = Len(events) + 1
    BY <1>1, PostFacts
  <1>3. Live' = Live
    BY DEF Live
  <1>4. \A d \in CallIds : (inv'[d] # "none" <=> inv[d] # "none") /\ (d # c => inv'[d] = inv[d])
    BY <1>1
  <1>5. \A d \in CallIds : /\ QueuedIncoming(d)' <=> QueuedIncoming(d)
                           /\ \A st : QueuedState(d, st) => QueuedState(d, st)'
    BY <1>2 DEF QueuedIncoming, QueuedState
  <1>6. inv'[c] = inv[c] \/ \E st : st = inv'[c] /\ QueuedState(c, st)'
    <2>1. CASE inv' = inv
      BY <2>1
    <2>2. CASE e.type = "state" /\ inv'[c] = e.st
      BY <1>2, <2>2 DEF QueuedState
    <2> QED
      BY <1>1, <2>1, <2>2
  <1>7. Minted'
    BY <1>3, <1>4 DEF QueueInv, Minted
  <1>8. EventsKnown'
    BY <1>1, <1>2, <1>4, EventCalls DEF QueueInv, EventsKnown
  <1>9. IncomingFirst'
    <2> SUFFICES ASSUME NEW i \in 1..Len(events'), events'[i].type = "incoming"
                 PROVE  /\ events'[i].call \notin Live
                        /\ \A j \in 1..Len(events') : j < i => events'[j].call # events'[i].call
      BY <1>3 DEF IncomingFirst
    <2>1. i \in 1..Len(events)
      BY <1>2
    <2> QED
      BY <1>2, <2>1 DEF QueueInv, IncomingFirst
  <1>10. Announced'
    BY <1>3, <1>4, <1>5, <1>6 DEF QueueInv, Announced
  <1>11. WrappersAccountedFor'
    BY <1>3, <1>5 DEF QueueInv, WrappersAccountedFor
  <1> QED
    BY <1>7, <1>8, <1>9, <1>10, <1>11 DEF QueueInv


\* What delivering the head changes about which calls have events queued.
LEMMA TailQueued ==
  ASSUME events \in Seq(Event), IncomingFirst, events # <<>>, events' = Tail(events), NEW c \in CallIds
  PROVE  /\ c # Head(events).call \/ Head(events).type # "incoming" => (QueuedIncoming(c)' <=> QueuedIncoming(c))
         /\ c = Head(events).call => ~QueuedIncoming(c)'
         /\ c = Head(events).call => (QueuedIncoming(c) <=> Head(events).type = "incoming")
         /\ \A st : c # Head(events).call \/ Head(events).type # "state" \/ Head(events).st # st
                      => (QueuedState(c, st) => QueuedState(c, st)')
  <1>1. /\ 1 \in 1..Len(events) /\ events[1] = Head(events)
        /\ Len(events) \in Nat /\ Len(events') = Len(events) - 1
        /\ \A i \in 1..Len(events') : i + 1 \in 1..Len(events) /\ events'[i] = events[i + 1]
        /\ \A i \in 1..Len(events) : i # 1 => i - 1 \in 1..Len(events') /\ events'[i - 1] = events[i]
    BY TailFacts
  <1>2. QueuedIncoming(c)' => QueuedIncoming(c)
    BY <1>1 DEF QueuedIncoming
  <1>3. c # Head(events).call \/ Head(events).type # "incoming" => (QueuedIncoming(c) => QueuedIncoming(c)')
    BY <1>1 DEF QueuedIncoming
  <1>4. c = Head(events).call => ~QueuedIncoming(c)'
    BY <1>1 DEF QueuedIncoming, IncomingFirst
  <1>5. c = Head(events).call => (QueuedIncoming(c) <=> Head(events).type = "incoming")
    BY <1>1 DEF QueuedIncoming, IncomingFirst
  <1>6. \A st : c # Head(events).call \/ Head(events).type # "state" \/ Head(events).st # st
                  => (QueuedState(c, st) => QueuedState(c, st)')
    <2> SUFFICES ASSUME NEW st,
                        c # Head(events).call \/ Head(events).type # "state" \/ Head(events).st # st,
                        NEW i \in 1..Len(events),
                        events[i].type = "state" /\ events[i].call = c /\ events[i].st = st
                 PROVE  QueuedState(c, st)'
      BY DEF QueuedState
    <2>1. i # 1
      BY <1>1
    <2>2. i - 1 \in 1..Len(events') /\ events'[i - 1] = events[i]
      BY <1>1, <2>1
    <2> QED
      BY <2>2 DEF QueuedState
  <1> QED
    BY <1>2, <1>3, <1>4, <1>5, <1>6

\* Behind the head, incoming calls are still first, and their calls are not the
\* head's.
LEMMA TailIncomingFirst ==
  ASSUME events \in Seq(Event), IncomingFirst, events # <<>>, events' = Tail(events),
         Live' \subseteq Live \cup {Head(events).call}
  PROVE  IncomingFirst'
  <1>1. /\ 1 \in 1..Len(events) /\ events[1] = Head(events)
        /\ Len(events) \in Nat /\ Len(events') = Len(events) - 1
        /\ \A i \in 1..Len(events') : i + 1 \in 1..Len(events) /\ events'[i] = events[i + 1]
    BY TailFacts
  <1> SUFFICES ASSUME NEW i \in 1..Len(events'), events'[i].type = "incoming"
               PROVE  /\ events'[i].call \notin Live'
                      /\ \A j \in 1..Len(events') : j < i => events'[j].call # events'[i].call
    BY DEF IncomingFirst
  <1>2. /\ events[i + 1].call \notin Live
        /\ \A j \in 1..Len(events) : j < i + 1 => events[j].call # events[i + 1].call
    BY <1>1 DEF IncomingFirst
  <1>3. \A j \in 1..Len(events') : j < i => events'[j].call # events'[i].call
    BY <1>1, <1>2
  <1>4. events[i + 1].call # Head(events).call
    BY <1>1, <1>2
  <1> QED
    BY <1>1, <1>2, <1>3, <1>4

\* Behind the head, events are still about minted calls.
LEMMA TailKnown ==
  ASSUME events \in Seq(Event), EventsKnown, events # <<>>, events' = Tail(events), inv' = inv
  PROVE  EventsKnown' /\ inv[Head(events).call] # "none"
  BY TailFacts DEF EventsKnown

\* An incoming call delivered: it gets its record, or is declined and released.
LEMMA OnIncomingCallQueued ==
  ASSUME CallInv, QueueInv, OnIncomingCall
  PROVE  QueueInv'
  <1> DEFINE id == Head(events).call
  <1>1. /\ events \in Seq(Event) /\ events # <<>> /\ events' = Tail(events)
        /\ Head(events).type = "incoming" /\ id \in CallIds
        /\ inv' = inv /\ refers' = refers /\ nextCallId' = nextCallId
        /\ m_records \in [CallIds -> RecordStates] /\ m_calls \subseteq CallIds
    BY HeadTyped DEF CallInv, TypeOK, ManagerTypeOK, StackTypeOK, OnIncomingCall, transfers
  <1>2. \/ m_records' = [m_records EXCEPT ![id] = "Calling"] /\ m_calls' = m_calls
        \/ m_records' = m_records /\ m_calls' = m_calls \ {id}
    BY DEF OnIncomingCall, ReleaseCall
  <1>3. Minted /\ EventsKnown /\ IncomingFirst /\ Announced /\ WrappersAccountedFor
    BY DEF QueueInv
  <1>4. /\ \A c \in CallIds : c # id => (QueuedIncoming(c)' <=> QueuedIncoming(c))
        /\ \A c \in CallIds : c = id => QueuedIncoming(c) /\ ~QueuedIncoming(c)'
        /\ \A c \in CallIds : \A st : QueuedState(c, st) => QueuedState(c, st)'
    BY <1>1, <1>3, TailQueued
  <1>5. EventsKnown' /\ inv[id] # "none"
    BY <1>1, <1>3, TailKnown
  <1>6. id \notin Live /\ id \in m_calls
    <2>1. id \notin Live
      BY <1>1, <1>3, TailFacts DEF IncomingFirst
    <2> QED
      BY <1>1, <1>3, <1>4, <2>1 DEF WrappersAccountedFor
  <1> HIDE DEF id
  <1>7. \/ Live' = Live \cup {id} /\ m_calls' = m_calls
        \/ Live' = Live /\ m_calls' = m_calls \ {id} /\ m_records' = m_records
    BY <1>1, <1>2 DEF Live
  <1>8. \A c \in CallIds : c # id => m_records'[c] = m_records[c]
    BY <1>1, <1>2
  <1>9. Minted'
    BY <1>1, <1>3, <1>5, <1>7 DEF Minted
  <1>10. IncomingFirst'
    BY <1>1, <1>3, <1>7, TailIncomingFirst DEF id
  <1>11. Announced'
    <2> SUFFICES ASSUME NEW c \in CallIds, c \in Live' \/ QueuedIncoming(c)'
                 PROVE  /\ inv[c] = "Disconnected" => QueuedState(c, "Disconnected")'
                        /\ inv[c] = "Confirmed" /\ m_records'[c] # "Confirmed" => QueuedState(c, "Confirmed")'
      BY <1>1 DEF Announced
    <2>1. c \in Live \/ QueuedIncoming(c)
      BY <1>4, <1>7
    <2>2. m_records'[c] # "Confirmed" => m_records[c] # "Confirmed"
      <3>1. m_records[id] = "Absent"
        BY <1>1, <1>6 DEF Live
      <3> QED
        BY <1>8, <3>1
    <2> QED
      BY <1>3, <1>4, <2>1, <2>2 DEF Announced
  <1>12. WrappersAccountedFor'
    BY <1>3, <1>4, <1>6, <1>7 DEF WrappersAccountedFor
  <1> QED
    BY <1>5, <1>9, <1>10, <1>11, <1>12 DEF QueueInv

\* A state delivered: an ended call loses its record and its wrapper together.
LEMMA OnCallStateQueued ==
  ASSUME CallInv, QueueInv, OnCallState
  PROVE  QueueInv'
  <1> DEFINE id == Head(events).call
             st == Head(events).st
  <1>1. /\ events \in Seq(Event) /\ events # <<>> /\ events' = Tail(events)
        /\ Head(events).type = "state" /\ id \in CallIds
        /\ inv' = inv /\ refers' = refers /\ nextCallId' = nextCallId
        /\ m_records \in [CallIds -> RecordStates] /\ m_calls \subseteq CallIds
    BY HeadTyped DEF CallInv, TypeOK, ManagerTypeOK, StackTypeOK, OnCallState
  <1>2. \/ id \notin Live /\ UNCHANGED <<m_records, m_calls>>
        \/ id \in Live /\ m_records' = [m_records EXCEPT ![id] = "Absent"] /\ m_calls' = m_calls \ {id}
        \/ id \in Live /\ st = "Confirmed" /\ m_records' = [m_records EXCEPT ![id] = "Confirmed"] /\ m_calls' = m_calls
    BY DEF OnCallState, ReleaseCall, Disconnect, manager
  <1>3. Minted /\ EventsKnown /\ IncomingFirst /\ Announced /\ WrappersAccountedFor
    BY DEF QueueInv
  <1>4. /\ \A c \in CallIds : QueuedIncoming(c)' <=> QueuedIncoming(c)
        /\ \A c \in CallIds : c = id => ~QueuedIncoming(c)
        /\ \A c \in CallIds : \A s : c # id \/ st # s => (QueuedState(c, s) => QueuedState(c, s)')
    BY <1>1, <1>3, TailQueued
  <1>5. EventsKnown'
    BY <1>1, <1>3, TailKnown
  <1> HIDE DEF id, st
  <1>6. \/ id \notin Live /\ Live' = Live /\ UNCHANGED <<m_records, m_calls>>
        \/ id \in Live /\ Live' = Live \ {id} /\ m_calls' = m_calls \ {id}
        \/ /\ id \in Live /\ st = "Confirmed" /\ Live' = Live /\ m_records'[id] = "Confirmed"
           /\ m_calls' = m_calls
    BY <1>1, <1>2 DEF Live
  <1>7. \A c \in CallIds : c # id => m_records'[c] = m_records[c]
    BY <1>1, <1>2
  <1>8. Minted'
    BY <1>1, <1>3, <1>6 DEF Minted
  <1>9. IncomingFirst'
    BY <1>1, <1>3, <1>6, TailIncomingFirst DEF id
  <1>10. Announced'
    <2> SUFFICES ASSUME NEW c \in CallIds, c \in Live' \/ QueuedIncoming(c)'
                 PROVE  /\ inv[c] = "Disconnected" => QueuedState(c, "Disconnected")'
                        /\ inv[c] = "Confirmed" /\ m_records'[c] # "Confirmed" => QueuedState(c, "Confirmed")'
      BY <1>1 DEF Announced
    <2>1. c \in Live \/ QueuedIncoming(c)
      BY <1>4, <1>6
    <2>2. CASE c # id
      BY <1>3, <1>4, <1>7, <2>1, <2>2 DEF Announced
    <2>3. CASE c = id
      <3>1. st = "Confirmed" /\ m_records'[c] = "Confirmed"
        BY <1>4, <1>6, <2>1, <2>3
      <3> QED
        BY <1>3, <1>4, <2>1, <3>1 DEF Announced
    <2> QED
      BY <2>2, <2>3
  <1>11. WrappersAccountedFor'
    BY <1>3, <1>4, <1>6 DEF WrappersAccountedFor
  <1> QED
    BY <1>5, <1>8, <1>9, <1>10, <1>11 DEF QueueInv

\* A NOTIFY delivered changes neither records nor wrappers.
LEMMA OnTransferStatusQueued ==
  ASSUME CallInv, QueueInv, OnTransferStatus
  PROVE  QueueInv'
  <1>1. /\ events \in Seq(Event) /\ events # <<>> /\ events' = Tail(events)
        /\ Head(events).type = "transfer"
        /\ UNCHANGED <<m_records, m_calls, inv, refers, nextCallId>>
    BY DEF CallInv, TypeOK, OnTransferStatus
  <1>2. Minted /\ EventsKnown /\ IncomingFirst /\ Announced /\ WrappersAccountedFor
    BY DEF QueueInv
  <1>3. Live' = Live
    BY <1>1 DEF Live
  <1>4. \A c \in CallIds : /\ QueuedIncoming(c)' <=> QueuedIncoming(c)
                           /\ \A s : QueuedState(c, s) => QueuedState(c, s)'
    BY <1>1, <1>2, TailQueued
  <1>5. EventsKnown' /\ IncomingFirst'
    BY <1>1, <1>2, <1>3, TailKnown, TailIncomingFirst
  <1>6. Minted' /\ Announced' /\ WrappersAccountedFor'
    BY <1>1, <1>2, <1>3, <1>4 DEF Minted, Announced, WrappersAccountedFor
  <1> QED
    BY <1>5, <1>6 DEF QueueInv

\* The stack's own steps: what happens to a session is posted.
LEMMA SessionQueued ==
  ASSUME CallInv, QueueInv, NEW c \in CallIds, Session(c)
  PROVE  QueueInv'
  <1>1. CASE SessionConfirmed(c)
    <2> DEFINE e == [type |-> "state", call |-> c, st |-> "Confirmed"]
    <2>1. e \in Event /\ e.type = "state" /\ e.call = c /\ e.st = "Confirmed"
      BY DEF Event
    <2>2. /\ inv[c] # "none" /\ Post(e) /\ inv' = [inv EXCEPT ![c] = "Confirmed"]
          /\ UNCHANGED <<m_records, m_calls, nextCallId, refers>>
      BY <1>1 DEF SessionConfirmed, manager
    <2> HIDE DEF e
    <2> QED
      BY <2>1, <2>2, PostQueued
  <1>2. CASE SessionDisconnected(c)
    <2> DEFINE e == [type |-> "state", call |-> c, st |-> "Disconnected"]
    <2>1. e \in Event /\ e.type = "state" /\ e.call = c /\ e.st = "Disconnected"
      BY DEF Event
    <2>2. /\ inv[c] # "none" /\ Post(e) /\ inv' = [inv EXCEPT ![c] = "Disconnected"]
          /\ UNCHANGED <<m_records, m_calls, nextCallId, refers>>
      BY <1>2 DEF SessionDisconnected, manager
    <2> HIDE DEF e
    <2> QED
      BY <2>1, <2>2, PostQueued
  <1>3. CASE ReinviteAnswered(c)
    BY <1>3, QueueFrame DEF ReinviteAnswered, manager, QueueInv, Minted
  <1>4. ASSUME NEW code \in {"progress", "ok", "fail"}, TransferNotify(c, code) PROVE QueueInv'
    <2> DEFINE e == [type |-> "transfer", call |-> c, code |-> code]
    <2>1. e \in Event /\ e.type = "transfer" /\ e.call = c
      BY DEF Event
    <2>2. /\ refers[c] > 0 /\ refers' \in {refers, [refers EXCEPT ![c] = @ - 1]}
          /\ Post(e) /\ UNCHANGED <<m_records, m_calls, nextCallId, inv>>
      BY <1>4 DEF TransferNotify, manager
    <2>3. inv[c] # "none" /\ \A d \in CallIds : refers'[d] > 0 => refers[d] > 0
      BY <2>2 DEF QueueInv, Minted, CallInv, TypeOK, StackTypeOK
    <2> HIDE DEF e
    <2> QED
      BY <2>1, <2>2, <2>3, PostQueued
  <1> QED
    BY <1>1, <1>2, <1>3, <1>4 DEF Session

\* Commands and timers of the manager do not touch records, wrappers or queue; a
\* REFER goes out on a confirmed session only.
LEMMA CommandQueued ==
  ASSUME CallInv, QueueInv, NEW c \in CallIds, Command(c) \/ LingerTimerFires(c)
  PROVE  QueueInv'
  <1>1. CASE \/ Accept(c) \/ EndCall(c) \/ Hold(c) \/ Unhold(c) \/ LingerTimerFires(c)
             \/ \E d \in CallIds : MergeCalls(c, d)
    <2>1. UNCHANGED <<m_records, m_calls, inv, nextCallId, events, refers>>
      BY <1>1 DEF Accept, EndCall, Hold, Unhold, LingerTimerFires, MergeCalls, manager, transfers, stack
    <2> QED
      BY <2>1, QueueFrame DEF QueueInv, Minted
  <1>2. ASSUME NEW legs \in SUBSET CallIds, c \in legs, Transfer(c, legs) PROVE QueueInv'
    <2>1. UNCHANGED <<m_records, m_calls, inv, nextCallId, events>>
      BY <1>2 DEF Transfer, stack
    <2>2. refers' = refers \/ (refers' = [refers EXCEPT ![c] = @ + 1] /\ inv[c] = "Confirmed")
      BY <1>2 DEF Transfer
    <2>3. \A d \in CallIds : refers'[d] > 0 => inv[d] # "none"
      BY <2>2 DEF QueueInv, Minted, CallInv, TypeOK, StackTypeOK
    <2> QED
      BY <2>1, <2>3, QueueFrame
  <1>3. CASE BlindTransfer(c)
    BY <1>2, <1>3 DEF BlindTransfer
  <1>4. ASSUME NEW d \in CallIds, AttendedTransfer(c, d) PROVE QueueInv'
    BY <1>2, <1>4 DEF AttendedTransfer
  <1> QED
    BY <1>1, <1>3, <1>4 DEF Command

\* Every step keeps records, wrappers and queue in relation.
LEMMA QueueInvNext == CallInv /\ QueueInv /\ [Next]_vars => QueueInv'
  <1> SUFFICES ASSUME CallInv, QueueInv, [Next]_vars PROVE QueueInv'
    OBVIOUS
  <1>1. CASE UNCHANGED vars
    BY <1>1, QueueFrame DEF vars, manager, stack, QueueInv, Minted
  <1>2. ASSUME NEW acc \in Accounts, RegisterAccount(acc) \/ UnregisterAccount(acc) PROVE QueueInv'
    BY <1>2, QueueFrame DEF RegisterAccount, UnregisterAccount, manager, stack, QueueInv, Minted
  <1>3. CASE RetryTimer
    <2>1. UNCHANGED <<m_records, m_calls, inv, nextCallId, events, refers>>
      BY <1>3 DEF RetryTimer, UnholdTimerFires, BridgeTimerFires, transfers
    <2> QED
      BY <2>1, QueueFrame DEF QueueInv, Minted
  <1>4. CASE Deliver
    BY <1>4, OnIncomingCallQueued, OnCallStateQueued, OnTransferStatusQueued DEF Deliver
  <1> QED
    BY <1>1, <1>2, <1>3, <1>4, MakeCallQueued, WrapIncomingCallQueued, SessionQueued, CommandQueued DEF Next

\* Whatever order calls, hang-ups, unregistrations and events come in, the relation
\* between the manager's records, the stack's wrappers and the queue holds.
THEOREM QueueInvariance == Spec => []QueueInv
  BY CallInvariance, QueueInvInit, QueueInvNext, PTL DEF Spec

\* The adapter holds a wrapper for exactly the calls that have a record or are
\* announced: releaseCall() is neither forgotten nor early.
THEOREM WrappersReleased == Spec => []WrappersAccountedFor
  <1>1. QueueInv => WrappersAccountedFor
    BY DEF QueueInv
  <1> QED
    BY <1>1, QueueInvariance, PTL

\* No record outlives its session without the event that ends it being queued.
THEOREM NoZombies == Spec => []NoZombieRecord
  <1>1. QueueInv => NoZombieRecord
    BY DEF QueueInv, Announced, Minted, NoZombieRecord, Live
  <1> QED
    BY <1>1, QueueInvariance, PTL


-----------------------------------------------------------------------------
(* What a NOTIFY hangs up.                                                 *)

\* Pending legs are legs of a REFER the stack accepted.
PendingAccepted == \A c \in CallIds : m_transfers[c] # {} => m_transfers[c] \in accepted[c]

\* Which event is a NOTIFY of a call, and which of those is final.
NotifyAt(i, c) == events[i].type = "transfer" /\ events[i].call = c
FinalAt(i, c) == NotifyAt(i, c) /\ events[i].code # "progress"

\* When a call is transferred at most once: as long as its REFER is open, or the
\* final NOTIFY of it is queued, the legs are still pending.
TransferOnce ==
  \A c \in CallIds :
    /\ attempts[c] <= 1 /\ refers[c] <= 1
    /\ accepted[c] # {} => attempts[c] = 1 /\ inv[c] # "none" /\ ~QueuedIncoming(c)
    /\ \A s, t \in accepted[c] : s = t
    /\ refers[c] > 0 => accepted[c] # {}
    /\ \A i \in 1..Len(events) : NotifyAt(i, c) => accepted[c] # {}
    /\ \A i \in 1..Len(events) : FinalAt(i, c) =>
         refers[c] = 0 /\ \A j \in 1..Len(events) : NotifyAt(j, c) => j <= i
    /\ c \in Live /\ (refers[c] > 0 \/ \E i \in 1..Len(events) : FinalAt(i, c))
         => m_transfers[c] \in accepted[c]

\* Only a delivered NOTIFY takes one off the queue.
LEMMA NotifyStep ==
  ASSUME CallInv, [Next]_vars, events # <<>>, Head(events).type = "transfer", events' = Tail(events)
  PROVE  OnTransferStatus
  <1>1. events \in Seq(Event) /\ Len(events) \in Nat /\ Len(events') = Len(events) - 1
    BY DEF CallInv, TypeOK
  <1>2. events' # events
    <2> SUFFICES ASSUME events' = events PROVE FALSE
      OBVIOUS
    <2>1. Len(events') = Len(events)
      BY Zenon
    <2> QED
      BY <1>1, <2>1
  <1>3. ASSUME NEW e, Post(e) PROVE FALSE
    BY <1>1, <1>3 DEF Post
  <1>4. ASSUME NEW acc \in Accounts, \/ MakeCall(acc) \/ WrapIncomingCall(acc)
                                     \/ RegisterAccount(acc) \/ UnregisterAccount(acc)
        PROVE  FALSE
    BY <1>2, <1>3, <1>4 DEF MakeCall, WrapIncomingCall, RegisterAccount, UnregisterAccount, stack
  <1>5. ASSUME NEW c \in CallIds, Command(c) \/ LingerTimerFires(c) PROVE FALSE
    <2>1. ASSUME NEW legs, Transfer(c, legs) PROVE FALSE
      BY <1>2, <2>1 DEF Transfer, stack
    <2>2. CASE Accept(c) \/ EndCall(c) \/ Hold(c) \/ Unhold(c) \/ LingerTimerFires(c)
      BY <1>2, <2>2 DEF Accept, EndCall, Hold, Unhold, LingerTimerFires, stack
    <2>3. ASSUME NEW d \in CallIds, MergeCalls(c, d) PROVE FALSE
      BY <1>2, <2>3 DEF MergeCalls
    <2> QED
      BY <1>5, <2>1, <2>2, <2>3 DEF Command, BlindTransfer, AttendedTransfer
  <1>6. ASSUME NEW c \in CallIds, Session(c) PROVE FALSE
    BY <1>2, <1>3, <1>6 DEF Session, SessionConfirmed, SessionDisconnected, ReinviteAnswered, TransferNotify
  <1>7. CASE RetryTimer
    BY <1>2, <1>7 DEF RetryTimer, UnholdTimerFires, BridgeTimerFires
  <1>8. CASE Deliver
    BY <1>8 DEF Deliver, OnIncomingCall, OnCallState
  <1>9. CASE UNCHANGED vars
    BY <1>2, <1>9 DEF vars, stack
  <1> QED
    BY <1>4, <1>5, <1>6, <1>7, <1>8, <1>9 DEF Next

\* Every step but a transfer leaves the accepted ones alone, and pending legs are
\* only ever dropped.
LEMMA PendingAcceptedNext == CallInv /\ PendingAccepted /\ [Next]_vars => PendingAccepted'
  <1> SUFFICES ASSUME CallInv, PendingAccepted, [Next]_vars PROVE PendingAccepted'
    OBVIOUS
  <1>0. /\ m_transfers \in [CallIds -> SUBSET CallIds] /\ accepted \in [CallIds -> SUBSET SUBSET CallIds]
    BY DEF CallInv, TypeOK, ManagerTypeOK, PairsTypeOK
  <1>1. ASSUME accepted' = accepted, \A c \in CallIds : m_transfers'[c] \in {m_transfers[c], {}}
        PROVE  PendingAccepted'
    BY <1>1 DEF PendingAccepted
  <1>2. CASE UNCHANGED <<m_transfers, accepted>>
    BY <1>1, <1>2
  <1>3. ASSUME NEW id \in CallIds, NEW legs, Transfer(id, legs) PROVE PendingAccepted'
    <2>1. \/ /\ m_transfers' = [m_transfers EXCEPT ![id] = legs]
             /\ accepted' = [accepted EXCEPT ![id] = @ \cup {legs}]
          \/ m_transfers' = [m_transfers EXCEPT ![id] = {}] /\ accepted' = accepted
      BY <1>3 DEF Transfer, Forget
    <2> QED
      BY <1>0, <2>1 DEF PendingAccepted
  <1>4. CASE OnTransferStatus
    <2>1. accepted' = accepted /\ m_transfers' \in {m_transfers, Forget(Head(events).call)}
      BY <1>4 DEF OnTransferStatus, PendingAfter, history
    <2> QED
      BY <1>0, <1>1, <2>1 DEF Forget
  <1>5. CASE OnCallState
    <2>1. accepted' = accepted /\ m_transfers' \in {m_transfers, Forget(Head(events).call)}
      BY <1>5 DEF OnCallState, Disconnect, history, manager
    <2> QED
      BY <1>0, <1>1, <2>1 DEF Forget
  <1>6. ASSUME NEW acc \in Accounts, \/ MakeCall(acc) \/ WrapIncomingCall(acc)
                                     \/ RegisterAccount(acc) \/ UnregisterAccount(acc)
        PROVE  PendingAccepted'
    BY <1>2, <1>6 DEF MakeCall, WrapIncomingCall, RegisterAccount, UnregisterAccount, manager, history, transfers
  <1>7. ASSUME NEW c \in CallIds, Command(c) \/ LingerTimerFires(c) PROVE PendingAccepted'
    <2>1. CASE Accept(c) \/ EndCall(c) \/ Hold(c) \/ Unhold(c) \/ LingerTimerFires(c)
      BY <1>2, <2>1 DEF Accept, EndCall, Hold, Unhold, LingerTimerFires, manager, history, transfers
    <2>2. ASSUME NEW d \in CallIds, MergeCalls(c, d) PROVE PendingAccepted'
      BY <1>2, <2>2 DEF MergeCalls, transfers
    <2> QED
      BY <1>3, <1>7, <2>1, <2>2 DEF Command, BlindTransfer, AttendedTransfer
  <1>8. ASSUME NEW c \in CallIds, Session(c) PROVE PendingAccepted'
    BY <1>2, <1>8 DEF Session, SessionConfirmed, SessionDisconnected, ReinviteAnswered, TransferNotify,
                      manager, history
  <1>9. CASE RetryTimer \/ OnIncomingCall
    BY <1>2, <1>9 DEF RetryTimer, UnholdTimerFires, BridgeTimerFires, OnIncomingCall, transfers
  <1>10. CASE UNCHANGED vars
    BY <1>2, <1>10 DEF vars, manager, history
  <1> QED
    BY <1>4, <1>5, <1>6, <1>7, <1>8, <1>9, <1>10 DEF Next, Deliver

\* For any number of transfers of a call, refused ones and late NOTIFYs included: a
\* NOTIFY of success hangs up legs of accepted transfers of its call only, and one
\* of progress or failure hangs up nothing (TransferTracker::takeLegsToHangup).
THEOREM OnlyLegsEnd ==
  Spec => [][/\ NotifyDelivered("ok") => hungUp' \ hungUp \subseteq UNION accepted[Head(events).call]
             /\ NotifyDelivered("progress") \/ NotifyDelivered("fail") => hungUp' = hungUp]_vars
  <1>1. Init => PendingAccepted
    BY DEF Init, PendingAccepted
  <1>2. CallInv /\ PendingAccepted /\ [Next]_vars =>
          /\ NotifyDelivered("ok") => hungUp' \ hungUp \subseteq UNION accepted[Head(events).call]
          /\ NotifyDelivered("progress") \/ NotifyDelivered("fail") => hungUp' = hungUp
    <2> SUFFICES ASSUME CallInv, PendingAccepted, [Next]_vars,
                        NEW code \in {"ok", "progress", "fail"}, NotifyDelivered(code)
                 PROVE  /\ code = "ok" => hungUp' \ hungUp \subseteq UNION accepted[Head(events).call]
                        /\ code # "ok" => hungUp' = hungUp
      OBVIOUS
    <2>1. OnTransferStatus /\ Head(events).code = code
      BY NotifyStep DEF NotifyDelivered
    <2>2. hungUp' = hungUp \cup (LegsToHangup(Head(events).call, code) \cap Live) /\ Head(events).call \in CallIds
      BY <2>1, HeadTyped DEF OnTransferStatus, CallInv, TypeOK
    <2> QED
      BY <2>2 DEF LegsToHangup, PendingAccepted
  <1> QED
    BY <1>1, <1>2, PendingAcceptedNext, CallInvariance, PTL DEF Spec


\* Steps that add no NOTIFY and no transfer keep the relation: every NOTIFY queued
\* after them was queued before, k places further back.
LEMMA OnceKept ==
  ASSUME CallInv, TransferOnce, NEW k \in {0, 1}, UNCHANGED <<attempts, refers, accepted>>,
         \A i \in 1..Len(events') : events'[i].type = "transfer" =>
           i + k \in 1..Len(events) /\ events'[i] = events[i + k],
         \A c \in CallIds : inv[c] # "none" => inv'[c] # "none",
         \A c \in CallIds : QueuedIncoming(c)' => QueuedIncoming(c) \/ inv[c] = "none",
         \A c \in CallIds : c \in Live' /\ (refers[c] > 0 \/ \E i \in 1..Len(events') : FinalAt(i, c)') =>
           (c \in Live /\ m_transfers'[c] = m_transfers[c]) \/ accepted[c] = {}
  PROVE  TransferOnce'
  <1> SUFFICES ASSUME NEW c \in CallIds
               PROVE  /\ accepted[c] # {} => attempts[c] = 1 /\ inv'[c] # "none" /\ ~QueuedIncoming(c)'
                      /\ \A i \in 1..Len(events') : NotifyAt(i, c)' => accepted[c] # {}
                      /\ \A i \in 1..Len(events') : FinalAt(i, c)' =>
                           refers[c] = 0 /\ \A j \in 1..Len(events') : NotifyAt(j, c)' => j <= i
                      /\ c \in Live' /\ (refers[c] > 0 \/ \E i \in 1..Len(events') : FinalAt(i, c)')
                           => m_transfers'[c] \in accepted[c]
    BY DEF TransferOnce
  <1>1. \A i \in 1..Len(events') : /\ NotifyAt(i, c)' => i + k \in 1..Len(events) /\ NotifyAt(i + k, c)
                                   /\ FinalAt(i, c)' => i + k \in 1..Len(events) /\ FinalAt(i + k, c)
    BY DEF NotifyAt, FinalAt
  <1>2. accepted[c] # {} => attempts[c] = 1 /\ inv'[c] # "none" /\ ~QueuedIncoming(c)'
    BY DEF TransferOnce
  <1>3. \A i \in 1..Len(events') : NotifyAt(i, c)' => accepted[c] # {}
    BY <1>1 DEF TransferOnce
  <1>4. ASSUME NEW i \in 1..Len(events'), FinalAt(i, c)'
        PROVE  refers[c] = 0 /\ \A j \in 1..Len(events') : NotifyAt(j, c)' => j <= i
    <2>1. /\ i + k \in 1..Len(events)
          /\ refers[c] = 0 /\ \A j \in 1..Len(events) : NotifyAt(j, c) => j <= i + k
      BY <1>1, <1>4 DEF TransferOnce
    <2>2. \A j \in 1..Len(events') : NotifyAt(j, c)' => j + k <= i + k
      BY <1>1, <2>1
    <2> QED
      BY <2>1, <2>2
  <1>5. ASSUME c \in Live', refers[c] > 0 \/ \E i \in 1..Len(events') : FinalAt(i, c)'
        PROVE  m_transfers'[c] \in accepted[c]
    <2>1. accepted[c] # {}
      <3>1. CASE refers[c] > 0
        BY <3>1 DEF TransferOnce
      <3>2. CASE \E i \in 1..Len(events') : FinalAt(i, c)'
        BY <1>3, <3>2 DEF FinalAt
      <3> QED
        BY <1>5, <3>1, <3>2
    <2>2. c \in Live /\ m_transfers'[c] = m_transfers[c]
      BY <1>5, <2>1
    <2>3. refers[c] > 0 \/ \E i \in 1..Len(events) : FinalAt(i, c)
      BY <1>1, <1>5
    <2> QED
      BY <2>2, <2>3 DEF TransferOnce
  <1> QED
    BY <1>2, <1>3, <1>4, <1>5

\* Steps that leave queue, records and transfers alone.
LEMMA OnceFrame ==
  ASSUME CallInv, TransferOnce, UNCHANGED <<attempts, refers, accepted, events, m_transfers, inv, m_records>>
  PROVE  TransferOnce'
  <1>1. Live' = Live /\ Len(events) \in Nat
    BY DEF Live, CallInv, TypeOK
  <1>2. \A c \in CallIds : QueuedIncoming(c)' => QueuedIncoming(c)
    BY DEF QueuedIncoming
  <1>3. \A i \in 1..Len(events') : i + 0 \in 1..Len(events) /\ events'[i] = events[i + 0]
    BY <1>1
  <1> QED
    BY <1>1, <1>2, <1>3, OnceKept

\* Steps that post an event which is no NOTIFY, or none.
LEMMA OncePost ==
  ASSUME CallInv, QueueInv, TransferOnce, UNCHANGED <<attempts, refers, accepted, m_transfers>>,
         NEW id \in CallIds,
         \/ events' = events
         \/ \E e \in Event : /\ Post(e) /\ e.type # "transfer"
                             /\ e.type = "incoming" => e.call = id /\ inv[id] = "none",
         \A c \in CallIds : inv[c] # "none" => inv'[c] # "none",
         Live' = Live \/ (Live' = Live \cup {id} /\ inv[id] = "none")
  PROVE  TransferOnce'
  <1>1. events \in Seq(Event) /\ Len(events) \in Nat
    BY DEF CallInv, TypeOK
  <1>2. \A c \in CallIds : c \in Live' => c \in Live \/ accepted[c] = {}
    BY DEF TransferOnce
  <1>3. /\ \A i \in 1..Len(events') : events'[i].type = "transfer" =>
             i + 0 \in 1..Len(events) /\ events'[i] = events[i + 0]
        /\ \A c \in CallIds : QueuedIncoming(c)' => QueuedIncoming(c) \/ inv[c] = "none"
    <2>1. CASE events' = events
      BY <1>1, <2>1 DEF QueuedIncoming
    <2>2. ASSUME NEW e \in Event, Post(e), e.type # "transfer",
                 e.type = "incoming" => e.call = id /\ inv[id] = "none"
          PROVE  <1>3!:
      <3>1. /\ \A i \in 1..Len(events) : i \in 1..Len(events') /\ events'[i] = events[i]
            /\ events'[Len(events) + 1] = e
            /\ \A i \in 1..Len(events') : i \in 1..Len(events) \/ i = Len(events) + 1
        BY <1>1, <2>2, PostFacts
      <3> QED
        BY <1>1, <2>2, <3>1 DEF QueuedIncoming
    <2> QED
      BY <2>1, <2>2
  <1> QED
    BY <1>2, <1>3, OnceKept


\* Delivering an event: a final NOTIFY is the last of its call, and a call loses
\* its pending legs otherwise only with its record.
LEMMA OnceDeliver ==
  ASSUME CallInv, QueueInv, TransferOnce, Deliver
  PROVE  TransferOnce'
  <1> DEFINE id == Head(events).call
  <1>1. /\ events \in Seq(Event) /\ events # <<>> /\ events' = Tail(events) /\ id \in CallIds
        /\ UNCHANGED <<attempts, refers, accepted, inv>>
        /\ m_transfers \in [CallIds -> SUBSET CallIds] /\ m_records \in [CallIds -> RecordStates]
    BY HeadTyped DEF Deliver, OnIncomingCall, OnCallState, OnTransferStatus, CallInv, TypeOK, ManagerTypeOK,
                     transfers, history
  <1>2. /\ 1 \in 1..Len(events) /\ events[1] = Head(events) /\ Len(events) \in Nat
        /\ \A i \in 1..Len(events') : i + 1 \in 1..Len(events) /\ events'[i] = events[i + 1]
    BY <1>1, TailFacts
  <1>3. \A c \in CallIds : QueuedIncoming(c)' => QueuedIncoming(c)
    BY <1>2 DEF QueuedIncoming
  <1>4. ASSUME NEW c \in CallIds, c \in Live', refers[c] > 0 \/ \E i \in 1..Len(events') : FinalAt(i, c)'
        PROVE  (c \in Live /\ m_transfers'[c] = m_transfers[c]) \/ accepted[c] = {}
    <2>1. CASE OnIncomingCall
      <3>1. m_transfers' = m_transfers /\ (c \in Live \/ c = id)
        BY <1>1, <1>4, <2>1 DEF OnIncomingCall, transfers, Live
      <3>2. c = id => accepted[c] = {}
        BY <1>2, <2>1 DEF OnIncomingCall, TransferOnce, QueuedIncoming
      <3> QED
        BY <3>1, <3>2
    <2>2. CASE OnCallState
      <3>1. \/ m_transfers' = m_transfers /\ Live' = Live
            \/ m_transfers' = [m_transfers EXCEPT ![id] = {}] /\ Live' = Live \ {id}
        <4>1. \/ m_transfers' = m_transfers /\ m_records' = m_records
              \/ m_transfers' = [m_transfers EXCEPT ![id] = {}] /\ m_records' = [m_records EXCEPT ![id] = "Absent"]
              \/ m_transfers' = m_transfers /\ id \in Live /\ m_records' = [m_records EXCEPT ![id] = "Confirmed"]
          BY <2>2 DEF OnCallState, Disconnect, Forget, manager
        <4> QED
          BY <1>1, <4>1 DEF Live
      <3> QED
        BY <1>1, <1>4, <3>1
    <2>3. CASE OnTransferStatus
      <3>1. Live' = Live /\ Head(events).type = "transfer"
        BY <2>3 DEF OnTransferStatus, Live
      <3>2. CASE Head(events).code = "progress" \/ c # id
        <4>1. \/ m_transfers' = m_transfers
              \/ m_transfers' = [m_transfers EXCEPT ![id] = {}] /\ c # id
          BY <2>3, <3>2 DEF OnTransferStatus, PendingAfter, Forget
        <4> QED
          BY <1>1, <1>4, <3>1, <4>1
      <3>3. CASE Head(events).code # "progress" /\ c = id
        <4>1. FinalAt(1, c)
          BY <1>2, <3>1, <3>3 DEF FinalAt, NotifyAt
        <4>2. refers[c] = 0 /\ \A j \in 1..Len(events) : NotifyAt(j, c) => j <= 1
          BY <1>2, <4>1 DEF TransferOnce
        <4>3. ASSUME NEW i \in 1..Len(events'), FinalAt(i, c)' PROVE FALSE
          <5>1. i + 1 \in 1..Len(events) /\ NotifyAt(i + 1, c)
            BY <1>2, <4>3 DEF FinalAt, NotifyAt
          <5> QED
            BY <4>2, <5>1
        <4> QED
          BY <1>4, <4>2, <4>3
      <3> QED
        BY <3>2, <3>3
    <2> QED
      BY <2>1, <2>2, <2>3 DEF Deliver
  <1> HIDE DEF id
  <1> QED
    BY <1>1, <1>2, <1>3, <1>4, OnceKept

\* A NOTIFY of an open REFER: no final one was queued before it.
LEMMA OnceNotify ==
  ASSUME CallInv, QueueInv, TransferOnce, NEW c \in CallIds, NEW code \in {"progress", "ok", "fail"},
         TransferNotify(c, code)
  PROVE  TransferOnce'
  <1> DEFINE e == [type |-> "transfer", call |-> c, code |-> code]
  <1>1. /\ events \in Seq(Event) /\ Post(e) /\ refers[c] > 0 /\ refers \in [CallIds -> Nat]
        /\ refers' = IF code = "progress" THEN refers ELSE [refers EXCEPT ![c] = @ - 1]
        /\ UNCHANGED <<m_transfers, m_records, attempts, accepted, inv>>
    BY DEF CallInv, TypeOK, StackTypeOK, TransferNotify, manager, history
  <1>2. e \in Event /\ e.type = "transfer" /\ e.call = c /\ e.code = code
    BY DEF Event
  <1> HIDE DEF e
  <1>3. /\ Len(events) \in Nat /\ Len(events') = Len(events) + 1
        /\ \A i \in 1..Len(events) : i \in 1..Len(events') /\ events'[i] = events[i]
        /\ events'[Len(events) + 1] = e
        /\ \A i \in 1..Len(events') : i \in 1..Len(events) \/ i = Len(events) + 1
    BY <1>1, <1>2, PostFacts
  <1>4. Live' = Live
    BY <1>1 DEF Live
  <1>5. \A d \in CallIds : QueuedIncoming(d)' => QueuedIncoming(d)
    BY <1>2, <1>3 DEF QueuedIncoming
  <1>6. /\ refers[c] = 1 /\ accepted[c] # {} /\ \A i \in 1..Len(events) : ~FinalAt(i, c)
    BY <1>1 DEF TransferOnce
  <1>7. /\ refers'[c] = IF code = "progress" THEN 1 ELSE 0
        /\ \A d \in CallIds : d # c => refers'[d] = refers[d]
    BY <1>1, <1>6
  <1>8. \A d \in CallIds, i \in 1..Len(events') :
          /\ NotifyAt(i, d)' => (i \in 1..Len(events) /\ NotifyAt(i, d)) \/ (i = Len(events) + 1 /\ d = c)
          /\ FinalAt(i, d)' => \/ i \in 1..Len(events) /\ FinalAt(i, d)
                               \/ i = Len(events) + 1 /\ d = c /\ code # "progress"
    BY <1>2, <1>3 DEF NotifyAt, FinalAt
  <1> SUFFICES ASSUME NEW d \in CallIds
               PROVE  /\ refers'[d] <= 1
                      /\ refers'[d] > 0 => accepted[d] # {}
                      /\ accepted[d] # {} => ~QueuedIncoming(d)'
                      /\ \A i \in 1..Len(events') : NotifyAt(i, d)' => accepted[d] # {}
                      /\ \A i \in 1..Len(events') : FinalAt(i, d)' =>
                           refers'[d] = 0 /\ \A j \in 1..Len(events') : NotifyAt(j, d)' => j <= i
                      /\ d \in Live /\ (refers'[d] > 0 \/ \E i \in 1..Len(events') : FinalAt(i, d)')
                           => m_transfers[d] \in accepted[d]
    BY <1>1, <1>4 DEF TransferOnce
  <1>9. refers'[d] <= 1 /\ (refers'[d] > 0 => accepted[d] # {}) /\ (accepted[d] # {} => ~QueuedIncoming(d)')
    BY <1>5, <1>6, <1>7 DEF TransferOnce
  <1>10. \A i \in 1..Len(events') : NotifyAt(i, d)' => accepted[d] # {}
    BY <1>6, <1>8 DEF TransferOnce
  <1>11. ASSUME NEW i \in 1..Len(events'), FinalAt(i, d)'
         PROVE  refers'[d] = 0 /\ \A j \in 1..Len(events') : NotifyAt(j, d)' => j <= i
    <2>1. CASE d = c
      BY <1>3, <1>6, <1>7, <1>8, <1>11, <2>1
    <2>2. CASE d # c
      BY <1>7, <1>8, <1>11, <2>2 DEF TransferOnce
    <2> QED
      BY <2>1, <2>2
  <1>12. ASSUME d \in Live, refers'[d] > 0 \/ \E i \in 1..Len(events') : FinalAt(i, d)'
         PROVE  m_transfers[d] \in accepted[d]
    <2>1. refers[d] > 0 \/ \E i \in 1..Len(events) : FinalAt(i, d)
      BY <1>1, <1>7, <1>8, <1>12
    <2> QED
      BY <1>12, <2>1 DEF TransferOnce
  <1> QED
    BY <1>9, <1>10, <1>11, <1>12

\* The one transfer of a call: it has none pending, open or announced before.
LEMMA OnceTransfer ==
  ASSUME MaxTransfers = 1, CallInv, QueueInv, TransferOnce, NEW id \in CallIds, NEW legs \in SUBSET CallIds,
         id \in legs, Transfer(id, legs)
  PROVE  TransferOnce'
  <1>1. /\ attempts \in [CallIds -> Nat] /\ refers \in [CallIds -> Nat]
        /\ accepted \in [CallIds -> SUBSET SUBSET CallIds] /\ m_transfers \in [CallIds -> SUBSET CallIds]
        /\ events' = events /\ inv' = inv /\ m_records' = m_records /\ id \in Live
        /\ attempts[id] < 1 /\ attempts' = [attempts EXCEPT ![id] = @ + 1]
    BY DEF CallInv, TypeOK, StackTypeOK, PairsTypeOK, ManagerTypeOK, Transfer, stack
  <1>2. \/ /\ m_transfers' = [m_transfers EXCEPT ![id] = legs] /\ inv[id] = "Confirmed"
           /\ refers' = [refers EXCEPT ![id] = @ + 1] /\ accepted' = [accepted EXCEPT ![id] = @ \cup {legs}]
        \/ m_transfers' = [m_transfers EXCEPT ![id] = {}] /\ refers' = refers /\ accepted' = accepted
    BY DEF Transfer, Forget
  <1>3. attempts[id] = 0 /\ accepted[id] = {} /\ refers[id] = 0
    BY <1>1 DEF TransferOnce
  <1>4. ~QueuedIncoming(id)
    BY <1>1 DEF QueueInv, IncomingFirst, QueuedIncoming
  <1>5. Live' = Live
    BY <1>1 DEF Live
  <1>6. \A c \in CallIds : /\ QueuedIncoming(c)' <=> QueuedIncoming(c)
                           /\ \A i : (NotifyAt(i, c)' <=> NotifyAt(i, c)) /\ (FinalAt(i, c)' <=> FinalAt(i, c))
    BY <1>1 DEF QueuedIncoming, NotifyAt, FinalAt
  <1>7. \A c \in CallIds : c # id => /\ attempts'[c] = attempts[c] /\ refers'[c] = refers[c]
                                     /\ accepted'[c] = accepted[c] /\ m_transfers'[c] = m_transfers[c]
    BY <1>1, <1>2
  <1>8. /\ attempts'[id] = 1
        /\ \/ accepted'[id] = {legs} /\ m_transfers'[id] = legs /\ refers'[id] = 1 /\ inv[id] = "Confirmed"
           \/ accepted'[id] = {} /\ refers'[id] = 0
    BY <1>1, <1>2, <1>3
  <1>9. \A i \in 1..Len(events) : ~NotifyAt(i, id) /\ ~FinalAt(i, id)
    BY <1>3 DEF TransferOnce, FinalAt
  <1> SUFFICES ASSUME NEW c \in CallIds
               PROVE  /\ attempts'[c] <= 1 /\ refers'[c] <= 1
                      /\ accepted'[c] # {} => attempts'[c] = 1 /\ inv[c] # "none" /\ ~QueuedIncoming(c)
                      /\ \A s, t \in accepted'[c] : s = t
                      /\ refers'[c] > 0 => accepted'[c] # {}
                      /\ \A i \in 1..Len(events) : NotifyAt(i, c) => accepted'[c] # {}
                      /\ \A i \in 1..Len(events) : FinalAt(i, c) =>
                           refers'[c] = 0 /\ \A j \in 1..Len(events) : NotifyAt(j, c) => j <= i
                      /\ c \in Live /\ (refers'[c] > 0 \/ \E i \in 1..Len(events) : FinalAt(i, c))
                           => m_transfers'[c] \in accepted'[c]
    BY <1>1, <1>5, <1>6 DEF TransferOnce
  <1>10. CASE c # id
    BY <1>7, <1>10 DEF TransferOnce
  <1>11. CASE c = id
    BY <1>4, <1>8, <1>9, <1>11
  <1> QED
    BY <1>10, <1>11

\* Every step keeps it.
LEMMA TransferOnceNext ==
  ASSUME MaxTransfers = 1
  PROVE  CallInv /\ QueueInv /\ TransferOnce /\ [Next]_vars => TransferOnce'
  <1> SUFFICES ASSUME CallInv, QueueInv, TransferOnce, [Next]_vars PROVE TransferOnce'
    OBVIOUS
  <1>1. ASSUME NEW acc \in Accounts, MakeCall(acc) PROVE TransferOnce'
    <2>1. /\ nextCallId \in CallIds /\ inv[nextCallId] = "none" /\ events' = events
          /\ UNCHANGED <<attempts, refers, accepted, m_transfers>>
      BY <1>1 DEF MakeCall, transfers, QueueInv, Minted, CallIds
    <2>2. \/ m_records' = m_records /\ inv' = inv
          \/ m_records' = [m_records EXCEPT ![nextCallId] = "Calling"] /\ inv' = [inv EXCEPT ![nextCallId] = "Calling"]
      BY <1>1 DEF MakeCall
    <2>3. Live' = Live \/ Live' = Live \cup {nextCallId}
      BY <2>1, <2>2 DEF Live, CallInv, TypeOK, ManagerTypeOK
    <2>4. \A c \in CallIds : inv[c] # "none" => inv'[c] # "none"
      BY <2>1, <2>2 DEF CallInv, TypeOK, StackTypeOK
    <2> QED
      BY <2>1, <2>3, <2>4, OncePost
  <1>2. ASSUME NEW acc \in Accounts, WrapIncomingCall(acc) PROVE TransferOnce'
    <2> DEFINE e == [type |-> "incoming", call |-> nextCallId, acc |-> m_backendIds[acc]]
    <2>1. /\ nextCallId \in CallIds /\ inv[nextCallId] = "none" /\ Post(e)
          /\ UNCHANGED <<attempts, refers, accepted, m_transfers, m_records>>
          /\ inv' = [inv EXCEPT ![nextCallId] = "Calling"]
      BY <1>2 DEF WrapIncomingCall, manager, history, QueueInv, Minted, CallIds
    <2>2. e \in Event /\ e.type = "incoming" /\ e.call = nextCallId
      BY <2>1 DEF Event, CallInv, TypeOK, AccountsTypeOK
    <2>3. Live' = Live /\ \A c \in CallIds : inv[c] # "none" => inv'[c] # "none"
      BY <2>1 DEF Live, CallInv, TypeOK, StackTypeOK
    <2> HIDE DEF e
    <2> QED
      BY <2>1, <2>2, <2>3, OncePost
  <1>3. ASSUME NEW c \in CallIds, SessionConfirmed(c) \/ SessionDisconnected(c) PROVE TransferOnce'
    <2>1. PICK st \in {"Confirmed", "Disconnected"} :
            /\ Post([type |-> "state", call |-> c, st |-> st]) /\ inv' = [inv EXCEPT ![c] = st]
            /\ UNCHANGED <<attempts, refers, accepted, m_transfers, m_records>>
      BY <1>3 DEF SessionConfirmed, SessionDisconnected, manager, history
    <2> DEFINE e == [type |-> "state", call |-> c, st |-> st]
    <2>2. e \in Event /\ e.type = "state"
      BY DEF Event
    <2>3. Live' = Live /\ \A d \in CallIds : inv[d] # "none" => inv'[d] # "none"
      BY <2>1 DEF Live, CallInv, TypeOK, StackTypeOK
    <2>4. Post(e)
      BY <2>1
    <2> HIDE DEF e
    <2> QED
      BY <2>1, <2>2, <2>3, <2>4, OncePost
  <1>4. ASSUME NEW c \in CallIds, ReinviteAnswered(c) PROVE TransferOnce'
    BY <1>4, OnceFrame DEF ReinviteAnswered, manager, history
  <1>5. ASSUME NEW c \in CallIds, Command(c) \/ LingerTimerFires(c) PROVE TransferOnce'
    <2>1. CASE \/ Accept(c) \/ EndCall(c) \/ Hold(c) \/ Unhold(c) \/ LingerTimerFires(c)
               \/ \E d \in CallIds : MergeCalls(c, d)
      BY <2>1, OnceFrame DEF Accept, EndCall, Hold, Unhold, LingerTimerFires, MergeCalls, manager, history,
                             transfers, stack
    <2>2. CASE BlindTransfer(c)
      BY <2>2, OnceTransfer DEF BlindTransfer
    <2>3. ASSUME NEW d \in CallIds, AttendedTransfer(c, d) PROVE TransferOnce'
      BY <2>3, OnceTransfer DEF AttendedTransfer
    <2> QED
      BY <1>5, <2>1, <2>2, <2>3 DEF Command
  <1>6. CASE RetryTimer
    BY <1>6, OnceFrame DEF RetryTimer, UnholdTimerFires, BridgeTimerFires, transfers
  <1>7. ASSUME NEW acc \in Accounts, RegisterAccount(acc) \/ UnregisterAccount(acc) PROVE TransferOnce'
    BY <1>7, OnceFrame DEF RegisterAccount, UnregisterAccount, manager, stack, history
  <1>8. CASE UNCHANGED vars
    BY <1>8, OnceFrame DEF vars, manager, stack, history
  <1> QED
    BY <1>1, <1>2, <1>3, <1>4, <1>5, <1>6, <1>7, <1>8, OnceDeliver, OnceNotify DEF Next, Session

\* For any calls, accounts and interleavings, each call being transferred at most
\* once: when the NOTIFY reports success and the originating call is still up,
\* every leg that is still up is hung up, and no other call.
THEOREM NotifyEndsTransfer ==
  ASSUME MaxTransfers = 1
  PROVE  Spec => NotifyHangsUpTheTransfer
  <1>1. Init => PendingAccepted /\ TransferOnce
    <2> SUFFICES ASSUME Init PROVE PendingAccepted /\ TransferOnce
      OBVIOUS
    <2>1. /\ Len(events) = 0
          /\ \A c \in CallIds : /\ attempts[c] = 0 /\ refers[c] = 0 /\ accepted[c] = {} /\ m_transfers[c] = {}
      BY DEF Init
    <2> QED
      BY <2>1 DEF PendingAccepted, TransferOnce
  <1>2. CallInv /\ PendingAccepted /\ TransferOnce /\ [Next]_vars =>
          /\ NotifyDelivered("ok") =>
               LET legs == UNION accepted[Head(events).call]
               IN /\ Head(events).call \in Live => legs \cap Live \subseteq hungUp'
                  /\ hungUp' \ hungUp \subseteq legs
          /\ NotifyDelivered("progress") \/ NotifyDelivered("fail") => hungUp' = hungUp
    <2> SUFFICES ASSUME CallInv, PendingAccepted, TransferOnce, [Next]_vars
                 PROVE  <1>2!2
      OBVIOUS
    <2> DEFINE id == Head(events).call
    <2>1. ASSUME NEW code, NotifyDelivered(code)
          PROVE  hungUp' = hungUp \cup (LegsToHangup(id, code) \cap Live) /\ id \in CallIds
      <3>1. OnTransferStatus /\ Head(events).code = code
        BY <2>1, NotifyStep DEF NotifyDelivered
      <3> QED
        BY <3>1, HeadTyped DEF OnTransferStatus, CallInv, TypeOK
    <2>2. ASSUME NotifyDelivered("ok"), id \in Live PROVE UNION accepted[id] = m_transfers[id]
      <3>1. events \in Seq(Event) /\ events # <<>> /\ events' = Tail(events)
        BY <2>2 DEF CallInv, TypeOK, NotifyDelivered
      <3>2. 1 \in 1..Len(events) /\ events[1] = Head(events)
        BY <3>1, TailFacts
      <3>3. FinalAt(1, id)
        BY <2>2, <3>2 DEF FinalAt, NotifyAt, NotifyDelivered
      <3>4. m_transfers[id] \in accepted[id] /\ \A s, t \in accepted[id] : s = t
        BY <2>1, <2>2, <3>2, <3>3 DEF TransferOnce
      <3> QED
        BY <3>4
    <2> HIDE DEF id
    <2>3. ASSUME NotifyDelivered("ok")
          PROVE  /\ id \in Live => (UNION accepted[id]) \cap Live \subseteq hungUp'
                 /\ hungUp' \ hungUp \subseteq UNION accepted[id]
      <3>1. hungUp' = hungUp \cup (m_transfers[id] \cap Live) /\ id \in CallIds
        BY <2>1, <2>3 DEF LegsToHangup
      <3>2. id \in Live => (UNION accepted[id]) \cap Live \subseteq hungUp'
        BY <2>2, <2>3, <3>1
      <3>3. hungUp' \ hungUp \subseteq UNION accepted[id]
        BY <3>1 DEF PendingAccepted
      <3> QED
        BY <3>2, <3>3
    <2>4. ASSUME NotifyDelivered("progress") \/ NotifyDelivered("fail") PROVE hungUp' = hungUp
      BY <2>1, <2>4 DEF LegsToHangup
    <2> QED
      BY <2>3, <2>4 DEF id
  <1>3. CallInv /\ QueueInv /\ TransferOnce /\ [Next]_vars => TransferOnce'
    BY TransferOnceNext
  <1> QED
    BY <1>1, <1>2, <1>3, PendingAcceptedNext, CallInvariance, QueueInvariance, PTL
       DEF Spec, NotifyHangsUpTheTransfer
=============================================================================
