-------------------------- MODULE KafkaClientProofs --------------------------
(***************************************************************************)
(* Theorems about KafkaClient, for any number of callers, thresholds,      *)
(* retries, reconnections and closes.                                      *)
(***************************************************************************)
EXTENDS KafkaClient, TLAPS

\* A producer is made only when there is none: each close removes at most one.
ProducersCounted ==
    /\ closer # 0 => producer # 0 /\ closes > 0
    /\ created <= IF producer = 0 \/ closer # 0 THEN closes ELSE closes + 1

\* A call that connects has a producer, one that pauses has attempts left.
CallShape ==
    \A c \in Calls :
        /\ pc[c] = "connecting" => target[c] # 0
        /\ pc[c] = "pausing" => tries[c] < MaxRetries

TypeInv == TypeOK /\ ProducersCounted /\ CallShape

\* TypeOK, by the groups of variables that actions leave unchanged together.
BreakerOK ==
    /\ breaker \in {"closed", "open", "half_open"}
    /\ failureCount \in 0..MaxCount
    /\ halfOpen \in BOOLEAN
    /\ orphans \in Nat
ProducerOK ==
    /\ producer \in Instances \cup {0}
    /\ created \in Instances \cup {0}
    /\ isConnected \in BOOLEAN
    /\ linked \subseteq Instances
    /\ listening \subseteq Instances
    /\ signals \in [Instances -> 0..MaxLate]
ReconnectOK == reconnect \in BOOLEAN /\ attempts \in 0..MaxReconnects
CloseOK == isClosing \in BOOLEAN /\ closer \in Instances \cup {0} /\ closes \in 0..MaxCloses
CallOK ==
    /\ pc \in [Calls -> {"idle", "connecting", "pausing"}]
    /\ target \in [Calls -> Instances \cup {0}]
    /\ tries \in [Calls -> 0..MaxRetries]

-----------------------------------------------------------------------------
(* Lemmas about the breaker and the reconnect timer *)

LEMMA TypeGroups ==
    TypeOK <=> BreakerOK /\ ProducerOK /\ ReconnectOK /\ CloseOK /\ CallOK
BY Zenon DEF TypeOK, BreakerOK, ProducerOK, ReconnectOK, CloseOK, CallOK

LEMMA TypeGroupsAfter ==
    TypeOK' <=> BreakerOK' /\ ProducerOK' /\ ReconnectOK' /\ CloseOK' /\ CallOK'
BY Zenon DEF TypeOK, BreakerOK, ProducerOK, ReconnectOK, CloseOK, CallOK

\* Unchanged variables keep their type.
LEMMA UnchangedGroups ==
    ASSUME TypeOK
    PROVE /\ UNCHANGED breakerVars => BreakerOK'
          /\ UNCHANGED producerVars => ProducerOK'
          /\ UNCHANGED reconnectVars => ReconnectOK'
          /\ UNCHANGED closeVars => CloseOK'
          /\ UNCHANGED callVars => CallOK'
<1>1. UNCHANGED breakerVars => BreakerOK'
  BY Zenon DEF TypeOK, breakerVars, BreakerOK
<1>2. UNCHANGED producerVars => ProducerOK'
  BY Zenon DEF TypeOK, producerVars, ProducerOK
<1>3. UNCHANGED reconnectVars => ReconnectOK'
  BY Zenon DEF TypeOK, reconnectVars, ReconnectOK
<1>4. UNCHANGED closeVars => CloseOK'
  BY Zenon DEF TypeOK, closeVars, CloseOK
<1>5. UNCHANGED callVars => CallOK'
  BY Zenon DEF TypeOK, callVars, CallOK
<1> QED
  BY <1>1, <1>2, <1>3, <1>4, <1>5

LEMMA BreakerFailsType ==
    ASSUME TypeOK, BreakerFails
    PROVE BreakerOK'
<1>1. failureCount \in 0..MaxCount /\ MaxCount \in Nat
  BY ClientAssumption DEF TypeOK
<1>2. failureCount' = IF failureCount < MaxCount THEN failureCount + 1 ELSE failureCount
  BY DEF BreakerFails
<1>3. failureCount' \in 0..MaxCount
  BY <1>1, <1>2
<1>4. breaker' \in {"closed", "open", "half_open"} /\ halfOpen' \in BOOLEAN
  BY Zenon DEF TypeOK, BreakerFails, OpenCircuit
<1>5. orphans' = orphans \/ orphans' = orphans + (IF halfOpen THEN 1 ELSE 0)
  BY DEF BreakerFails, OpenCircuit
<1>6. orphans' \in Nat
  BY <1>5 DEF TypeOK
<1> QED
  BY <1>3, <1>4, <1>6 DEF BreakerOK

LEMMA BreakerSucceedsType ==
    ASSUME TypeOK, BreakerSucceeds
    PROVE BreakerOK'
<1>1. failureCount' \in 0..MaxCount
  BY ClientAssumption DEF BreakerSucceeds
<1>2. breaker' \in {"closed", "open", "half_open"} /\ halfOpen' \in BOOLEAN /\ orphans' \in Nat
  BY Zenon DEF TypeOK, BreakerSucceeds
<1> QED
  BY <1>1, <1>2 DEF BreakerOK

LEMMA ScheduleReconnectType ==
    ASSUME TypeOK, ScheduleReconnect
    PROVE ReconnectOK'
<1>1. reconnect' \in BOOLEAN
  BY Zenon DEF TypeOK, ScheduleReconnect, reconnectVars
<1>2. \/ attempts' = attempts
      \/ attempts < MaxReconnects /\ attempts' = attempts + 1
  BY DEF ScheduleReconnect, reconnectVars
<1>3. attempts \in 0..MaxReconnects /\ MaxReconnects \in Nat
  BY ClientAssumption DEF TypeOK
<1>4. attempts' \in 0..MaxReconnects
  BY <1>2, <1>3
<1> QED
  BY <1>1, <1>4 DEF ReconnectOK

\* A call that begins to connect makes a producer when there is none.
LEMMA BeginType ==
    ASSUME TypeInv, NEW c \in Calls, Begin(c)
    PROVE /\ producer' \in Instances /\ created' \in Instances \cup {0}
          /\ producer # 0 => producer' = producer /\ created' = created
          /\ producer = 0 => created' = created + 1
          /\ pc' = [pc EXCEPT ![c] = "connecting"]
          /\ target' = [target EXCEPT ![c] = producer']
          /\ tries' = [tries EXCEPT ![c] = 1]
          /\ UNCHANGED <<isConnected, linked, listening, signals>>
<1>1. producer = 0 => closer = 0 /\ created <= closes
  BY DEF TypeInv, ProducersCounted
<1>2. producer = 0 => created + 1 \in Instances
  BY <1>1, ClientAssumption DEF TypeInv, TypeOK, Instances
<1> QED
  BY <1>2 DEF Begin, TypeInv, TypeOK

\* A call that ends, or pauses, leaves the others alone.
LEMMA EndsOrPauses ==
    ASSUME TypeOK, NEW c \in Calls, End(c) \/ Pause(c)
    PROVE /\ CallOK'
          /\ pc'[c] = "idle" \/ (pc'[c] = "pausing" /\ tries'[c] = tries[c] /\ Pause(c))
          /\ \A d \in Calls : d # c =>
                pc'[d] = pc[d] /\ target'[d] = target[d] /\ tries'[d] = tries[d]
BY ClientAssumption DEF TypeOK, CallOK, End, Pause

-----------------------------------------------------------------------------

LEMMA TypeInvariant == Spec => []TypeInv
<1> USE DEF ProducersCounted, CallShape
<1>1. Init => TypeInv
  <2> SUFFICES ASSUME Init PROVE TypeInv
    OBVIOUS
  <2>1. BreakerOK /\ ReconnectOK /\ CloseOK
    <3>1. 0 \in 0..MaxCount /\ 0 \in 0..MaxReconnects /\ 0 \in 0..MaxCloses /\ 0 \in Nat
      BY ClientAssumption
    <3> QED
      BY <3>1, Zenon DEF Init, BreakerOK, ReconnectOK, CloseOK
  <2>2. ProducerOK
    <3>1. signals \in [Instances -> 0..MaxLate]
      BY ClientAssumption DEF Init
    <3> QED
      BY <3>1, Zenon DEF Init, ProducerOK
  <2>3. CallOK
    BY ClientAssumption DEF Init, CallOK
  <2>4. ProducersCounted /\ CallShape
    BY DEF Init
  <2> QED
    BY <2>1, <2>2, <2>3, <2>4, TypeGroups DEF TypeInv
<1>2. TypeInv /\ [Next]_vars => TypeInv'
  <2> SUFFICES ASSUME TypeInv, [Next]_vars PROVE TypeInv'
    OBVIOUS
  <2>0. /\ TypeOK /\ ProducersCounted /\ CallShape
        /\ pc \in [Calls -> {"idle", "connecting", "pausing"}]
        /\ target \in [Calls -> Instances \cup {0}]
        /\ tries \in [Calls -> 0..MaxRetries]
    BY DEF TypeInv, TypeOK
  <2>1. ASSUME HalfOpenFires \/ OrphanFires PROVE TypeInv'
    <3>1. breaker' = "half_open" /\ halfOpen' = FALSE /\ failureCount' = failureCount
          /\ UNCHANGED <<producerVars, reconnectVars, closeVars, callVars>>
      BY <2>1 DEF HalfOpenFires, OrphanFires
    <3>2. orphans' = orphans \/ (orphans > 0 /\ orphans' = orphans - 1)
      BY <2>1 DEF HalfOpenFires, OrphanFires
    <3>3. orphans' \in Nat
      BY <2>0, <3>2 DEF TypeOK
    <3>4. BreakerOK'
      BY <2>0, <3>1, <3>3, Zenon DEF TypeOK, BreakerOK
    <3>5. TypeOK'
      BY <2>0, <3>1, <3>4, UnchangedGroups, TypeGroupsAfter
    <3> QED
      BY <2>0, <3>1, <3>5 DEF TypeInv, producerVars, closeVars, callVars
  <2>2. ASSUME Close PROVE TypeInv'
    <3>1. closes' \in 0..MaxCloses /\ closes' = closes + 1
      BY <2>0, <2>2, ClientAssumption DEF Close, TypeOK
    <3>2. producer' \in {producer, 0} /\ closer' \in {closer, producer}
          /\ (closer' # 0 => producer' # 0)
          /\ (producer' = 0 \/ closer' # 0)
      BY <2>2 DEF Close, Ready
    <3>3. BreakerOK'
      <4>1. breaker' \in {breaker, "closed"} /\ failureCount' \in {failureCount, 0}
            /\ halfOpen' = FALSE /\ orphans' = orphans
        BY <2>2 DEF Close, ResetBreaker
      <4>2. failureCount' \in 0..MaxCount
        BY <2>0, <4>1, ClientAssumption DEF TypeOK
      <4> QED
        BY <2>0, <4>1, <4>2, Zenon DEF BreakerOK, TypeOK
    <3>4. ProducerOK' /\ ReconnectOK' /\ CloseOK'
      BY <2>0, <2>2, <3>1, <3>2, Zenon DEF Close, TypeOK, ProducerOK, ReconnectOK, CloseOK
    <3>5. UNCHANGED <<created, callVars>>
      BY <2>2 DEF Close
    <3>6. TypeOK'
      BY <2>0, <3>3, <3>4, <3>5, UnchangedGroups, TypeGroupsAfter
    <3>7. created \in Nat /\ closes \in Nat
      BY <2>0, ClientAssumption DEF TypeOK, Instances
    <3>8. created' <= closes' /\ closes' > 0
      BY <2>0, <2>2, <3>1, <3>5, <3>7 DEF Close
    <3> QED
      BY <2>0, <3>2, <3>5, <3>6, <3>8 DEF TypeInv, callVars
  <2>3. ASSUME CloseEnds PROVE TypeInv'
    <3>1. breaker' = "closed" /\ failureCount' = 0 /\ halfOpen' = halfOpen /\ orphans' = orphans
      BY <2>3 DEF CloseEnds, ResetBreaker
    <3>2. BreakerOK'
      <4>1. failureCount' \in 0..MaxCount
        BY <3>1, ClientAssumption
      <4> QED
        BY <2>0, <3>1, <4>1, Zenon DEF BreakerOK, TypeOK
    <3>3. ProducerOK' /\ CloseOK'
      BY <2>0, <2>3, Zenon DEF CloseEnds, TypeOK, ProducerOK, CloseOK
    <3>4. ReconnectOK'
      BY <2>0, <2>3, ScheduleReconnectType, UnchangedGroups DEF CloseEnds
    <3>5. UNCHANGED <<created, closes, callVars>> /\ producer' = 0 /\ closer' = 0 /\ closer # 0
      BY <2>3 DEF CloseEnds
    <3>6. TypeOK'
      BY <2>0, <3>2, <3>3, <3>4, <3>5, UnchangedGroups, TypeGroupsAfter
    <3> QED
      BY <2>0, <3>5, <3>6 DEF TypeInv, callVars
  <2>4. ASSUME CloseFails PROVE TypeInv'
    <3>1. UNCHANGED <<breakerVars, producerVars, reconnectVars, isClosing, closes, callVars>>
          /\ closer' = 0 /\ closer # 0
      BY <2>4 DEF CloseFails
    <3>2. CloseOK'
      BY <2>0, <3>1, Zenon DEF TypeOK, CloseOK
    <3>3. TypeOK'
      BY <2>0, <3>1, <3>2, UnchangedGroups, TypeGroupsAfter
    <3>4. created \in Nat /\ closes \in Nat
      BY <2>0, ClientAssumption DEF TypeOK, Instances
    <3> QED
      BY <2>0, <3>1, <3>3, <3>4 DEF TypeInv, producerVars, callVars
  <2>5. ASSUME NEW i \in Instances, LinkLost(i) \/ Disconnected(i) PROVE TypeInv'
    <3>1. /\ linked' \in {linked, linked \ {i}} /\ isConnected' \in {isConnected, FALSE}
          /\ UNCHANGED <<breakerVars, producer, created, listening, closeVars, callVars>>
      BY <2>5, Zenon DEF LinkLost, Disconnected
    <3>2. signals' \in [Instances -> 0..MaxLate]
      BY <2>0, <2>5, ClientAssumption DEF LinkLost, Disconnected, TypeOK
    <3>3. ProducerOK'
      BY <2>0, <3>1, <3>2, Zenon DEF TypeOK, ProducerOK
    <3>4. ReconnectOK'
      BY <2>0, <2>5, ScheduleReconnectType, UnchangedGroups DEF LinkLost, Disconnected
    <3>5. TypeOK'
      BY <2>0, <3>1, <3>3, <3>4, UnchangedGroups, TypeGroupsAfter
    <3> QED
      BY <2>0, <3>1, <3>5 DEF TypeInv, closeVars, callVars
  <2>6. ASSUME NEW c \in Calls, Begin(c), UNCHANGED <<breakerVars, closer, closes>>,
               ReconnectOK', isClosing' \in BOOLEAN
        PROVE TypeInv'
    <3>1. /\ producer' \in Instances /\ created' \in Instances \cup {0}
          /\ producer # 0 => producer' = producer /\ created' = created
          /\ producer = 0 => created' = created + 1
          /\ pc' = [pc EXCEPT ![c] = "connecting"]
          /\ target' = [target EXCEPT ![c] = producer']
          /\ tries' = [tries EXCEPT ![c] = 1]
          /\ UNCHANGED <<isConnected, linked, listening, signals>>
      BY <2>6, BeginType DEF TypeInv
    <3>2. ProducerOK' /\ CloseOK'
      BY <2>0, <2>6, <3>1, Zenon DEF TypeOK, ProducerOK, CloseOK
    <3>3. CallOK'
      BY <2>0, <3>1, ClientAssumption DEF CallOK
    <3>4. TypeOK'
      BY <2>0, <2>6, <3>2, <3>3, UnchangedGroups, TypeGroupsAfter
    <3>5. producer' # 0 /\ created \in Nat /\ closes \in Nat /\ (producer = 0 => closer = 0)
      BY <2>0, <3>1, ClientAssumption DEF TypeOK, Instances
    <3>6. ProducersCounted'
      <4>1. CASE producer = 0
        BY <2>0, <2>6, <3>1, <3>5, <4>1
      <4>2. CASE producer # 0
        BY <2>0, <2>6, <3>1, <3>5, <4>2
      <4> QED
        BY <4>1, <4>2
    <3>7. CallShape'
      BY <2>0, <3>1, <3>5
    <3> QED
      BY <3>4, <3>6, <3>7 DEF TypeInv
  <2>7. ASSUME NEW c \in Callers, GetProducer(c) PROVE TypeInv'
    <3>1. isClosing' = FALSE /\ UNCHANGED <<breakerVars, reconnectVars, closer, closes>>
      BY <2>7 DEF GetProducer
    <3>2. CASE Begin(c)
      BY <2>0, <2>6, <3>1, <3>2, UnchangedGroups DEF Calls
    <3>3. CASE UNCHANGED <<producerVars, callVars>>
      <4>1. CloseOK'
        BY <2>0, <3>1, Zenon DEF TypeOK, CloseOK
      <4>2. TypeOK'
        BY <2>0, <3>1, <3>3, <4>1, UnchangedGroups, TypeGroupsAfter
      <4> QED
        BY <2>0, <3>1, <3>3, <4>2 DEF TypeInv, producerVars, callVars
    <3> QED
      BY <2>7, <3>2, <3>3 DEF GetProducer
  <2>8. ASSUME NEW c \in Reconnectors, ReconnectFires(c) PROVE TypeInv'
    <3>1. UNCHANGED <<breakerVars, closeVars>> /\ CloseOK'
      BY <2>0, <2>8, UnchangedGroups DEF ReconnectFires
    <3>2. ReconnectOK'
      <4>1. reconnect' \in BOOLEAN
        BY <2>8, Zenon DEF ReconnectFires
      <4>2. \/ attempts' = attempts
            \/ attempts < MaxReconnects /\ attempts' = attempts + 1
        BY <2>8 DEF ReconnectFires
      <4>3. attempts \in 0..MaxReconnects /\ MaxReconnects \in Nat
        BY <2>0, ClientAssumption DEF TypeOK
      <4>4. attempts' \in 0..MaxReconnects
        BY <4>2, <4>3
      <4> QED
        BY <4>1, <4>4 DEF ReconnectOK
    <3>3. CASE Begin(c)
      BY <2>6, <3>1, <3>2, <3>3 DEF Calls, closeVars, CloseOK
    <3>4. CASE UNCHANGED <<producerVars, callVars>>
      <4>1. TypeOK'
        BY <2>0, <3>1, <3>2, <3>4, UnchangedGroups, TypeGroupsAfter
      <4> QED
        BY <2>0, <3>1, <3>4, <4>1 DEF TypeInv, producerVars, closeVars, callVars
    <3> QED
      BY <2>8, <3>3, <3>4 DEF ReconnectFires
  <2>9. ASSUME NEW c \in Calls, ConnectSucceeds(c) PROVE TypeInv'
    <3>1. /\ pc[c] = "connecting"
          /\ linked' = linked \cup {target[c]} /\ isConnected' = TRUE
          /\ listening' \in {listening, listening \cup {producer}}
          /\ listening' = IF producer = 0 THEN listening ELSE listening \cup {producer}
          /\ attempts' = 0 /\ BreakerSucceeds /\ End(c)
          /\ UNCHANGED <<producer, created, signals, reconnect, closeVars>>
      BY <2>9 DEF ConnectSucceeds
    <3>2. target[c] \in Instances
      BY <2>0, <3>1
    <3>3. ProducerOK'
      BY <2>0, <3>1, <3>2, Zenon DEF TypeOK, ProducerOK
    <3>4. attempts' \in 0..MaxReconnects
      BY <3>1, ClientAssumption
    <3>5. ReconnectOK'
      BY <2>0, <3>1, <3>4, Zenon DEF TypeOK, ReconnectOK
    <3>6. CallOK'
      BY <2>0, <3>1, EndsOrPauses
    <3>7. BreakerOK' /\ CloseOK'
      BY <2>0, <3>1, BreakerSucceedsType, UnchangedGroups
    <3>8. CallShape'
      BY <2>0, <3>1 DEF End
    <3> QED
      BY <2>0, <3>1, <3>3, <3>5, <3>6, <3>7, <3>8, TypeGroupsAfter DEF TypeInv, closeVars
  <2>10. ASSUME NEW c \in Calls, ConnectFails(c) PROVE TypeInv'
    <3>1. UNCHANGED <<producerVars, closeVars>>
      BY <2>10 DEF ConnectFails, FailedAttempt
    <3>2. BreakerOK'
      BY <2>0, <2>10, BreakerFailsType, UnchangedGroups DEF ConnectFails, FailedAttempt
    <3>3. ReconnectOK'
      BY <2>0, <2>10, ScheduleReconnectType, UnchangedGroups DEF ConnectFails, FailedAttempt
    <3>4. \/ Pause(c) /\ tries[c] < MaxRetries
          \/ End(c)
      BY <2>10 DEF ConnectFails, FailedAttempt
    <3>5. CallOK'
      BY <2>0, <3>4, EndsOrPauses
    <3>6. CallShape'
      BY <2>0, <3>4 DEF End, Pause
    <3>7. TypeOK'
      BY <2>0, <3>1, <3>2, <3>3, <3>5, UnchangedGroups, TypeGroupsAfter
    <3> QED
      BY <2>0, <3>1, <3>6, <3>7 DEF TypeInv, producerVars, closeVars
  <2>11. ASSUME NEW c \in Calls, Retry(c) PROVE TypeInv'
    <3>1. /\ UNCHANGED <<breakerVars, producerVars, reconnectVars, closeVars>>
          /\ pc[c] = "pausing" /\ producer # 0
          /\ pc' = [pc EXCEPT ![c] = "connecting"]
          /\ target' = [target EXCEPT ![c] = producer]
          /\ tries' = [tries EXCEPT ![c] = tries[c] + 1]
      BY <2>11 DEF Retry
    <3>2. tries[c] + 1 \in 0..MaxRetries
      BY <2>0, <3>1, ClientAssumption
    <3>3. CallOK'
      BY <2>0, <3>1, <3>2 DEF CallOK, TypeOK
    <3>4. CallShape'
      BY <2>0, <3>1
    <3>5. TypeOK'
      BY <2>0, <3>1, <3>3, UnchangedGroups, TypeGroupsAfter
    <3> QED
      BY <2>0, <3>1, <3>4, <3>5 DEF TypeInv, producerVars, closeVars
  <2>12. ASSUME NEW c \in Calls, RetryWithoutProducer(c) PROVE TypeInv'
    <3>1. UNCHANGED <<producerVars, reconnectVars, closeVars>>
      BY <2>12 DEF RetryWithoutProducer
    <3>2. BreakerOK'
      BY <2>0, <2>12, BreakerFailsType, UnchangedGroups
         DEF RetryWithoutProducer, breakerVars
    <3>3. \/ /\ tries[c] + 1 < MaxRetries /\ UNCHANGED <<pc, target>>
             /\ tries' = [tries EXCEPT ![c] = tries[c] + 1]
          \/ End(c)
      BY <2>12 DEF RetryWithoutProducer
    <3>4. CallOK' /\ CallShape'
      <4>1. CASE /\ tries[c] + 1 < MaxRetries /\ UNCHANGED <<pc, target>>
                 /\ tries' = [tries EXCEPT ![c] = tries[c] + 1]
        <5>1. tries[c] + 1 \in 0..MaxRetries
          BY <2>0, <4>1, ClientAssumption
        <5> QED
          BY <2>0, <4>1, <5>1 DEF CallOK
      <4>2. CASE End(c)
        BY <2>0, <4>2, EndsOrPauses DEF End
      <4> QED
        BY <3>3, <4>1, <4>2
    <3>5. TypeOK'
      BY <2>0, <3>1, <3>2, <3>4, UnchangedGroups, TypeGroupsAfter
    <3> QED
      BY <2>0, <3>1, <3>4, <3>5 DEF TypeInv, producerVars, closeVars
  <2>13. CASE UNCHANGED vars
    <3>1. UNCHANGED <<breakerVars, producerVars, reconnectVars, closeVars, callVars>>
      BY <2>13 DEF vars
    <3>2. TypeOK'
      BY <2>0, <3>1, UnchangedGroups, TypeGroupsAfter
    <3> QED
      BY <2>0, <3>1, <3>2 DEF TypeInv, producerVars, closeVars, callVars
  <2> QED
    BY <2>1, <2>2, <2>3, <2>4, <2>5, <2>7, <2>8, <2>9, <2>10, <2>11, <2>12, <2>13 DEF Next
<1> QED
  BY <1>1, <1>2, PTL DEF Spec

\* Every variable of the manager stays in its domain: at most one producer is
\* made per close, and no attempt is counted past its limit.
THEOREM TypeCorrect == Spec => []TypeOK
BY TypeInvariant, PTL DEF TypeInv

-----------------------------------------------------------------------------
(* The breaker and the timers *)

\* A closed circuit has fewer failures than the threshold on its count: an
\* invariant of its own.
THEOREM ClosedCircuitBelowThreshold == Spec => []ClosedBelowThreshold
<1>1. Init => ClosedBelowThreshold
  BY ClientAssumption DEF Init, ClosedBelowThreshold
<1>2. TypeInv /\ ClosedBelowThreshold /\ [Next]_vars => ClosedBelowThreshold'
  <2> SUFFICES ASSUME TypeInv, ClosedBelowThreshold, [Next]_vars
               PROVE ClosedBelowThreshold'
    OBVIOUS
  <2>0. failureCount \in Nat /\ 0 < Threshold
    BY ClientAssumption DEF TypeInv, TypeOK
  <2>1. ASSUME UNCHANGED breakerVars PROVE ClosedBelowThreshold'
    BY <2>1 DEF ClosedBelowThreshold, breakerVars
  <2>2. ASSUME BreakerFails PROVE ClosedBelowThreshold'
    <3>1. CASE breaker = "closed" /\ failureCount' < Threshold
      BY <3>1 DEF ClosedBelowThreshold
    <3>2. CASE (breaker = "closed" /\ failureCount' >= Threshold) \/ breaker = "half_open"
      BY <2>2, <3>2 DEF BreakerFails, OpenCircuit, ClosedBelowThreshold
    <3>3. CASE breaker \notin {"closed", "half_open"}
      BY <2>2, <3>3 DEF BreakerFails, ClosedBelowThreshold
    <3>4. failureCount' \in Nat
      BY <2>0, <2>2, ClientAssumption DEF BreakerFails
    <3> QED
      BY <3>1, <3>2, <3>3, <3>4, ClientAssumption
  <2>3. ASSUME failureCount' = 0 PROVE ClosedBelowThreshold'
    BY <2>0, <2>3 DEF ClosedBelowThreshold
  <2>4. ASSUME HalfOpenFires \/ OrphanFires PROVE ClosedBelowThreshold'
    BY <2>4 DEF HalfOpenFires, OrphanFires, ClosedBelowThreshold
  <2>5. ASSUME Close \/ CloseEnds \/ CloseFails PROVE ClosedBelowThreshold'
    <3>1. failureCount' = 0 \/ (breaker' = breaker /\ failureCount' = failureCount)
      BY <2>5 DEF Close, CloseEnds, CloseFails, ResetBreaker, breakerVars
    <3> QED
      BY <2>3, <3>1 DEF ClosedBelowThreshold
  <2>6. ASSUME NEW i \in Instances, LinkLost(i) \/ Disconnected(i)
        PROVE ClosedBelowThreshold'
    BY <2>1, <2>6 DEF LinkLost, Disconnected
  <2>7. ASSUME NEW c \in Calls, \/ GetProducer(c) \/ ReconnectFires(c) \/ Retry(c)
        PROVE ClosedBelowThreshold'
    BY <2>1, <2>7 DEF GetProducer, ReconnectFires, Retry
  <2>8. ASSUME NEW c \in Calls, ConnectSucceeds(c) PROVE ClosedBelowThreshold'
    BY <2>3, <2>8 DEF ConnectSucceeds, BreakerSucceeds
  <2>9. ASSUME NEW c \in Calls, ConnectFails(c) \/ RetryWithoutProducer(c)
        PROVE ClosedBelowThreshold'
    BY <2>1, <2>2, <2>9 DEF ConnectFails, FailedAttempt, RetryWithoutProducer, breakerVars
  <2>10. CASE UNCHANGED vars
    BY <2>1, <2>10 DEF vars
  <2> QED
    BY <2>4, <2>5, <2>6, <2>7, <2>8, <2>9, <2>10 DEF Next, Calls
<1> QED
  BY <1>1, <1>2, TypeInvariant, PTL DEF Spec

\* A manager that is closing, or closed, has no reconnect timer: nothing but
\* getProducer() leaves that state, and what sets the timer looks at it.
THEOREM ClosedManagerPlansNothing == Spec => []ClosedPlansNothing
<1>1. Init => ClosedPlansNothing
  BY DEF Init, ClosedPlansNothing
<1>2. ClosedPlansNothing /\ [Next]_vars => ClosedPlansNothing'
  <2> SUFFICES ASSUME ClosedPlansNothing, [Next]_vars, isClosing' PROVE ~reconnect'
    BY DEF ClosedPlansNothing
  <2>1. ASSUME isClosing' = isClosing, ScheduleReconnect \/ UNCHANGED reconnectVars
        PROVE ~reconnect'
    BY <2>1 DEF ScheduleReconnect, reconnectVars, ClosedPlansNothing
  <2>2. ASSUME HalfOpenFires \/ OrphanFires \/ CloseEnds \/ CloseFails PROVE ~reconnect'
    BY <2>1, <2>2 DEF HalfOpenFires, OrphanFires, CloseEnds, CloseFails, closeVars
  <2>3. ASSUME Close PROVE ~reconnect'
    BY <2>3 DEF Close
  <2>4. ASSUME NEW i \in Instances, LinkLost(i) \/ Disconnected(i) PROVE ~reconnect'
    BY <2>1, <2>4 DEF LinkLost, Disconnected, closeVars
  <2>5. ASSUME NEW c \in Callers, GetProducer(c) PROVE FALSE
    BY <2>5 DEF GetProducer
  <2>6. ASSUME NEW c \in Reconnectors, ReconnectFires(c) PROVE ~reconnect'
    <3>1. isClosing
      BY <2>6 DEF ReconnectFires, closeVars
    <3> QED
      BY <2>6, <3>1 DEF ReconnectFires
  <2>7. ASSUME NEW c \in Calls,
               \/ ConnectSucceeds(c) \/ ConnectFails(c) \/ Retry(c) \/ RetryWithoutProducer(c)
        PROVE ~reconnect'
    <3>1. isClosing' = isClosing
      BY <2>7 DEF ConnectSucceeds, ConnectFails, FailedAttempt, Retry,
                  RetryWithoutProducer, closeVars
    <3>2. \/ ScheduleReconnect \/ UNCHANGED reconnectVars \/ reconnect' = reconnect
      BY <2>7 DEF ConnectSucceeds, ConnectFails, FailedAttempt, Retry, RetryWithoutProducer
    <3> QED
      BY <2>1, <3>1, <3>2 DEF ClosedPlansNothing
  <2>8. CASE UNCHANGED vars
    BY <2>1, <2>8 DEF vars, closeVars
  <2> QED
    BY <2>2, <2>3, <2>4, <2>5, <2>6, <2>7, <2>8 DEF Next
<1> QED
  BY <1>1, <1>2, PTL DEF Spec

-----------------------------------------------------------------------------
(* Until the first closeProducer() *)

\* No timer is orphaned; a half-open timer belongs to an open circuit; and a
\* circuit with a timer, or half open, has its failures on the count.
TimerInv == closes = 0 =>
    /\ orphans = 0
    /\ halfOpen => breaker = "open"
    /\ halfOpen \/ breaker = "half_open" => failureCount >= Threshold

\* Before the first close the manager never is in closeProducer().
LEMMA NotClosing ==
    ASSUME TypeInv, [Next]_vars, closes' = 0
    PROVE closes = 0 /\ closer = 0 /\ ~Close /\ ~CloseEnds /\ ~CloseFails
<1>1. closes \in Nat /\ (closer # 0 => closes > 0)
  BY ClientAssumption DEF TypeInv, TypeOK, ProducersCounted
<1>2. closes' = closes \/ closes' = closes + 1
  BY DEF Next, vars, closeVars, HalfOpenFires, OrphanFires, Close, CloseEnds, CloseFails,
         LinkLost, Disconnected, GetProducer, ReconnectFires, ConnectSucceeds,
         ConnectFails, FailedAttempt, Retry, RetryWithoutProducer
<1>3. closes = 0 /\ closer = 0
  BY <1>1, <1>2
<1>4. ~Close
  BY <1>3 DEF Close
<1> QED
  BY <1>3, <1>4 DEF CloseEnds, CloseFails

LEMMA TimerInvStep ==
    ASSUME TypeInv, TimerInv, [Next]_vars
    PROVE TimerInv'
<1> SUFFICES ASSUME closes' = 0
             PROVE /\ orphans' = 0
                   /\ halfOpen' => breaker' = "open"
                   /\ halfOpen' \/ breaker' = "half_open" => failureCount' >= Threshold
  BY DEF TimerInv
<1>0. /\ orphans = 0 /\ (halfOpen => breaker = "open")
      /\ halfOpen \/ breaker = "half_open" => failureCount >= Threshold
      /\ failureCount \in Nat /\ Threshold \in Nat
      /\ ~Close /\ ~CloseEnds /\ ~CloseFails
  BY NotClosing, ClientAssumption DEF TimerInv, TypeInv, TypeOK
<1> DEFINE Good == /\ orphans' = 0
                   /\ halfOpen' => breaker' = "open"
                   /\ halfOpen' \/ breaker' = "half_open" => failureCount' >= Threshold
<1>1. ASSUME UNCHANGED breakerVars PROVE Good
  BY <1>0, <1>1 DEF breakerVars
<1>2. ASSUME BreakerFails PROVE Good
  <2>1. failureCount' >= failureCount /\ failureCount' \in Nat
    BY <1>0, <1>2, ClientAssumption DEF BreakerFails
  <2>2. CASE breaker = "closed" /\ failureCount' >= Threshold
    BY <1>0, <1>2, <2>1, <2>2 DEF BreakerFails, OpenCircuit
  <2>3. CASE breaker = "half_open"
    BY <1>0, <1>2, <2>1, <2>3 DEF BreakerFails, OpenCircuit
  <2>4. CASE ~(breaker = "closed" /\ failureCount' >= Threshold) /\ breaker # "half_open"
    <3>1. UNCHANGED <<breaker, halfOpen, orphans>>
      BY <1>2, <2>4 DEF BreakerFails
    <3> QED
      BY <1>0, <2>1, <3>1
  <2> QED
    BY <2>2, <2>3, <2>4
<1>3. ASSUME BreakerSucceeds PROVE Good
  BY <1>0, <1>3 DEF BreakerSucceeds
<1>4. ASSUME HalfOpenFires PROVE Good
  BY <1>0, <1>4 DEF HalfOpenFires
<1>5. ASSUME OrphanFires PROVE FALSE
  BY <1>0, <1>5 DEF OrphanFires
<1>6. ASSUME NEW i \in Instances, LinkLost(i) \/ Disconnected(i) PROVE Good
  BY <1>1, <1>6 DEF LinkLost, Disconnected
<1>7. ASSUME NEW c \in Calls, GetProducer(c) \/ ReconnectFires(c) \/ Retry(c)
      PROVE Good
  BY <1>1, <1>7 DEF GetProducer, ReconnectFires, Retry
<1>8. ASSUME NEW c \in Calls, ConnectSucceeds(c) PROVE Good
  BY <1>3, <1>8 DEF ConnectSucceeds
<1>9. ASSUME NEW c \in Calls, ConnectFails(c) \/ RetryWithoutProducer(c) PROVE Good
  BY <1>1, <1>2, <1>9 DEF ConnectFails, FailedAttempt, RetryWithoutProducer, breakerVars
<1>10. CASE UNCHANGED vars
  BY <1>1, <1>10 DEF vars
<1> QED
  BY <1>0, <1>4, <1>5, <1>6, <1>7, <1>8, <1>9, <1>10 DEF Next, Calls

LEMMA TimerInvariant == Spec => []TimerInv
<1>1. Init => TimerInv
  BY DEF Init, TimerInv
<1> QED
  BY <1>1, TimerInvStep, TypeInvariant, PTL DEF Spec

\* Until the first close the half-open timer fires only into an open circuit,
\* and there is only one of it.
THEOREM TimersOnlyWhenOpen == Spec => []TimerOnlyWhenOpen
<1>1. TimerInv => TimerOnlyWhenOpen
  BY DEF TimerInv, TimerOnlyWhenOpen
<1> QED
  BY <1>1, TimerInvariant, PTL

\* Until the first close the circuit opens on Threshold failures, also from
\* HALF_OPEN: the failures of the time it was open are still on the count.
THEOREM OpeningIsEarned == Spec => OpenIsEarned
<1>1. TypeInv /\ TimerInv /\ [Next]_vars =>
        [closes = 0 /\ breaker # "open" /\ breaker' = "open"
            => failureCount' >= Threshold]_vars
  <2> SUFFICES ASSUME TypeInv, TimerInv, [Next]_vars, closes = 0,
                      breaker # "open", breaker' = "open"
               PROVE failureCount' >= Threshold
    OBVIOUS
  <2>0. closer = 0
    BY DEF TypeInv, ProducersCounted
  <2>1. BreakerFails
    BY <2>0 DEF Next, vars, breakerVars, HalfOpenFires, OrphanFires, Close, CloseEnds,
           CloseFails, ResetBreaker, LinkLost, Disconnected, GetProducer, ReconnectFires,
           ConnectSucceeds, BreakerSucceeds, ConnectFails, FailedAttempt, Retry,
           RetryWithoutProducer
  <2>2. failureCount \in Nat /\ Threshold \in Nat /\ failureCount' >= failureCount
        /\ failureCount' \in Nat
    BY <2>1, ClientAssumption DEF TypeInv, TypeOK, BreakerFails
  <2>3. CASE breaker = "half_open"
    BY <2>2, <2>3 DEF TimerInv
  <2>4. CASE breaker # "half_open"
    BY <2>1, <2>4 DEF BreakerFails
  <2> QED
    BY <2>3, <2>4
<1> QED
  BY <1>1, TypeInvariant, TimerInvariant, PTL DEF Spec, OpenIsEarned

\* The present producer is listened to once it has been connected.  Without a
\* connection it is marked connected only while Kafka's word of it is under way;
\* and no longer marked, connected or not (the word may come late), it has a
\* reconnection that goes on or has been given up.
Pursued ==
    \/ isConnected \/ reconnect \/ attempts = MaxReconnects
    \/ \E c \in Reconnectors : pc[c] # "idle"

LinkInv == closes = 0 =>
    /\ ~isClosing
    /\ producer = 0 => listening = {} /\ ~isConnected
    /\ \A c \in Calls : pc[c] = "connecting" => target[c] = producer
    /\ isConnected => producer \in linked \/ signals[producer] > 0
    /\ isConnected => producer \in listening
    /\ producer \in listening => Pursued

\* What plans a reconnection leaves none of the ways out but those of Pursued.
LEMMA Planned ==
    ASSUME TypeOK, ~isClosing, producer # 0, ScheduleReconnect
    PROVE reconnect' \/ attempts' = MaxReconnects
<1>1. attempts \in 0..MaxReconnects /\ MaxReconnects \in Nat
  BY ClientAssumption DEF TypeOK
<1> QED
  BY <1>1 DEF ScheduleReconnect, reconnectVars

LEMMA LinkInvStep ==
    ASSUME TypeInv, LinkInv, [Next]_vars
    PROVE LinkInv'
<1> SUFFICES ASSUME closes' = 0 PROVE LinkInv'
  BY DEF LinkInv
<1>0. /\ ~isClosing
      /\ producer = 0 => listening = {} /\ ~isConnected
      /\ \A c \in Calls : pc[c] = "connecting" => target[c] = producer
      /\ isConnected => producer \in linked \/ signals[producer] > 0
      /\ isConnected => producer \in listening
      /\ producer \in listening => Pursued
      /\ ~Close /\ ~CloseEnds /\ ~CloseFails
  BY NotClosing DEF LinkInv
<1>a. /\ TypeOK /\ Reconnectors \subseteq Calls /\ Callers \cap Reconnectors = {}
      /\ pc \in [Calls -> {"idle", "connecting", "pausing"}]
      /\ target \in [Calls -> Instances \cup {0}]
      /\ signals \in [Instances -> 0..MaxLate]
      /\ producer \in Instances \cup {0} /\ 0 \notin Instances /\ Instances \subseteq Nat
      /\ linked \subseteq Instances /\ listening \subseteq Instances
      /\ \A c \in Calls : pc[c] = "connecting" => target[c] # 0
  BY ClientAssumption DEF TypeInv, TypeOK, CallShape, Instances, Calls
<1>1. ASSUME UNCHANGED <<producerVars, callVars, reconnectVars>>,
             isClosing' = FALSE \/ UNCHANGED closeVars
      PROVE LinkInv'
  BY <1>0, <1>1 DEF producerVars, callVars, reconnectVars, closeVars, LinkInv, Pursued
\* A call that begins: the callers plan nothing, a reconnection is under way.
<1>2. ASSUME NEW c \in Calls, Begin(c), isClosing' = FALSE \/ UNCHANGED closeVars,
             (c \in Callers /\ UNCHANGED reconnectVars) \/ c \in Reconnectors
      PROVE LinkInv'
  <2>1. /\ producer' \in Instances
        /\ producer # 0 => producer' = producer
        /\ pc' = [pc EXCEPT ![c] = "connecting"]
        /\ target' = [target EXCEPT ![c] = producer']
        /\ UNCHANGED <<isConnected, linked, listening, signals>>
    BY <1>2, BeginType
  <2>2. \A d \in Calls : pc[d] = "connecting" => producer # 0
    BY <1>0, <1>a
  <2>3. \A d \in Calls : pc'[d] = "connecting" => target'[d] = producer'
    BY <1>0, <1>a, <2>1, <2>2
  <2>4. /\ producer' # 0 /\ ~isClosing'
        /\ isConnected' => producer' \in linked' \/ signals'[producer'] > 0
        /\ isConnected' => producer' \in listening'
    BY <1>0, <1>a, <1>2, <2>1 DEF closeVars
  <2>5. producer' \in listening' => Pursued'
    <3>1. SUFFICES ASSUME producer' \in listening' PROVE Pursued'
      OBVIOUS
    <3>2. Pursued /\ pc'[c] # "idle"
      BY <1>0, <1>a, <2>1, <3>1
    <3>3. CASE c \in Reconnectors
      BY <3>2, <3>3 DEF Pursued
    <3>4. CASE c \in Callers /\ UNCHANGED reconnectVars
      <4>1. \A d \in Reconnectors : pc'[d] = pc[d]
        BY <1>a, <2>1, <3>4
      <4> QED
        BY <2>1, <3>2, <3>4, <4>1 DEF Pursued, reconnectVars
    <3> QED
      BY <1>2, <3>3, <3>4
  <2> QED
    BY <2>3, <2>4, <2>5 DEF LinkInv
<1>3. ASSUME HalfOpenFires \/ OrphanFires PROVE LinkInv'
  BY <1>1, <1>3 DEF HalfOpenFires, OrphanFires
<1>4. ASSUME NEW i \in Instances, LinkLost(i) PROVE LinkInv'
  <2>1. /\ linked' = linked \ {i} /\ signals' = [signals EXCEPT ![i] = signals[i] + 1]
        /\ UNCHANGED <<producer, isConnected, listening, reconnectVars, closeVars, callVars>>
        /\ signals[i] \in Nat
    BY <1>a, <1>4, ClientAssumption DEF LinkLost
  <2>2. isConnected => producer \in linked' \/ signals'[producer] > 0
    BY <1>0, <1>a, <2>1
  <2>3. Pursued' <=> Pursued
    BY <2>1 DEF Pursued, reconnectVars, callVars
  <2> QED
    BY <1>0, <2>1, <2>2, <2>3 DEF LinkInv, closeVars, callVars
<1>5. ASSUME NEW i \in Instances, Disconnected(i) PROVE LinkInv'
  <2>1. /\ signals' = [signals EXCEPT ![i] = signals[i] - 1] /\ signals[i] > 0
        /\ UNCHANGED <<producer, linked, listening, closeVars, callVars>>
    BY <1>5 DEF Disconnected
  <2>2. CASE i \in listening
    <3>1. isConnected' = FALSE /\ ScheduleReconnect /\ producer # 0
      BY <1>0, <1>5, <2>2 DEF Disconnected
    <3>2. Pursued'
      BY <1>0, <1>a, <3>1, Planned DEF Pursued
    <3> QED
      BY <1>0, <2>1, <3>1, <3>2 DEF LinkInv, closeVars, callVars
  <2>3. CASE i \notin listening
    <3>1. UNCHANGED <<isConnected, reconnectVars>>
      BY <1>5, <2>3 DEF Disconnected
    <3>2. isConnected => signals'[producer] = signals[producer]
      BY <1>0, <1>a, <2>1, <2>3
    <3>3. Pursued' <=> Pursued
      BY <2>1, <3>1 DEF Pursued, reconnectVars, callVars
    <3> QED
      BY <1>0, <2>1, <3>1, <3>2, <3>3 DEF LinkInv, closeVars, callVars
  <2> QED
    BY <2>2, <2>3
<1>6. ASSUME NEW c \in Callers, GetProducer(c) PROVE LinkInv'
  BY <1>1, <1>2, <1>6 DEF GetProducer, Calls
<1>7. ASSUME NEW c \in Reconnectors, ReconnectFires(c) PROVE LinkInv'
  <2>1. CASE Begin(c)
    BY <1>2, <1>7, <2>1 DEF ReconnectFires, Calls
  <2>2. CASE UNCHANGED <<producerVars, callVars>>
    <3>1. UNCHANGED closeVars
      BY <1>7 DEF ReconnectFires
    <3>2. producer = 0 \/ Pursued'
      <4>1. CASE producer = 0 \/ isConnected
        BY <2>2, <4>1 DEF Pursued, producerVars
      <4>2. CASE producer # 0 /\ ~isConnected /\ ~Blocked
        <5>1. Begin(c)
          BY <1>0, <1>7, <4>2 DEF ReconnectFires, Ready
        <5>2. pc[c] = "idle" /\ pc'[c] = "connecting"
          BY <1>a, <1>7, <5>1 DEF ReconnectFires, Begin
        <5> QED
          BY <2>2, <5>2 DEF callVars
      <4>3. CASE producer # 0 /\ ~isConnected /\ Blocked
        <5>1. reconnect' \/ (attempts' = attempts /\ ~(attempts < MaxReconnects))
          BY <1>0, <1>7, <4>3 DEF ReconnectFires, Ready
        <5>2. attempts \in 0..MaxReconnects /\ MaxReconnects \in Nat
          BY <1>a, ClientAssumption DEF TypeOK
        <5> QED
          BY <5>1, <5>2 DEF Pursued
      <4> QED
        BY <4>1, <4>2, <4>3
    <3> QED
      BY <1>0, <2>2, <3>1, <3>2 DEF LinkInv, producerVars, callVars, closeVars
  <2> QED
    BY <1>7, <2>1, <2>2 DEF ReconnectFires
<1>8. ASSUME NEW c \in Calls, ConnectSucceeds(c) PROVE LinkInv'
  <2>1. /\ linked' = linked \cup {target[c]} /\ isConnected' = TRUE
        /\ listening' = IF producer = 0 THEN listening ELSE listening \cup {producer}
        /\ UNCHANGED <<producer, closeVars>>
        /\ target[c] = producer /\ producer # 0
    BY <1>0, <1>a, <1>8 DEF ConnectSucceeds
  <2>2. \A d \in Calls : pc'[d] = "connecting" => target'[d] = producer
    BY <1>0, <1>a, <1>8, EndsOrPauses DEF ConnectSucceeds
  <2> QED
    BY <1>0, <2>1, <2>2 DEF LinkInv, Pursued, closeVars
<1>9. ASSUME NEW c \in Calls, ConnectFails(c) PROVE LinkInv'
  <2>1. UNCHANGED <<producerVars, closeVars>> /\ (End(c) \/ Pause(c))
    BY <1>9 DEF ConnectFails, FailedAttempt
  <2>2. /\ pc'[c] # "connecting"
        /\ \A d \in Calls : d # c => pc'[d] = pc[d] /\ target'[d] = target[d]
    BY <1>a, <2>1, EndsOrPauses
  <2>3. producer # 0 /\ Pursued => Pursued'
    <3>1. CASE c \in Reconnectors /\ pc'[c] = "idle" /\ producer # 0
      <4>1. ScheduleReconnect
        BY <1>a, <1>9, <3>1 DEF ConnectFails, FailedAttempt, Pause
      <4> QED
        BY <1>0, <1>a, <3>1, <4>1, Planned DEF Pursued
    <3>2. CASE c \in Reconnectors /\ pc'[c] # "idle"
      BY <3>2 DEF Pursued
    <3>3. CASE c \notin Reconnectors
      <4>1. UNCHANGED reconnectVars
        BY <1>9, <3>3 DEF ConnectFails, FailedAttempt
      <4>2. \A d \in Reconnectors : pc'[d] = pc[d]
        BY <1>a, <2>2, <3>3
      <4> QED
        BY <2>1, <4>1, <4>2 DEF Pursued, reconnectVars, producerVars
    <3> QED
      BY <3>1, <3>2, <3>3
  <2> QED
    BY <1>0, <1>a, <2>1, <2>2, <2>3 DEF LinkInv, producerVars, closeVars
<1>10. ASSUME NEW c \in Calls, RetryWithoutProducer(c) PROVE LinkInv'
  <2>1. UNCHANGED <<producerVars, closeVars>> /\ producer = 0 /\ pc[c] = "pausing"
    BY <1>10 DEF RetryWithoutProducer
  <2>2. /\ pc'[c] # "connecting"
        /\ \A d \in Calls : d # c => pc'[d] = pc[d] /\ target'[d] = target[d]
    <3>1. CASE UNCHANGED <<pc, target>>
      BY <2>1, <3>1
    <3>2. CASE End(c)
      BY <1>a, <3>2, EndsOrPauses DEF End
    <3> QED
      BY <1>10, <3>1, <3>2 DEF RetryWithoutProducer
  <2> QED
    BY <1>0, <1>a, <2>1, <2>2 DEF LinkInv, producerVars, closeVars
<1>11. ASSUME NEW c \in Calls, Retry(c) PROVE LinkInv'
  <2>1. /\ UNCHANGED <<producerVars, closeVars, reconnectVars>>
        /\ pc' = [pc EXCEPT ![c] = "connecting"] /\ pc[c] # "idle"
        /\ target' = [target EXCEPT ![c] = producer]
    BY <1>11 DEF Retry
  <2>2. Pursued => Pursued'
    BY <1>a, <2>1 DEF Pursued, producerVars, reconnectVars
  <2> QED
    BY <1>0, <1>a, <2>1, <2>2 DEF LinkInv, producerVars, closeVars
<1>12. CASE UNCHANGED vars
  BY <1>1, <1>12 DEF vars
<1> QED
  BY <1>0, <1>3, <1>4, <1>5, <1>6, <1>7, <1>8, <1>9, <1>10, <1>11, <1>12 DEF Next

\* Until the first close, a producer of whose lost connection the manager has
\* been told is not handed out, and the manager goes on to reconnect it until
\* its attempts are used up (LossIsPursued).
THEOREM LostConnectionsArePursued == Spec => []LossIsPursued
<1>1. Init => LinkInv
  BY DEF Init, LinkInv
<1>2. LinkInv /\ TypeInv => LossIsPursued
  <2> SUFFICES ASSUME LinkInv, TypeInv, closes = 0, producer \in listening \ linked,
                      signals[producer] = 0
               PROVE /\ ~Ready
                     /\ \/ reconnect \/ attempts = MaxReconnects
                        \/ \E c \in Reconnectors : pc[c] # "idle"
    BY DEF LossIsPursued
  <2>1. ~isConnected
    BY DEF LinkInv
  <2> QED
    BY <2>1 DEF LinkInv, Pursued, Ready
<1> QED
  BY <1>1, <1>2, LinkInvStep, TypeInvariant, PTL DEF Spec
=============================================================================
