----------------------------- MODULE KafkaClient -----------------------------
(***************************************************************************)
(* KafkaClientManager of packages/events: the one producer of a process,  *)
(* the circuit breaker in front of its connection, the retries of         *)
(* getProducer(), the automatic reconnection and closeProducer().         *)
(*                                                                         *)
(* The manager is shared by everything in the process that publishes.  A  *)
(* step is what runs between two awaits, so concurrent calls meet half-    *)
(* way through a connection.  The breaker is enabled (the default).       *)
(***************************************************************************)
EXTENDS Naturals, FiniteSets

CONSTANTS
    Callers,        \* concurrent callers of getProducer()
    Reconnectors,   \* bound: reconnect callbacks running at the same time
    Threshold,      \* circuitBreaker.threshold
    MaxRetries,     \* kafka.maxRetries: connection attempts of one call
    MaxReconnects,  \* maxReconnectAttempts
    MaxCloses,      \* bound: calls of closeProducer() in one behaviour
    MaxCount,       \* bound: failureCount saturates here, past the threshold
    MaxLate         \* bound: disconnect events on their way, by producer

ASSUME ClientAssumption ==
    /\ Callers \cap Reconnectors = {}
    /\ Threshold \in Nat \ {0}
    /\ MaxRetries \in Nat \ {0}
    /\ MaxReconnects \in Nat
    /\ MaxCloses \in Nat
    /\ MaxCount \in Nat
    /\ MaxLate \in Nat
    /\ Threshold <= MaxCount

Calls == Callers \cup Reconnectors
Instances == 1..(MaxCloses + 1)  \* one per close, and the first

VARIABLES
    breaker,      \* circuitBreakerState
    failureCount, \* circuitBreakerFailureCount
    halfOpen,     \* is the timer in circuitBreakerHalfOpenTimeout pending?
    orphans,      \* half-open timers pending that no variable refers to
    producer,     \* producerInstance; 0 is null
    created,      \* producers made so far
    isConnected,  \* isProducerConnected
    linked,       \* producers that have a connection to Kafka
    listening,    \* producers whose disconnect event is listened to
    signals,      \* disconnect events on their way, by producer
    reconnect,    \* is the timer in reconnectTimeout pending?
    attempts,     \* reconnectAttempts
    isClosing,
    closer,       \* 0, or the producer closeProducer() is disconnecting
    closes,       \* calls of closeProducer() so far
    pc,           \* getProducer(), by call
    target,       \* the producer a call is connecting; 0 when it is not
    tries         \* connection attempts a call under way has begun

breakerVars == <<breaker, failureCount, halfOpen, orphans>>
producerVars == <<producer, created, isConnected, linked, listening, signals>>
reconnectVars == <<reconnect, attempts>>
closeVars == <<isClosing, closer, closes>>
callVars == <<pc, target, tries>>
vars == <<breakerVars, producerVars, reconnectVars, closeVars, callVars>>

TypeOK ==
    /\ breaker \in {"closed", "open", "half_open"}
    /\ failureCount \in 0..MaxCount
    /\ halfOpen \in BOOLEAN
    /\ orphans \in Nat
    /\ producer \in Instances \cup {0}
    /\ created \in Instances \cup {0}
    /\ isConnected \in BOOLEAN
    /\ linked \subseteq Instances
    /\ listening \subseteq Instances
    /\ signals \in [Instances -> 0..MaxLate]
    /\ reconnect \in BOOLEAN
    /\ attempts \in 0..MaxReconnects
    /\ isClosing \in BOOLEAN
    /\ closer \in Instances \cup {0}
    /\ closes \in 0..MaxCloses
    /\ pc \in [Calls -> {"idle", "connecting", "pausing"}]
    /\ target \in [Calls -> Instances \cup {0}]
    /\ tries \in [Calls -> 0..MaxRetries]

Init ==
    /\ breaker = "closed" /\ failureCount = 0 /\ halfOpen = FALSE /\ orphans = 0
    /\ producer = 0 /\ created = 0 /\ isConnected = FALSE
    /\ linked = {} /\ listening = {} /\ signals = [i \in Instances |-> 0]
    /\ reconnect = FALSE /\ attempts = 0
    /\ isClosing = FALSE /\ closer = 0 /\ closes = 0
    /\ pc = [c \in Calls |-> "idle"]
    /\ target = [c \in Calls |-> 0]
    /\ tries = [c \in Calls |-> 0]

-----------------------------------------------------------------------------
(* The circuit breaker *)

\* Mutant of BreakerSucceeds: a success leaves the count.
SuccessKeepsCount ==
    /\ breaker' = IF breaker = "half_open" THEN "closed" ELSE breaker
    /\ halfOpen' = FALSE
    /\ UNCHANGED <<failureCount, orphans>>

BreakerSucceeds ==
    /\ breaker' = IF breaker = "half_open" THEN "closed" ELSE breaker
    /\ failureCount' = 0
    /\ halfOpen' = FALSE
    /\ UNCHANGED orphans

\* The circuit opens; the timer it sets replaces the reference to another.
OpenCircuit ==
    /\ breaker' = "open"
    /\ halfOpen' = TRUE
    /\ orphans' = orphans + (IF halfOpen THEN 1 ELSE 0)

\* Mutants of BreakerFails: it opens one failure early; it opens again while
\* open.
OpensEarly ==
    /\ failureCount' = IF failureCount < MaxCount THEN failureCount + 1 ELSE failureCount
    /\ IF \/ breaker = "closed" /\ failureCount' + 1 >= Threshold
          \/ breaker = "half_open"
       THEN OpenCircuit
       ELSE UNCHANGED <<breaker, halfOpen, orphans>>
OpensAgain ==
    /\ failureCount' = IF failureCount < MaxCount THEN failureCount + 1 ELSE failureCount
    /\ IF failureCount' >= Threshold \/ breaker = "half_open"
       THEN OpenCircuit
       ELSE UNCHANGED <<breaker, halfOpen, orphans>>

BreakerFails ==
    /\ failureCount' = IF failureCount < MaxCount THEN failureCount + 1 ELSE failureCount
    /\ IF \/ breaker = "closed" /\ failureCount' >= Threshold
          \/ breaker = "half_open"
       THEN OpenCircuit
       ELSE UNCHANGED <<breaker, halfOpen, orphans>>

HalfOpenFires ==
    /\ halfOpen
    /\ breaker' = "half_open"
    /\ halfOpen' = FALSE
    /\ UNCHANGED <<failureCount, orphans, producerVars, reconnectVars,
                   closeVars, callVars>>

\* A timer without a reference fires, and clears the reference to another.
OrphanFires ==
    /\ orphans > 0
    /\ breaker' = "half_open"
    /\ halfOpen' = FALSE
    /\ orphans' = IF halfOpen THEN orphans ELSE orphans - 1
    /\ UNCHANGED <<failureCount, producerVars, reconnectVars, closeVars, callVars>>

-----------------------------------------------------------------------------
(* Reconnection *)

\* Mutant of ScheduleReconnect: isClosing is not looked at.
ScheduleAnyway ==
    IF producer # 0 /\ ~reconnect /\ attempts < MaxReconnects
    THEN reconnect' = TRUE /\ attempts' = attempts + 1
    ELSE UNCHANGED reconnectVars

ScheduleReconnect ==
    IF ~isClosing /\ producer # 0 /\ ~reconnect /\ attempts < MaxReconnects
    THEN reconnect' = TRUE /\ attempts' = attempts + 1
    ELSE UNCHANGED reconnectVars

\* Kafka drops the connection of producer i.  What kafkajs has to tell of it
\* comes later, and other steps before it.
LinkLost(i) ==
    /\ i \in linked /\ signals[i] < MaxLate
    /\ linked' = linked \ {i}
    /\ signals' = [signals EXCEPT ![i] = @ + 1]
    /\ UNCHANGED <<breakerVars, producer, created, isConnected, listening,
                   reconnectVars, closeVars, callVars>>

\* The disconnect event of producer i runs, whatever has become of it since.
\* More listeners (one per successful connect) would change nothing more.
Disconnected(i) ==
    /\ signals[i] > 0
    /\ signals' = [signals EXCEPT ![i] = @ - 1]
    /\ IF i \in listening /\ ~isClosing
       THEN isConnected' = FALSE /\ ScheduleReconnect
       ELSE UNCHANGED <<isConnected, reconnectVars>>
    /\ UNCHANGED <<breakerVars, producer, created, linked, listening, closeVars, callVars>>

-----------------------------------------------------------------------------
(* getProducer() *)

Blocked == breaker = "open"
Ready == producer # 0 /\ isConnected

Begin(c) ==
    LET made == IF producer = 0 THEN created + 1 ELSE created
        p == IF producer = 0 THEN made ELSE producer
    IN
    /\ created' = made
    /\ producer' = p
    /\ pc' = [pc EXCEPT ![c] = "connecting"]
    /\ target' = [target EXCEPT ![c] = p]
    /\ tries' = [tries EXCEPT ![c] = 1]
    /\ UNCHANGED <<isConnected, linked, listening, signals>>

\* The call is over, its variables with it.
End(c) ==
    /\ pc' = [pc EXCEPT ![c] = "idle"]
    /\ target' = [target EXCEPT ![c] = 0]
    /\ tries' = [tries EXCEPT ![c] = 0]

\* It pauses before its next attempt.
Pause(c) ==
    /\ pc' = [pc EXCEPT ![c] = "pausing"]
    /\ target' = [target EXCEPT ![c] = 0]
    /\ UNCHANGED tries

\* It rejects while the circuit is open, answers at once with a connected
\* producer, and connects otherwise.  isClosing is cleared in any case.
GetProducer(c) ==
    /\ pc[c] = "idle"
    /\ isClosing' = FALSE
    /\ IF Blocked \/ Ready THEN UNCHANGED <<producerVars, callVars>> ELSE Begin(c)
    /\ UNCHANGED <<breakerVars, reconnectVars, closer, closes>>

\* connect() resolves, for the producer it was called on; the flags and the
\* listeners are those of the present producer.
ConnectSucceeds(c) ==
    /\ pc[c] = "connecting"
    /\ linked' = linked \cup {target[c]}
    /\ isConnected' = TRUE
    /\ listening' = IF producer = 0 THEN listening ELSE listening \cup {producer}
    /\ attempts' = 0
    /\ BreakerSucceeds
    /\ End(c)
    /\ UNCHANGED <<producer, created, signals, reconnect, closeVars>>

\* Mutant of FailedAttempt: a reconnection that failed is not planned again.
FailedAttemptForgotten(c) ==
    /\ IF tries[c] < MaxRetries
       THEN Pause(c) /\ UNCHANGED breakerVars
       ELSE End(c) /\ BreakerFails
    /\ UNCHANGED <<reconnectVars, closeVars>>

\* An attempt fails: another one after a pause, or the call rejects; the
\* callback of a reconnection then schedules the next.
FailedAttempt(c) ==
    /\ IF tries[c] < MaxRetries
       THEN Pause(c) /\ UNCHANGED <<breakerVars, reconnectVars>>
       ELSE /\ End(c)
            /\ BreakerFails
            /\ IF c \in Reconnectors THEN ScheduleReconnect ELSE UNCHANGED reconnectVars
    /\ UNCHANGED closeVars

ConnectFails(c) ==
    /\ pc[c] = "connecting"
    /\ FailedAttempt(c)
    /\ UNCHANGED producerVars

\* Mutant of Retry: the attempts are not counted.
RetryUncounted(c) ==
    /\ pc[c] = "pausing"
    /\ producer # 0
    /\ pc' = [pc EXCEPT ![c] = "connecting"]
    /\ target' = [target EXCEPT ![c] = producer]
    /\ UNCHANGED <<tries, breakerVars, producerVars, reconnectVars, closeVars>>

\* The pause ends; the attempt is made on the present producer.
Retry(c) ==
    /\ pc[c] = "pausing"
    /\ producer # 0
    /\ pc' = [pc EXCEPT ![c] = "connecting"]
    /\ target' = [target EXCEPT ![c] = producer]
    /\ tries' = [tries EXCEPT ![c] = @ + 1]
    /\ UNCHANGED <<breakerVars, producerVars, reconnectVars, closeVars>>

\* There is none any more: each remaining attempt fails, one pause after the
\* other.
RetryWithoutProducer(c) ==
    /\ pc[c] = "pausing"
    /\ producer = 0
    /\ IF tries[c] + 1 < MaxRetries
       THEN /\ tries' = [tries EXCEPT ![c] = @ + 1]
            /\ UNCHANGED <<pc, target, breakerVars>>
       ELSE End(c) /\ BreakerFails
    /\ UNCHANGED <<producerVars, reconnectVars, closeVars>>

\* The reconnect timer fires: nothing on a closed manager, else getProducer().
ReconnectFires(c) ==
    /\ reconnect
    /\ pc[c] = "idle"
    /\ IF isClosing \/ producer = 0 \/ (Ready /\ ~Blocked)
       THEN reconnect' = FALSE /\ UNCHANGED <<attempts, producerVars, callVars>>
       ELSE IF Blocked
       THEN /\ IF attempts < MaxReconnects
               THEN reconnect' = TRUE /\ attempts' = attempts + 1
               ELSE reconnect' = FALSE /\ UNCHANGED attempts
            /\ UNCHANGED <<producerVars, callVars>>
       ELSE /\ reconnect' = FALSE
            /\ UNCHANGED attempts
            /\ Begin(c)
    /\ UNCHANGED <<breakerVars, closeVars>>

-----------------------------------------------------------------------------
(* closeProducer() *)

ResetBreaker == breaker' = "closed" /\ failureCount' = 0

\* The timers are cleared; a connected producer is disconnected first.
Close ==
    /\ closer = 0
    /\ closes < MaxCloses
    /\ closes' = closes + 1
    /\ isClosing' = TRUE
    /\ reconnect' = FALSE
    /\ halfOpen' = FALSE
    /\ IF Ready
       THEN /\ closer' = producer
            /\ UNCHANGED <<breaker, failureCount, producer>>
       ELSE /\ ResetBreaker
            /\ producer' = 0
            /\ UNCHANGED closer
    /\ UNCHANGED <<orphans, created, isConnected, linked, listening, signals, attempts,
                   callVars>>

\* disconnect() resolves; its event is for a manager that is closing, unless a
\* getProducer() has cleared isClosing.
CloseEnds ==
    /\ closer # 0
    /\ linked' = linked \ {closer}
    /\ IF closer \in listening THEN ScheduleReconnect ELSE UNCHANGED reconnectVars
    /\ isConnected' = FALSE
    /\ producer' = 0
    /\ ResetBreaker
    /\ closer' = 0
    /\ UNCHANGED <<halfOpen, orphans, created, listening, signals, isClosing, closes,
                   callVars>>

\* disconnect() rejects, and so does closeProducer().
CloseFails ==
    /\ closer # 0
    /\ closer' = 0
    /\ UNCHANGED <<breakerVars, producerVars, reconnectVars, isClosing, closes, callVars>>

-----------------------------------------------------------------------------

Next ==
    \/ HalfOpenFires \/ OrphanFires
    \/ Close \/ CloseEnds \/ CloseFails
    \/ \E i \in Instances : LinkLost(i) \/ Disconnected(i)
    \/ \E c \in Callers : GetProducer(c)
    \/ \E c \in Reconnectors : ReconnectFires(c)
    \/ \E c \in Calls : \/ ConnectSucceeds(c) \/ ConnectFails(c)
                        \/ Retry(c) \/ RetryWithoutProducer(c)

\* Timers fire, and kafkajs answers: it has connection and request timeouts.
Fairness ==
    /\ WF_vars(HalfOpenFires) /\ WF_vars(OrphanFires)
    /\ WF_vars(CloseEnds \/ CloseFails)
    /\ \A c \in Reconnectors : WF_vars(ReconnectFires(c))
    /\ \A c \in Calls :
          /\ WF_vars(ConnectSucceeds(c) \/ ConnectFails(c))
          /\ WF_vars(Retry(c) \/ RetryWithoutProducer(c))

Spec == Init /\ [][Next]_vars /\ Fairness

-----------------------------------------------------------------------------
(* What must hold.  The type invariant is TypeOK, above. *)

\* The circuit is never closed with Threshold failures on the count: every way
\* back to CLOSED resets it, however calls that fail while the circuit is open
\* or half open raise it (handleCircuitBreakerSuccess and Failure, 123-178).
ClosedBelowThreshold == breaker = "closed" => failureCount < Threshold

\* Until the first closeProducer() at most one half-open timer is pending, and
\* only while the circuit is open: it never fires into a closed or half-open
\* one (lines 134-137 and 153-176).
TimerOnlyWhenOpen == closes = 0 =>
    /\ halfOpen \/ orphans > 0 => breaker = "open"
    /\ orphans + (IF halfOpen THEN 1 ELSE 0) <= 1

\* "Circuit is open after threshold failures" (packages/events/README.md:609):
\* until the first closeProducer() the circuit opens, also from HALF_OPEN, on
\* no fewer than Threshold failures since the last success.
OpenIsEarned ==
    [][closes = 0 /\ breaker # "open" /\ breaker' = "open"
            => failureCount' >= Threshold]_vars

\* Until the first closeProducer(), once Kafka has told of every connection it
\* dropped, a producer that has none is not handed out, and a reconnection of
\* it is planned, under way, or given up after MaxReconnects in a row: however
\* late events, calls, the breaker and failing reconnections meet (268-270,
\* 345-353, 359-394).
LossIsPursued ==
    closes = 0 /\ producer \in listening \ linked /\ signals[producer] = 0 =>
        /\ ~Ready
        /\ \/ reconnect \/ attempts = MaxReconnects
           \/ \E c \in Reconnectors : pc[c] # "idle"

\* Once closed, the manager plans no reconnection until somebody asks for a
\* producer again, whatever fails or disconnects in the meantime.
ClosedPlansNothing == isClosing => ~reconnect

\* Every call of getProducer() is answered after at most MaxRetries attempts.
CallsEnd == \A c \in Calls : pc[c] # "idle" ~> pc[c] = "idle"

-----------------------------------------------------------------------------
(* What the code says of itself, and does not hold *)

\* "Time in ms before attempting to close circuit" (packages/events/README.md:
\* 292): an open circuit is tried again.  A connection that succeeds while the
\* circuit is open, because a second caller had begun it, clears the timer.
OpenIsTested == breaker = "open" ~> breaker # "open"
=============================================================================
