------------------------ MODULE MessageHandlerProofs ------------------------
(***************************************************************************)
(* Theorems about MessageHandler, for any events, handlers, retry limits   *)
(* and numbers of faults and crashes.                                      *)
(***************************************************************************)
EXTENDS MessageHandler, FiniteSetTheorems, TLAPS

\* In the middle of eachMessage there is a message at the position.
InCallback == pc \in {"handling", "republishing", "parking"} => position <= Len(log)

TypeInv == TypeOK /\ InCallback

-----------------------------------------------------------------------------

\* The log holds messages.
LEMMA LogMessages ==
    ASSUME TypeOK
    PROVE /\ Len(log) \in Nat
          /\ \A i \in 1..Len(log) :
                log[i] \in Message /\ log[i].event \in Events /\ log[i].retry \in Nat
<1>1. Len(log) \in Nat /\ \A i \in 1..Len(log) : log[i] \in Message
  BY DEF TypeOK
<1> QED
  BY <1>1 DEF Message

\* A message at the end of the log: the ones before it keep their offsets.
LEMMA AppendedMessage ==
    ASSUME TypeOK, NEW m \in Message
    PROVE /\ Append(log, m) \in Seq(Message)
          /\ Len(Append(log, m)) = Len(log) + 1
          /\ Append(log, m)[Len(log) + 1] = m
          /\ \A i \in 1..Len(log) : Append(log, m)[i] = log[i]
BY DEF TypeOK

\* What each step does to the log and the offsets.
LEMMA LogGrows ==
    ASSUME TypeInv, [Next]_vars
    PROVE /\ \/ log' = log
             \/ \E e \in Events : log' = Append(log, [event |-> e, retry |-> 0])
             \/ pc = "republishing" /\ log' = Append(log, Retried)
          /\ Retried \in Message \/ pc # "republishing"
          /\ \A e \in Events : [event |-> e, retry |-> 0] \in Message
<1>1. \/ log' = log
      \/ \E e \in Events : log' = Append(log, [event |-> e, retry |-> 0])
      \/ pc = "republishing" /\ log' = Append(log, Retried)
  BY DEF Next, vars, Publish, Commit, Redeliver, Crash, Callback, SkipEmpty,
         RejectMalformed, Handle, HandlerSucceeds, HandlerFails, RepublishSucceeds,
         RepublishFails, ParkSucceeds, ParkFails
<1>2. ASSUME pc = "republishing" PROVE Retried \in Message
  <2>1. Current \in Message
    BY <1>2 DEF TypeInv, TypeOK, InCallback, Current
  <2> QED
    BY <2>1 DEF Retried, Message
<1>3. \A e \in Events : [event |-> e, retry |-> 0] \in Message
  BY DEF Message
<1> QED
  BY <1>1, <1>2, <1>3

LEMMA TypeStep == ASSUME TypeInv, [Next]_vars PROVE TypeInv'
<1>0. TypeOK /\ InCallback
  BY DEF TypeInv
<1>1. log' \in Seq(Message) /\ (Len(log') = Len(log) \/ Len(log') = Len(log) + 1)
  BY LogGrows, AppendedMessage DEF TypeInv, TypeOK
<1>2. Len(log) \in Nat /\ Len(log') \in Nat /\ position \in Nat /\ committed \in Nat
      /\ 1 <= committed /\ committed <= position /\ position <= Len(log) + 1
  BY <1>1 DEF TypeInv, TypeOK
<1>3. /\ \/ position' = position /\ committed' \in {committed, position}
         \/ position' = committed /\ committed' = committed
         \/ position' = position + 1 /\ committed' = committed /\ position <= Len(log)
      /\ pc' \in {"handling", "republishing", "parking"} =>
            position <= Len(log) /\ position' = position
  <2> DEFINE Good == /\ \/ position' = position /\ committed' \in {committed, position}
                        \/ position' = committed /\ committed' = committed
                        \/ position' = position + 1 /\ committed' = committed
                           /\ position <= Len(log)
                     /\ pc' \in {"handling", "republishing", "parking"} =>
                           position <= Len(log) /\ position' = position
  <2>1. ASSUME UNCHANGED consumer PROVE Good
    BY <1>0, <2>1 DEF consumer, InCallback
  <2>2. ASSUME Commit \/ Redeliver \/ Crash PROVE Good
    BY <1>0, <2>2 DEF Commit, Redeliver, Crash, InCallback
  <2>3. ASSUME SkipEmpty \/ RejectMalformed \/ Handle PROVE Good
    BY <2>3 DEF SkipEmpty, RejectMalformed, Handle, Fetched, Resolve
  <2>4. ASSUME HandlerSucceeds \/ HandlerFails PROVE Good
    BY <1>0, <2>4 DEF HandlerSucceeds, HandlerFails, AfterFailure, Resolve, InCallback
  <2>5. ASSUME RepublishSucceeds \/ RepublishFails PROVE Good
    BY <1>0, <2>5 DEF RepublishSucceeds, RepublishFails, Resolve, InCallback
  <2>6. ASSUME ParkSucceeds \/ ParkFails PROVE Good
    BY <1>0, <2>6 DEF ParkSucceeds, ParkFails, Resolve, InCallback
  <2> QED
    BY <2>1, <2>2, <2>3, <2>4, <2>5, <2>6 DEF Next, Callback, Publish, vars
<1>4. position' \in 1..(Len(log') + 1) /\ committed' \in 1..position' /\ InCallback'
  BY <1>1, <1>2, <1>3 DEF InCallback
<1>5. pc' \in {"fetch", "handling", "republishing", "parking", "rejected"}
  BY <1>0 DEF Next, vars, consumer, Publish, Commit, Redeliver, Crash, Callback, SkipEmpty,
         RejectMalformed, Handle, HandlerSucceeds, HandlerFails, AfterFailure, Resolve,
         RepublishSucceeds, RepublishFails, ParkSucceeds, ParkFails, TypeOK
<1>6. position <= Len(log) => Current.event \in Events
  <2>1. position <= Len(log) => log[position] \in Message
    BY <1>0, <1>2 DEF TypeOK
  <2> QED
    BY <2>1 DEF Current, Message
<1>7. handled' \subseteq Events /\ deadLettered' \subseteq Events
  <2>1. /\ \/ handled' = handled
           \/ pc = "handling" /\ handled' = handled \cup {Current.event}
        /\ \/ deadLettered' = deadLettered
           \/ pc = "parking" /\ deadLettered' = deadLettered \cup {Current.event}
    BY DEF Next, vars, outcome, Publish, Commit, Redeliver, Crash, Callback,
           SkipEmpty, RejectMalformed, Handle, HandlerSucceeds, HandlerFails,
           RepublishSucceeds, RepublishFails, ParkSucceeds, ParkFails
  <2> QED
    BY <1>0, <1>6, <2>1 DEF InCallback, TypeOK
<1>8. failed' \in [Events -> Nat] /\ lostSends' \in [Events -> Nat]
  <2>1. /\ failed' = failed \/ failed' = [failed EXCEPT ![Current.event] = @ + 1]
        /\ lostSends' = lostSends \/ lostSends' = [lostSends EXCEPT ![Current.event] = @ + 1]
    BY DEF Next, vars, outcome, Publish, Commit, Redeliver, Crash, Callback,
           SkipEmpty, RejectMalformed, Handle, HandlerSucceeds, HandlerFails,
           RepublishSucceeds, RepublishFails, ParkSucceeds, ParkFails
  <2>2. /\ \A e \in Events : failed[e] + 1 \in Nat /\ lostSends[e] + 1 \in Nat
        /\ failed \in [Events -> Nat] /\ lostSends \in [Events -> Nat]
    BY DEF TypeInv, TypeOK
  <2> QED
    BY <2>1, <2>2
<1>9. faults' \in 0..MaxFaults /\ crashes' \in 0..MaxCrashes
  <2>1. /\ faults' = faults \/ (faults < MaxFaults /\ faults' = faults + 1)
        /\ crashes' = crashes \/ (crashes < MaxCrashes /\ crashes' = crashes + 1)
    BY DEF Next, vars, bounds, Fault, Publish, Commit, Redeliver, Crash, Callback,
           SkipEmpty, RejectMalformed, Handle, HandlerSucceeds, HandlerFails,
           RepublishSucceeds, RepublishFails, ParkSucceeds, ParkFails
  <2> QED
    BY <2>1, HandlerAssumption DEF TypeInv, TypeOK
<1> QED
  BY <1>1, <1>4, <1>5, <1>7, <1>8, <1>9 DEF TypeInv, TypeOK

LEMMA TypeInvariant == Spec => []TypeInv
<1>1. Init => TypeInv
  <2> SUFFICES ASSUME Init PROVE TypeInv
    OBVIOUS
  <2>1. log \in Seq(Message) /\ position \in 1..(Len(log) + 1) /\ committed \in 1..position
    BY DEF Init
  <2> QED
    BY <2>1, HandlerAssumption DEF Init, TypeInv, TypeOK, InCallback
<1>2. TypeInv /\ [Next]_vars => TypeInv'
  BY TypeStep
<1> QED
  BY <1>1, <1>2, PTL DEF Spec

\* The offsets, the log and the histories stay in their domains.
THEOREM TypeCorrect == Spec => []TypeOK
BY TypeInvariant, PTL DEF TypeInv

\* The log only grows, and what is settled stays so.
LEMMA StepGrows ==
    ASSUME TypeInv, [Next]_vars
    PROVE /\ Len(log') >= Len(log) /\ Len(log) \in Nat /\ Len(log') \in Nat
          /\ \A i \in 1..Len(log) : log'[i] = log[i]
          /\ handled \subseteq handled' /\ deadLettered \subseteq deadLettered'
<1>1. /\ Len(log') >= Len(log) /\ \A i \in 1..Len(log) : log'[i] = log[i]
      /\ Len(log) \in Nat /\ Len(log') \in Nat
  <2>1. TypeOK /\ Len(log) \in Nat
    BY DEF TypeInv, TypeOK
  <2>2. CASE log' = log
    BY <2>1, <2>2
  <2>3. ASSUME NEW m \in Message, log' = Append(log, m)
        PROVE /\ Len(log') = Len(log) + 1
              /\ \A i \in 1..Len(log) : log'[i] = log[i]
    BY <2>1, <2>3, AppendedMessage
  <2>4. log' = log \/ \E m \in Message : log' = Append(log, m)
    BY LogGrows
  <2> QED
    BY <2>1, <2>2, <2>3, <2>4
<1>2. handled \subseteq handled' /\ deadLettered \subseteq deadLettered'
  BY DEF Next, vars, outcome, Publish, Commit, Redeliver, Crash, Callback,
         SkipEmpty, RejectMalformed, Handle, HandlerSucceeds, HandlerFails,
         RepublishSucceeds, RepublishFails, ParkSucceeds, ParkFails
<1> QED
  BY <1>1, <1>2

-----------------------------------------------------------------------------
(* Retry counts *)

\* A message with retry count k has failed k times, the one about to be
\* republished once more; and the limit holds for it.
RetryInv ==
    /\ \A i \in 1..Len(log) :
          log[i].retry <= MaxRetries /\ log[i].retry <= failed[log[i].event]
    /\ pc = "republishing" =>
          Current.retry < MaxRetries /\ Current.retry < failed[Current.event]
    /\ pc = "parking" =>
          failed[Current.event] > MaxRetries \/ lostSends[Current.event] > 0

\* Histories only grow.
LEMMA HistoriesGrow ==
    ASSUME TypeInv, [Next]_vars
    PROVE \A e \in Events : /\ failed[e] \in Nat /\ failed'[e] \in Nat
                            /\ failed'[e] >= failed[e]
                            /\ lostSends[e] \in Nat /\ lostSends'[e] \in Nat
                            /\ lostSends'[e] >= lostSends[e]
<1>1. /\ failed' = failed \/ failed' = [failed EXCEPT ![Current.event] = @ + 1]
      /\ lostSends' = lostSends \/ lostSends' = [lostSends EXCEPT ![Current.event] = @ + 1]
  BY DEF Next, vars, outcome, Publish, Commit, Redeliver, Crash, Callback,
         SkipEmpty, RejectMalformed, Handle, HandlerSucceeds, HandlerFails,
         RepublishSucceeds, RepublishFails, ParkSucceeds, ParkFails
<1>2. failed \in [Events -> Nat] /\ lostSends \in [Events -> Nat]
  BY DEF TypeInv, TypeOK
<1> QED
  BY <1>1, <1>2

\* The messages of the log keep to the limit and to their histories.
LEMMA RetryInvLog ==
    ASSUME TypeInv, RetryInv, [Next]_vars
    PROVE \A i \in 1..Len(log') :
              log'[i].retry <= MaxRetries /\ log'[i].retry <= failed'[log'[i].event]
<1>0. /\ TypeOK /\ Len(log) \in Nat /\ MaxRetries \in Nat
      /\ \A i \in 1..Len(log) :
            log[i].event \in Events /\ log[i].retry \in Nat
  BY HandlerAssumption, LogMessages DEF TypeInv
<1>1. \A i \in 1..Len(log) :
          log[i].retry <= MaxRetries /\ log[i].retry <= failed'[log[i].event]
  BY <1>0, HistoriesGrow DEF RetryInv
<1>2. CASE log' = log
  BY <1>1, <1>2
<1>3. ASSUME NEW m \in Message, log' = Append(log, m), m.retry <= MaxRetries,
             m.retry <= failed'[m.event]
      PROVE \A i \in 1..Len(log') :
                log'[i].retry <= MaxRetries /\ log'[i].retry <= failed'[log'[i].event]
  <2> SUFFICES ASSUME NEW i \in 1..Len(log')
               PROVE log'[i].retry <= MaxRetries /\ log'[i].retry <= failed'[log'[i].event]
    OBVIOUS
  <2>1. i \in 1..Len(log) \/ i = Len(log) + 1
    BY <1>0, <1>3, AppendedMessage
  <2>2. CASE i \in 1..Len(log)
    BY <1>0, <1>1, <1>3, <2>2, AppendedMessage
  <2>3. CASE i = Len(log) + 1
    BY <1>0, <1>3, <2>3, AppendedMessage
  <2> QED
    BY <2>1, <2>2, <2>3
<1>4. ASSUME NEW e \in Events, log' = Append(log, [event |-> e, retry |-> 0])
      PROVE \A i \in 1..Len(log') :
                log'[i].retry <= MaxRetries /\ log'[i].retry <= failed'[log'[i].event]
  <2> DEFINE m == [event |-> e, retry |-> 0]
  <2>1. m \in Message /\ m.retry <= MaxRetries /\ m.retry <= failed'[m.event]
    BY <1>0, HistoriesGrow DEF Message
  <2> QED
    BY <1>3, <1>4, <2>1
<1>5. ASSUME pc = "republishing", log' = Append(log, Retried)
      PROVE \A i \in 1..Len(log') :
                log'[i].retry <= MaxRetries /\ log'[i].retry <= failed'[log'[i].event]
  <2>1. log[position] \in Message
    BY <1>0, <1>5 DEF TypeInv, TypeOK, InCallback
  <2>2. /\ Retried \in Message
        /\ Retried.event = Current.event /\ Retried.retry = Current.retry + 1
        /\ Current.event \in Events /\ Current.retry \in Nat
    BY <2>1 DEF Retried, Current, Message
  <2>3. Retried.retry <= MaxRetries /\ Retried.retry <= failed'[Retried.event]
    BY <1>0, <1>5, <2>2, HistoriesGrow DEF RetryInv
  <2> QED
    BY <1>3, <1>5, <2>2, <2>3
<1> QED
  BY <1>2, <1>4, <1>5, LogGrows

LEMMA RetryInvStep ==
    ASSUME TypeInv, RetryInv, [Next]_vars
    PROVE RetryInv'
<1> DEFINE Good ==
        /\ pc' = "republishing" =>
              Current'.retry < MaxRetries /\ Current'.retry < failed'[Current'.event]
        /\ pc' = "parking" =>
              failed'[Current'.event] > MaxRetries \/ lostSends'[Current'.event] > 0
<1>0. ASSUME pc' \in {"fetch", "handling", "rejected"} PROVE Good
  BY <1>0
<1>1. ASSUME pc \in {"handling", "republishing", "parking"}, position' = position
      PROVE /\ Current' = Current /\ Current.event \in Events /\ Current.retry \in Nat
  <2>1. position \in 1..Len(log) /\ log[position] \in Message
    BY <1>1 DEF TypeInv, TypeOK, InCallback
  <2> QED
    BY <1>1, <2>1, StepGrows DEF Current, Message
<1>2. ASSUME NEW e \in Events, Publish(e) PROVE Good
  <2>1. UNCHANGED <<pc, position, failed, lostSends>>
    BY <1>2 DEF Publish, consumer, outcome
  <2> QED
    BY <1>1, <2>1 DEF RetryInv
<1>3. ASSUME Commit \/ UNCHANGED vars PROVE Good
  <2>1. UNCHANGED <<pc, position, failed, lostSends>>
    BY <1>3 DEF Commit, vars, consumer, outcome
  <2> QED
    BY <1>1, <2>1 DEF RetryInv
<1>4. ASSUME \/ Redeliver \/ Crash \/ SkipEmpty \/ RejectMalformed \/ Handle
             \/ HandlerSucceeds \/ RepublishSucceeds \/ ParkSucceeds \/ ParkFails
      PROVE Good
  BY <1>0, <1>4 DEF Redeliver, Crash, SkipEmpty, RejectMalformed, Handle, Resolve,
                    HandlerSucceeds, RepublishSucceeds, ParkSucceeds, ParkFails
<1>5. ASSUME HandlerFails PROVE Good
  <2>1. pc = "handling" /\ failed' = [failed EXCEPT ![Current.event] = @ + 1]
        /\ failed \in [Events -> Nat] /\ MaxRetries \in Nat
    BY <1>5, HandlerAssumption DEF HandlerFails, TypeInv, TypeOK
  <2>2. CASE Current.retry < MaxRetries
    <3>1. position' = position /\ pc' = "republishing"
      BY <1>5, <2>2 DEF HandlerFails, AfterFailure
    <3>2. Current' = Current /\ Current.event \in Events /\ Current.retry \in Nat
      BY <1>1, <2>1, <3>1
    <3>3. Current.retry <= failed[Current.event]
      BY <2>1 DEF RetryInv, Current, TypeInv, TypeOK, InCallback
    <3>4. failed'[Current.event] = failed[Current.event] + 1 /\ failed[Current.event] \in Nat
      BY <2>1, <3>2
    <3> QED
      BY <2>2, <3>1, <3>2, <3>3, <3>4
  <2>3. CASE ~(Current.retry < MaxRetries) /\ HasDeadLetter
    <3>1. position' = position /\ pc' = "parking"
      BY <1>5, <2>3 DEF HandlerFails, AfterFailure
    <3>2. Current' = Current /\ Current.event \in Events /\ Current.retry \in Nat
      BY <1>1, <2>1, <3>1
    <3>3. Current.retry <= failed[Current.event]
      BY <2>1 DEF RetryInv, Current, TypeInv, TypeOK, InCallback
    <3>4. failed'[Current.event] = failed[Current.event] + 1 /\ failed[Current.event] \in Nat
      BY <2>1, <3>2
    <3> QED
      BY <2>1, <2>3, <3>1, <3>2, <3>3, <3>4
  <2>4. CASE ~(Current.retry < MaxRetries) /\ ~HasDeadLetter
    BY <1>0, <1>5, <2>4 DEF HandlerFails, AfterFailure, Resolve
  <2> QED
    BY <2>2, <2>3, <2>4
<1>6. ASSUME RepublishFails PROVE Good
  <2>1. /\ pc = "republishing" /\ position' = position /\ pc' \in {"parking", "rejected"}
        /\ lostSends' = [lostSends EXCEPT ![Current.event] = @ + 1]
        /\ lostSends \in [Events -> Nat]
    BY <1>6 DEF RepublishFails, TypeInv, TypeOK
  <2>2. Current' = Current /\ Current.event \in Events
    BY <1>1, <2>1
  <2>3. lostSends'[Current.event] > 0
    BY <2>1, <2>2
  <2> QED
    BY <2>1, <2>2, <2>3
<1>7. Good
  BY <1>2, <1>3, <1>4, <1>5, <1>6 DEF Next, Callback
<1> QED
  BY <1>7, RetryInvLog DEF RetryInv

LEMMA RetryInvariant == Spec => []RetryInv
<1>1. Init => RetryInv
  BY DEF Init, RetryInv
<1> QED
  BY <1>1, RetryInvStep, TypeInvariant, PTL DEF Spec

\* An event is dead-lettered only after MaxRetries + 1 failures of the
\* handler, or when Kafka refused to take a retry.
THEOREM DeadLettersEarned == Spec => []DeadLetterIsEarned
<1>1. Init => DeadLetterIsEarned
  BY DEF Init, DeadLetterIsEarned
<1>2. TypeInv /\ RetryInv /\ DeadLetterIsEarned /\ [Next]_vars => DeadLetterIsEarned'
  <2> SUFFICES ASSUME TypeInv, RetryInv, DeadLetterIsEarned, [Next]_vars,
                      NEW e \in deadLettered'
               PROVE failed'[e] > MaxRetries \/ lostSends'[e] > 0
    BY DEF DeadLetterIsEarned
  <2>1. e \in deadLettered \/ (pc = "parking" /\ e = Current.event)
    BY DEF Next, vars, outcome, Publish, Commit, Redeliver, Crash, Callback,
           SkipEmpty, RejectMalformed, Handle, HandlerSucceeds, HandlerFails,
           RepublishSucceeds, RepublishFails, ParkSucceeds, ParkFails
  <2>2. failed[e] > MaxRetries \/ lostSends[e] > 0
    BY <2>1 DEF DeadLetterIsEarned, RetryInv
  <2>3. e \in Events
    <3>1. CASE e \in deadLettered
      BY <3>1 DEF TypeInv, TypeOK
    <3>2. CASE pc = "parking" /\ e = Current.event
      <4>1. log[position] \in Message
        BY <3>2 DEF TypeInv, TypeOK, InCallback
      <4> QED
        BY <3>2, <4>1 DEF Current, Message
    <3> QED
      BY <2>1, <3>1, <3>2
  <2> QED
    BY <2>2, <2>3, HistoriesGrow, HandlerAssumption
<1> QED
  BY <1>1, <1>2, RetryInvariant, TypeInvariant, PTL DEF Spec

-----------------------------------------------------------------------------
(* No message is lost *)

\* Message i needs no more care of a consumer that goes on from offset n: it is
\* cleared, or comes again with a higher count.
Covered(i, n) ==
    \/ Cleared(log[i].event)
    \/ \E j \in n..Len(log) :
          log[j].event = log[i].event /\ log[j].retry > log[i].retry

\* NothingLost, at the position as well, which a restart falls back from.
LostInv ==
    /\ \A i \in 1..(position - 1) : Covered(i, position)
    /\ \A i \in 1..(committed - 1) : Covered(i, committed)

\* Cleared, and covered, in the next state.
ClearedAfter(e) ==
    \/ e \in handled' \cup deadLettered' \cup Empty
    \/ ~HasDeadLetter /\ failed'[e] > MaxRetries

CoveredAfter(i, n) ==
    \/ ClearedAfter(log'[i].event)
    \/ \E j \in n..Len(log') :
          log'[j].event = log'[i].event /\ log'[j].retry > log'[i].retry

LEMMA LostInvAfter ==
    ASSUME \A i \in 1..(position' - 1) : CoveredAfter(i, position'),
           \A i \in 1..(committed' - 1) : CoveredAfter(i, committed')
    PROVE LostInv'
BY DEF LostInv, Covered, Cleared, Settled, CoveredAfter, ClearedAfter

\* What is covered stays so.
LEMMA CoveredStays ==
    ASSUME TypeInv, [Next]_vars, NEW n \in Nat \ {0}, NEW i \in 1..Len(log), Covered(i, n)
    PROVE CoveredAfter(i, n)
<1>1. /\ Len(log') >= Len(log) /\ Len(log) \in Nat /\ Len(log') \in Nat
      /\ \A k \in 1..Len(log) : log'[k] = log[k]
      /\ handled \subseteq handled' /\ deadLettered \subseteq deadLettered'
  BY StepGrows
<1>2. CASE Cleared(log[i].event)
  <2>1. log[i].event \in Events
    BY LogMessages DEF TypeInv
  <2>2. ClearedAfter(log[i].event)
    <3>1. failed'[log[i].event] >= failed[log[i].event]
          /\ failed[log[i].event] \in Nat /\ failed'[log[i].event] \in Nat
          /\ MaxRetries \in Nat
      BY <2>1, HistoriesGrow, HandlerAssumption
    <3>2. CASE Settled(log[i].event)
      BY <1>1, <3>2 DEF Settled, ClearedAfter
    <3>3. CASE ~HasDeadLetter /\ failed[log[i].event] > MaxRetries
      BY <3>1, <3>3 DEF ClearedAfter
    <3> QED
      BY <1>2, <3>2, <3>3 DEF Cleared
  <2> QED
    BY <1>1, <2>2 DEF CoveredAfter
<1>3. ASSUME NEW j \in n..Len(log),
             log[j].event = log[i].event, log[j].retry > log[i].retry
      PROVE CoveredAfter(i, n)
  <2>1. j \in 1..Len(log) /\ j \in n..Len(log')
    BY <1>1
  <2> QED
    BY <1>1, <1>3, <2>1 DEF CoveredAfter
<1> QED
  BY <1>2, <1>3 DEF Covered

\* What was covered at the offsets is, wherever they move.
LEMMA LostInvStays ==
    ASSUME TypeInv, LostInv, [Next]_vars
    PROVE /\ \A i \in 1..(position - 1) : CoveredAfter(i, position)
          /\ \A i \in 1..(committed - 1) : CoveredAfter(i, committed)
          /\ position \in 1..(Len(log) + 1) /\ committed \in 1..position
<1>1. position \in 1..(Len(log) + 1) /\ committed \in 1..position /\ Len(log) \in Nat
  BY DEF TypeInv, TypeOK
<1>2. ASSUME NEW i \in 1..(position - 1) PROVE CoveredAfter(i, position)
  <2>1. i \in 1..Len(log) /\ position \in Nat \ {0} /\ Covered(i, position)
    BY <1>1 DEF LostInv
  <2> QED
    BY <2>1, CoveredStays
<1>3. ASSUME NEW i \in 1..(committed - 1) PROVE CoveredAfter(i, committed)
  <2>1. i \in 1..Len(log) /\ committed \in Nat \ {0} /\ Covered(i, committed)
    BY <1>1 DEF LostInv
  <2> QED
    BY <2>1, CoveredStays
<1> QED
  BY <1>1, <1>2, <1>3

\* The consumer moves past a message that is cleared, or republished with a
\* higher count.
LEMMA LostInvResolved ==
    ASSUME TypeInv, LostInv, [Next]_vars,
           position' = position + 1, committed' = committed, position <= Len(log),
           \/ ClearedAfter(Current.event)
           \/ log' = Append(log, Retried)
    PROVE LostInv'
<1>1. /\ Len(log') >= Len(log) /\ Len(log) \in Nat /\ Len(log') \in Nat
      /\ \A i \in 1..Len(log) : log'[i] = log[i]
  BY StepGrows
<1>2. position \in 1..Len(log) /\ committed \in 1..position
      /\ \A i \in 1..Len(log) : log[i].retry \in Nat
  BY LogMessages DEF TypeInv, TypeOK
<1>3. log' = Append(log, Retried) =>
          /\ Len(log') = Len(log) + 1
          /\ log'[Len(log')].event = log[position].event
          /\ log'[Len(log')].retry = log[position].retry + 1
  <2>1. Retried.event = log[position].event /\ Retried.retry = log[position].retry + 1
    BY DEF Retried, Current
  <2>2. Retried \in Message
    <3>1. log[position] \in Message
      BY <1>2 DEF TypeInv, TypeOK
    <3> QED
      BY <3>1 DEF Retried, Current, Message
  <2> QED
    BY <1>1, <2>1, <2>2, AppendedMessage DEF TypeInv
\* Whatever the present message covers is covered by its successor.
<1>4. ASSUME NEW i \in 1..position,
             log[position].event = log[i].event, log[position].retry >= log[i].retry
      PROVE CoveredAfter(i, position + 1)
  <2>1. log'[i] = log[i] /\ log[i].retry \in Nat /\ log[position].retry \in Nat
    BY <1>1, <1>2
  <2>2. CASE ClearedAfter(Current.event)
    BY <1>4, <2>1, <2>2 DEF Current, CoveredAfter
  <2>3. CASE log' = Append(log, Retried)
    <3>1. Len(log') \in (position + 1)..Len(log')
      BY <1>1, <1>2, <1>3, <2>3
    <3> QED
      BY <1>3, <1>4, <2>1, <2>3, <3>1, SMTT(30) DEF CoveredAfter
  <2> QED
    BY <2>2, <2>3
<1>5. ASSUME NEW i \in 1..(position - 1) PROVE CoveredAfter(i, position + 1)
  <2>0. i \in 1..Len(log) /\ i \in 1..position /\ log'[i] = log[i]
    BY <1>1, <1>2
  <2>1. CoveredAfter(i, position)
    BY LostInvStays
  <2>2. CASE ClearedAfter(log'[i].event)
    BY <2>2 DEF CoveredAfter
  <2>3. ASSUME NEW j \in position..Len(log'),
               log'[j].event = log'[i].event, log'[j].retry > log'[i].retry
        PROVE CoveredAfter(i, position + 1)
    <3>1. CASE j = position
      <4>1. log'[j] = log[position] /\ log[position].retry >= log[i].retry
        BY <1>1, <1>2, <2>0, <2>3, <3>1
      <4> QED
        BY <1>4, <2>0, <2>3, <4>1
    <3>2. CASE j # position
      <4>1. j \in (position + 1)..Len(log')
        BY <1>1, <1>2, <3>2
      <4> QED
        BY <2>3, <4>1 DEF CoveredAfter
    <3> QED
      BY <3>1, <3>2
  <2> QED
    BY <2>1, <2>2, <2>3 DEF CoveredAfter
<1>6. CoveredAfter(position, position + 1)
  BY <1>2, <1>4
<1>7. \A i \in 1..(position' - 1) : CoveredAfter(i, position')
  BY <1>2, <1>5, <1>6
<1>8. \A i \in 1..(committed' - 1) : CoveredAfter(i, committed')
  BY LostInvStays
<1> QED
  BY <1>7, <1>8, LostInvAfter

\* A step that leaves the offsets where they are, commits, or goes back.
LEMMA LostInvKept ==
    ASSUME TypeInv, LostInv, [Next]_vars,
           position' \in {position, committed}, committed' \in {position, committed},
           position' = position \/ committed' = committed
    PROVE LostInv'
BY LostInvStays, LostInvAfter

LEMMA LostInvStep ==
    ASSUME TypeInv, RetryInv, LostInv, [Next]_vars
    PROVE LostInv'
<1>0. ASSUME UNCHANGED <<position, committed>> PROVE LostInv'
  BY <1>0, LostInvKept
<1>1. ASSUME NEW e \in Events, Publish(e) PROVE LostInv'
  BY <1>0, <1>1 DEF Publish, consumer
<1>2. ASSUME Commit PROVE LostInv'
  BY <1>2, LostInvKept DEF Commit
<1>3. ASSUME Crash PROVE LostInv'
  BY <1>3, LostInvKept DEF Crash
<1>4. ASSUME \/ Redeliver \/ RejectMalformed \/ Handle \/ RepublishFails \/ ParkFails
      PROVE LostInv'
  BY <1>0, <1>4 DEF Redeliver, RejectMalformed, Handle, RepublishFails, ParkFails
<1>5. ASSUME SkipEmpty PROVE LostInv'
  BY <1>5, LostInvResolved DEF SkipEmpty, Fetched, Resolve, ClearedAfter
<1>6. ASSUME HandlerSucceeds PROVE LostInv'
  BY <1>6, LostInvResolved DEF HandlerSucceeds, Resolve, TypeInv, InCallback, ClearedAfter
<1>7. ASSUME HandlerFails PROVE LostInv'
  <2>1. pc = "handling" /\ position <= Len(log) /\ committed' = committed
        /\ failed' = [failed EXCEPT ![Current.event] = @ + 1]
    BY <1>7 DEF HandlerFails, TypeInv, InCallback
  <2>2. CASE position' = position
    BY <1>0, <2>1, <2>2
  <2>3. CASE position' # position
    <3>1. ~(Current.retry < MaxRetries) /\ ~HasDeadLetter /\ position' = position + 1
      BY <1>7, <2>3 DEF HandlerFails, AfterFailure, Resolve
    \* A message on its last retry has failed MaxRetries times before.
    <3>2. failed'[Current.event] > MaxRetries
      <4>1. position \in 1..Len(log) /\ failed \in [Events -> Nat]
        BY <2>1 DEF TypeInv, TypeOK
      <4>2. Current.event \in Events /\ Current.retry \in Nat
            /\ Current.retry <= failed[Current.event]
        BY <4>1, LogMessages DEF TypeInv, RetryInv, Current
      <4>3. failed'[Current.event] = failed[Current.event] + 1
            /\ failed[Current.event] \in Nat
        BY <2>1, <4>1, <4>2
      <4> QED
        BY <3>1, <4>2, <4>3, HandlerAssumption
    <3> QED
      BY <2>1, <3>1, <3>2, LostInvResolved DEF ClearedAfter
  <2> QED
    BY <2>2, <2>3
<1>8. ASSUME RepublishSucceeds PROVE LostInv'
  BY <1>8, LostInvResolved DEF RepublishSucceeds, Resolve, TypeInv, InCallback
<1>9. ASSUME ParkSucceeds PROVE LostInv'
  BY <1>9, LostInvResolved DEF ParkSucceeds, Resolve, TypeInv, InCallback, ClearedAfter
<1>10. CASE UNCHANGED vars
  BY <1>0, <1>10 DEF vars, consumer
<1> QED
  BY <1>1, <1>2, <1>3, <1>4, <1>5, <1>6, <1>7, <1>8, <1>9, <1>10 DEF Next, Callback

\* No event is lost behind the committed offset, whatever sends fail and however
\* often the consumer is restarted; without a dead-letter topic, it is dropped
\* there after its last retry only.
THEOREM NoMessageLost == Spec => []NothingLost
<1>1. Init => LostInv
  BY DEF Init, LostInv
<1>2. TypeInv /\ RetryInv /\ LostInv /\ [Next]_vars => LostInv'
  BY LostInvStep
<1>3. LostInv => NothingLost
  BY DEF LostInv, Covered, NothingLost
<1> QED
  BY <1>1, <1>2, <1>3, TypeInvariant, RetryInvariant, PTL DEF Spec

-----------------------------------------------------------------------------
(* Duplicates *)

\* The failed sends, failed attempts and restarts so far.
Disturbances == faults + crashes

\* What each message with a retry count was republished from, and how many
\* disturbances there had been by then.
Sources == [1..Len(log) -> (1..Len(log)) \X (0..Disturbances)]

\* A source carries the same event with the next smaller count; the consumer
\* is past it, unless something has disturbed it since.
FromSource(src, i) ==
    LET s == src[i] IN
    /\ log[s[1]].event = log[i].event
    /\ log[i].retry = log[s[1]].retry + 1
    /\ s[2] = Disturbances => s[1] < position

\* An event is published once, and no message was republished twice without a
\* disturbance in between.
SourceInv ==
    /\ \A i, j \in 1..Len(log) :
          log[i].retry = 0 /\ log[j].retry = 0 /\ log[i].event = log[j].event => i = j
    /\ \E src \in Sources :
          /\ \A i \in 1..Len(log) : log[i].retry # 0 => FromSource(src, i)
          /\ \A i, j \in 1..Len(log) :
                log[i].retry # 0 /\ log[j].retry # 0 /\ src[i] = src[j] => i = j

\* A step that publishes nothing again keeps every source.
LEMMA SourcesStay ==
    ASSUME TypeInv, SourceInv, [Next]_vars,
           \/ log' = log
           \/ \E e \in Events : Publish(e),
           Disturbances' \in Nat, Disturbances' >= Disturbances,
           Disturbances' = Disturbances => position' >= position
    PROVE SourceInv'
<1>0. /\ Len(log) \in Nat /\ Len(log') \in Nat /\ Len(log') >= Len(log)
      /\ \A i \in 1..Len(log) :
            log'[i] = log[i] /\ log[i].event \in Events /\ log[i].retry \in Nat
      /\ Disturbances \in Nat /\ position \in Nat /\ position' \in Nat
  <2>1. Disturbances \in Nat /\ position \in Nat
    BY HandlerAssumption DEF TypeInv, TypeOK, Disturbances
  <2>2. position' \in Nat
    BY <2>1, TypeStep DEF TypeInv, TypeOK
  <2> QED
    BY <2>1, <2>2, StepGrows, LogMessages DEF TypeInv
<1>1. \A i \in 1..Len(log') : i \in 1..Len(log) \/ i = Len(log) + 1
  <2>1. CASE log' = log
    BY <1>0, <2>1
  <2>2. ASSUME NEW e \in Events, Publish(e)
        PROVE \A i \in 1..Len(log') : i \in 1..Len(log) \/ i = Len(log) + 1
    <3>1. [event |-> e, retry |-> 0] \in Message
      BY DEF Message
    <3> QED
      BY <1>0, <2>2, <3>1, AppendedMessage DEF Publish, TypeInv
  <2> QED
    BY <2>1, <2>2
<1>2. ASSUME NEW i \in 1..Len(log'), i \notin 1..Len(log)
      PROVE /\ i = Len(log) + 1 /\ log'[i].retry = 0
            /\ \A j \in 1..Len(log) : log[j].event # log'[i].event
  <2>1. i = Len(log) + 1 /\ log' # log
    BY <1>0, <1>1, <1>2
  <2>2. PICK e \in Events : Publish(e)
    BY <2>1
  <2>3. log'[i] = [event |-> e, retry |-> 0] /\ MessagesOf(e) = {}
    <3>1. [event |-> e, retry |-> 0] \in Message
      BY DEF Message
    <3> QED
      BY <2>1, <2>2, <3>1, AppendedMessage DEF Publish, TypeInv
  <2> QED
    BY <2>1, <2>3 DEF MessagesOf
<1>3. \A i, j \in 1..Len(log') :
          log'[i].retry = 0 /\ log'[j].retry = 0 /\ log'[i].event = log'[j].event => i = j
  <2> SUFFICES ASSUME NEW i \in 1..Len(log'), NEW j \in 1..Len(log'),
                      log'[i].retry = 0, log'[j].retry = 0, log'[i].event = log'[j].event
               PROVE i = j
    OBVIOUS
  <2>1. CASE i \in 1..Len(log) /\ j \in 1..Len(log)
    BY <1>0, <2>1 DEF SourceInv
  <2>2. CASE i \notin 1..Len(log) \/ j \notin 1..Len(log)
    BY <1>0, <1>2, <2>2
  <2> QED
    BY <2>1, <2>2
<1>4. PICK src \in Sources :
          /\ \A i \in 1..Len(log) : log[i].retry # 0 => FromSource(src, i)
          /\ \A i, j \in 1..Len(log) :
                log[i].retry # 0 /\ log[j].retry # 0 /\ src[i] = src[j] => i = j
  BY DEF SourceInv
<1>4a. PICK new : new = [i \in 1..Len(log') |-> IF i \in 1..Len(log) THEN src[i] ELSE <<1, 0>>]
  OBVIOUS
<1>5. new \in Sources'
  <2>1. \A i \in 1..Len(log) : src[i] \in (1..Len(log)) \X (0..Disturbances)
    BY <1>4 DEF Sources
  <2>2. (1..Len(log)) \X (0..Disturbances) \subseteq (1..Len(log')) \X (0..Disturbances')
    BY <1>0
  <2>3. \A i \in 1..Len(log') : new[i] \in (1..Len(log')) \X (0..Disturbances')
    BY <1>0, <1>4a, <2>1, <2>2
  <2> QED
    BY <1>4a, <2>3 DEF Sources
<1>6. ASSUME NEW i \in 1..Len(log'), log'[i].retry # 0
      PROVE i \in 1..Len(log) /\ new[i] = src[i] /\ log'[i] = log[i]
  BY <1>0, <1>2, <1>4a, <1>6
<1>7. ASSUME NEW i \in 1..Len(log'), log'[i].retry # 0 PROVE FromSource(new, i)'
  <2>1. i \in 1..Len(log) /\ new[i] = src[i] /\ log'[i] = log[i]
    BY <1>6, <1>7
  <2>2. FromSource(src, i) /\ src[i] \in (1..Len(log)) \X (0..Disturbances)
    BY <1>4, <1>7, <2>1 DEF Sources
  <2>3. src[i][1] \in 1..Len(log) /\ src[i][2] \in 0..Disturbances
    BY <2>2
  <2> QED
    BY <1>0, <2>1, <2>2, <2>3, SMTT(30) DEF FromSource
<1>8. \A i, j \in 1..Len(log') :
          log'[i].retry # 0 /\ log'[j].retry # 0 /\ new[i] = new[j] => i = j
  BY <1>4, <1>6
<1> QED
  BY <1>3, <1>5, <1>7, <1>8 DEF SourceInv

\* The message in hand has been republished since the last disturbance, or
\* its event is the new message's: in both cases the source is new.
LEMMA SourceAdded ==
    ASSUME TypeInv, SourceInv, [Next]_vars,
           pc = "republishing", log' = Append(log, Retried),
           \/ Disturbances' = Disturbances /\ position' = position + 1
           \/ Disturbances' = Disturbances + 1
    PROVE SourceInv'
<1>0. /\ Len(log) \in Nat
      /\ \A i \in 1..Len(log) :
            log'[i] = log[i] /\ log[i].event \in Events /\ log[i].retry \in Nat
      /\ Disturbances \in Nat /\ position \in 1..Len(log)
      /\ position' \in Nat
  <2>1. Disturbances \in Nat /\ position \in 1..Len(log)
    BY HandlerAssumption DEF TypeInv, TypeOK, Disturbances, InCallback
  <2>2. position' \in Nat
    BY <2>1, TypeStep DEF TypeInv, TypeOK
  <2> QED
    BY <2>1, <2>2, StepGrows, LogMessages DEF TypeInv
<1>1. /\ Len(log') = Len(log) + 1
      /\ log'[Len(log) + 1].event = log[position].event
      /\ log'[Len(log) + 1].retry = log[position].retry + 1
  <2>1. Retried \in Message
    BY LogGrows
  <2>2. Len(log') = Len(log) + 1 /\ log'[Len(log) + 1] = Retried
    BY <2>1, AppendedMessage DEF TypeInv
  <2> QED
    BY <2>2 DEF Retried, Current
<1>2. \A i \in 1..Len(log') : i \in 1..Len(log) \/ i = Len(log) + 1
  <2> SUFFICES ASSUME NEW i \in 1..Len(log')
               PROVE i \in 1..Len(log) \/ i = Len(log) + 1
    OBVIOUS
  <2>1. i \in 1..(Len(log) + 1)
    BY <1>1
  <2> QED
    BY <1>0, <2>1
<1>3. \A i, j \in 1..Len(log') :
          log'[i].retry = 0 /\ log'[j].retry = 0 /\ log'[i].event = log'[j].event => i = j
  <2>1. log'[Len(log) + 1].retry # 0
    BY <1>0, <1>1
  <2> QED
    BY <1>0, <1>2, <2>1 DEF SourceInv
<1>4. PICK src \in Sources :
          /\ \A i \in 1..Len(log) : log[i].retry # 0 => FromSource(src, i)
          /\ \A i, j \in 1..Len(log) :
                log[i].retry # 0 /\ log[j].retry # 0 /\ src[i] = src[j] => i = j
  BY DEF SourceInv
<1>4a. PICK new : new = [i \in 1..Len(log') |->
                     IF i \in 1..Len(log) THEN src[i] ELSE <<position, Disturbances>>]
  OBVIOUS
<1>5. new[Len(log) + 1] = <<position, Disturbances>> /\ \A i \in 1..Len(log) : new[i] = src[i]
  BY <1>0, <1>1, <1>2, <1>4a
<1>6. new \in Sources'
  <2>1. \A i \in 1..Len(log) : src[i] \in (1..Len(log)) \X (0..Disturbances)
    BY <1>4 DEF Sources
  <2>2. (1..Len(log)) \X (0..Disturbances) \subseteq (1..Len(log')) \X (0..Disturbances')
    BY <1>0, <1>1
  <2>3. <<position, Disturbances>> \in (1..Len(log)) \X (0..Disturbances)
    BY <1>0
  <2>4. \A i \in 1..Len(log') : new[i] \in (1..Len(log')) \X (0..Disturbances')
    BY <1>4a, <2>1, <2>2, <2>3
  <2> QED
    BY <1>4a, <2>4 DEF Sources
\* No source so far is the new one.
<1>7. ASSUME NEW i \in 1..Len(log), log[i].retry # 0
      PROVE src[i] # <<position, Disturbances>>
  <2>1. FromSource(src, i)
    BY <1>4, <1>7
  <2> QED
    BY <1>0, <2>1 DEF FromSource
<1>8. ASSUME NEW i \in 1..Len(log'), log'[i].retry # 0 PROVE FromSource(new, i)'
  <2>1. CASE i \in 1..Len(log)
    <3>1. FromSource(src, i) /\ src[i] \in (1..Len(log)) \X (0..Disturbances)
      BY <1>0, <1>4, <1>8, <2>1 DEF Sources
    <3>2. src[i][1] \in 1..Len(log) /\ src[i][2] \in 0..Disturbances /\ new[i] = src[i]
      BY <1>5, <2>1, <3>1
    <3> QED
      BY <1>0, <1>1, <2>1, <3>1, <3>2 DEF FromSource
  <2>2. CASE i = Len(log) + 1
    BY <1>0, <1>1, <1>5, <2>2 DEF FromSource
  <2> QED
    BY <1>2, <2>1, <2>2
<1>9. \A i, j \in 1..Len(log') :
          log'[i].retry # 0 /\ log'[j].retry # 0 /\ new[i] = new[j] => i = j
  BY <1>0, <1>2, <1>4, <1>5, <1>7, SMTT(30)
<1> QED
  BY <1>3, <1>6, <1>8, <1>9 DEF SourceInv

LEMMA SourceInvStep ==
    ASSUME TypeInv, SourceInv, [Next]_vars
    PROVE SourceInv'
<1>0. /\ faults \in Nat /\ crashes \in Nat /\ position \in Nat
      /\ Disturbances = faults + crashes /\ Disturbances' = faults' + crashes'
  BY HandlerAssumption DEF TypeInv, TypeOK, Disturbances
<1>1. ASSUME NEW e \in Events, Publish(e) PROVE SourceInv'
  BY <1>0, <1>1, SourcesStay DEF Publish, consumer, bounds
<1>2. ASSUME Commit \/ Redeliver \/ SkipEmpty \/ RejectMalformed \/ Handle \/ HandlerSucceeds
             \/ ParkSucceeds
      PROVE SourceInv'
  <2>1. log' = log /\ UNCHANGED <<faults, crashes>> /\ position' \in {position, position + 1}
    BY <1>2 DEF Commit, Redeliver, SkipEmpty, RejectMalformed, Handle, HandlerSucceeds,
                ParkSucceeds, Resolve, bounds
  <2> QED
    BY <1>0, <2>1, SourcesStay
<1>3. ASSUME Crash \/ ParkFails PROVE SourceInv'
  <2>1. /\ log' = log
        /\ \/ crashes' = crashes + 1 /\ faults' = faults
           \/ faults' = faults + 1 /\ crashes' = crashes
    BY <1>3 DEF Crash, ParkFails, Fault
  <2> QED
    BY <1>0, <2>1, SourcesStay
<1>4. ASSUME HandlerFails PROVE SourceInv'
  <2>1. /\ log' = log /\ crashes' = crashes
        /\ faults' = faults \/ faults' = faults + 1
        /\ position' = position \/ position' = position + 1
    BY <1>4 DEF HandlerFails, AfterFailure, Resolve, Fault
  <2>2. position' >= position
    BY <1>0, <2>1
  <2>3. CASE faults' = faults
    BY <1>0, <2>1, <2>2, <2>3, SourcesStay
  <2>4. CASE faults' = faults + 1
    BY <1>0, <2>1, <2>2, <2>4, SourcesStay
  <2> QED
    BY <2>1, <2>3, <2>4
<1>5. ASSUME RepublishSucceeds PROVE SourceInv'
  BY <1>0, <1>5, SourceAdded DEF RepublishSucceeds, Resolve, bounds
<1>6. ASSUME RepublishFails PROVE SourceInv'
  <2>1. pc = "republishing" /\ log' \in {log, Append(log, Retried)}
        /\ faults' = faults + 1 /\ crashes' = crashes
    BY <1>6 DEF RepublishFails, Fault
  <2>2. CASE log' = log
    BY <1>0, <2>1, <2>2, SourcesStay
  <2>3. CASE log' = Append(log, Retried)
    BY <1>0, <2>1, <2>3, SourceAdded
  <2> QED
    BY <2>1, <2>2, <2>3
<1>7. ASSUME UNCHANGED vars PROVE SourceInv'
  BY <1>0, <1>7, SourcesStay DEF vars, consumer, bounds
<1> QED
  BY <1>1, <1>2, <1>3, <1>4, <1>5, <1>6, <1>7 DEF Next, Callback

\* A set whose members have different sources in another set, of which each is
\* named with one of a few numbers, is at most so many times larger.
LEMMA CountedBySource ==
    ASSUME NEW S, NEW T, IsFiniteSet(T), NEW n \in Nat,
           NEW f \in [S -> T \X (0..n)], \A i, j \in S : f[i] = f[j] => i = j
    PROVE Cardinality(S) <= (1 + n) * Cardinality(T)
<1>1. IsFiniteSet(0..n) /\ Cardinality(0..n) = n + 1
  BY FS_Interval
<1>2. IsFiniteSet(T \X (0..n)) /\ Cardinality(T \X (0..n)) = Cardinality(T) * (n + 1)
  BY <1>1, FS_Product, ZenonT(30)
<1>3. f \in Injection(S, T \X (0..n))
  BY DEF Injection, IsInjective
<1>4. Cardinality(S) <= Cardinality(T \X (0..n))
  BY <1>2, <1>3, FS_Injection
<1>5. Cardinality(T) \in Nat
  BY FS_CardinalityType
<1>6. Cardinality(T) * (n + 1) = (1 + n) * Cardinality(T)
  BY <1>5
<1> QED
  BY <1>2, <1>4, <1>6

LEMMA SourceInvBounds ==
    ASSUME TypeInv, RetryInv, SourceInv PROVE RetriesBounded
<1>0. /\ Len(log) \in Nat /\ Disturbances \in Nat /\ IsFiniteSet(1..Len(log))
      /\ \A i \in 1..Len(log) : log[i].event \in Events /\ log[i].retry \in Nat
  <2>1. Len(log) \in Nat
        /\ \A i \in 1..Len(log) : log[i].event \in Events /\ log[i].retry \in Nat
    BY LogMessages DEF TypeInv
  <2>2. Disturbances \in Nat
    BY HandlerAssumption DEF TypeInv, TypeOK, Disturbances
  <2>3. IsFiniteSet(1..Len(log))
    BY <2>1, FS_Interval
  <2> QED
    BY <2>1, <2>2, <2>3
<1>1. ASSUME NEW e \in Events, NEW k
      PROVE /\ Copies(e, k) \subseteq 1..Len(log) /\ IsFiniteSet(Copies(e, k))
            /\ \A i \in 1..Len(log) :
                  i \in Copies(e, k) <=> log[i].event = e /\ log[i].retry = k
  <2>1. Copies(e, k) \subseteq 1..Len(log)
    BY DEF Copies, MessagesOf
  <2> QED
    BY <1>0, <2>1, FS_Subset DEF Copies, MessagesOf
<1>2. ASSUME NEW e \in Events PROVE Cardinality(Copies(e, 0)) <= 1
  <2>1. \A i, j \in Copies(e, 0) : i = j
    BY <1>1 DEF SourceInv
  <2>2. CASE Copies(e, 0) = {}
    BY <2>2, FS_EmptySet
  <2>3. ASSUME NEW i \in Copies(e, 0) PROVE Cardinality(Copies(e, 0)) <= 1
    <3>1. Copies(e, 0) = {i}
      BY <2>1, <2>3
    <3> QED
      BY <3>1, FS_Singleton
  <2> QED
    BY <2>2, <2>3
<1>3. ASSUME NEW e \in Events, NEW k \in 0..MaxRetries
      PROVE Cardinality(Copies(e, k + 1)) <= (1 + faults + crashes) * Cardinality(Copies(e, k))
  <2>1. PICK src \in Sources :
          /\ \A i \in 1..Len(log) : log[i].retry # 0 => FromSource(src, i)
          /\ \A i, j \in 1..Len(log) :
                log[i].retry # 0 /\ log[j].retry # 0 /\ src[i] = src[j] => i = j
    BY DEF SourceInv
  <2> DEFINE S == Copies(e, k + 1)
             T == Copies(e, k)
             f == [i \in S |-> src[i]]
  <2>2. k \in Nat
    BY HandlerAssumption
  <2>3. ASSUME NEW i \in S
        PROVE i \in 1..Len(log) /\ log[i].retry # 0 /\ src[i] \in T \X (0..Disturbances)
    <3>1. i \in 1..Len(log) /\ log[i].event = e /\ log[i].retry = k + 1
      BY <1>1, <2>3
    <3>2. FromSource(src, i) /\ src[i] \in (1..Len(log)) \X (0..Disturbances)
      BY <2>1, <2>2, <3>1 DEF Sources
    <3>3. src[i][1] \in 1..Len(log) /\ src[i][2] \in 0..Disturbances
          /\ src[i] = <<src[i][1], src[i][2]>>
      BY <3>2
    <3>4. log[src[i][1]].event = e /\ log[src[i][1]].retry = k
      BY <1>0, <2>2, <3>1, <3>2, <3>3 DEF FromSource
    <3>5. src[i][1] \in T
      BY <1>1, <3>3, <3>4
    <3>6. <<src[i][1], src[i][2]>> \in T \X (0..Disturbances)
      <4> HIDE DEF T
      <4> QED
        BY <3>3, <3>5
    <3>7. log[i].retry # 0
      BY <2>2, <3>1
    <3> QED
      BY <3>1, <3>3, <3>6, <3>7
  <2>4. f \in [S -> T \X (0..Disturbances)]
    BY <2>3
  <2>5. \A i, j \in S : f[i] = f[j] => i = j
    BY <2>1, <2>3
  <2>6. Cardinality(S) <= (1 + Disturbances) * Cardinality(T)
    <3>1. IsFiniteSet(T)
      BY <1>1
    <3> HIDE DEF S, T, f
    <3> QED
      BY <1>0, <2>4, <2>5, <3>1, CountedBySource
  <2>7. 1 + Disturbances = 1 + faults + crashes
    BY HandlerAssumption DEF Disturbances, TypeInv, TypeOK
  <2> QED
    BY <2>6, <2>7
<1> QED
  BY <1>0, <1>2, <1>3 DEF RetriesBounded, RetryInv

\* No message carries more retries than the limit, and whatever fails or
\* restarts, a message is republished at most once more for each of it.
THEOREM DuplicatesBounded == Spec => []RetriesBounded
<1>1. Init => SourceInv
  <2> SUFFICES ASSUME Init PROVE SourceInv
    OBVIOUS
  <2>1. Len(log) = 0 /\ 1..Len(log) = {}
    BY DEF Init
  <2>2. [i \in 1..Len(log) |-> <<1, 0>>] \in Sources
    BY <2>1 DEF Sources
  <2> QED
    BY <2>1, <2>2 DEF SourceInv
<1>2. TypeInv /\ SourceInv /\ [Next]_vars => SourceInv'
  BY SourceInvStep
<1>3. TypeInv /\ RetryInv /\ SourceInv => RetriesBounded
  BY SourceInvBounds
<1> QED
  BY <1>1, <1>2, <1>3, RetryInvariant, TypeInvariant, PTL DEF Spec

-----------------------------------------------------------------------------
(* The refinement of EventConsumption *)

\* What is settled was accepted, and what is about to be parked has a place.
ConsumeInv ==
    /\ handled \cup deadLettered \subseteq Accepted
    /\ pc = "parking" => HasDeadLetter

\* A message of the event is at or behind the committed offset.
Ahead(e) == \E i \in committed..Len(log) : log[i].event = e

LEMMA WaitingIsAhead ==
    /\ Waiting = {e \in Events \ (handled \cup deadLettered) : Ahead(e)}
    /\ Waiting' = {e \in Events \ (handled' \cup deadLettered') : Ahead(e)'}
BY DEF Waiting, Ahead

\* The message in hand is one of an event that is attempted.
LEMMA InHand ==
    ASSUME TypeInv, pc \in {"handling", "republishing", "parking"}
    PROVE /\ Current.event \in Events /\ Ahead(Current.event)
          /\ Current.event \in Accepted
          /\ Current.event \in Waiting \cup handled \cup deadLettered
<1>1. position \in 1..Len(log) /\ position \in committed..Len(log)
  BY DEF TypeInv, TypeOK, InCallback
<1>2. Current.event \in Events
  BY <1>1, LogMessages DEF TypeInv, Current
<1>3. Ahead(Current.event) /\ Current.event \in Accepted
  BY <1>1, <1>2 DEF Ahead, Accepted, MessagesOf, Current
<1> QED
  BY <1>2, <1>3, WaitingIsAhead

\* A republished message brings no event that was not in hand.
LEMMA LogStays ==
    ASSUME TypeInv, [Next]_vars, committed' = committed,
           log' = log \/ (pc = "republishing" /\ log' = Append(log, Retried))
    PROVE Accepted' = Accepted /\ \A e \in Events : Ahead(e)' <=> Ahead(e)
<1>1. CASE log' = log
  BY <1>1 DEF Accepted, MessagesOf, Ahead
<1>2. CASE pc = "republishing" /\ log' = Append(log, Retried)
  <2>0. /\ Len(log) \in Nat /\ committed \in 1..(Len(log) + 1)
        /\ Len(log') = Len(log) + 1 /\ log'[Len(log) + 1].event = Current.event
        /\ \A i \in 1..Len(log) : log'[i] = log[i]
    <3>1. Retried \in Message
      BY <1>2, LogGrows
    <3>2. /\ Len(log') = Len(log) + 1 /\ log'[Len(log) + 1] = Retried
          /\ \A i \in 1..Len(log) : log'[i] = log[i]
      BY <1>2, <3>1, AppendedMessage DEF TypeInv
    <3>3. Len(log) \in Nat /\ committed \in 1..(Len(log) + 1)
      BY DEF TypeInv, TypeOK
    <3> QED
      BY <3>2, <3>3 DEF Retried
  <2> DEFINE n == Len(log)
  <2>1. \A i \in 1..Len(log') : i \in 1..n \/ i = n + 1
    <3> SUFFICES ASSUME NEW i \in 1..Len(log') PROVE i \in 1..n \/ i = n + 1
      OBVIOUS
    <3>1. i \in 1..(n + 1)
      BY <2>0
    <3> QED
      BY <2>0, <3>1
  <2>2. ASSUME NEW e \in Events PROVE e \in Accepted' <=> e \in Accepted
    <3>1. (\E i \in 1..Len(log') : log'[i].event = e) <=> (\E i \in 1..n : log[i].event = e)
      <4>1. ASSUME NEW i \in 1..Len(log'), log'[i].event = e
            PROVE \E k \in 1..n : log[k].event = e
        <5>1. CASE i \in 1..n
          BY <2>0, <4>1, <5>1
        <5>2. CASE i = n + 1
          BY <1>2, <2>0, <4>1, <5>2, InHand DEF Accepted, MessagesOf
        <5> QED
          BY <2>1, <5>1, <5>2
      <4>2. ASSUME NEW i \in 1..n, log[i].event = e
            PROVE \E k \in 1..Len(log') : log'[k].event = e
        <5>1. i \in 1..Len(log')
          BY <2>0
        <5> QED
          BY <2>0, <4>2, <5>1
      <4> QED
        BY <4>1, <4>2
    <3> QED
      BY <3>1 DEF Accepted, MessagesOf
  <2>3. ASSUME NEW e \in Events PROVE Ahead(e)' <=> Ahead(e)
    <3>1. ASSUME NEW i \in committed..Len(log'), log'[i].event = e PROVE Ahead(e)
      <4>0. i \in 1..Len(log') /\ (i \in 1..n => i \in committed..n)
        BY <2>0
      <4>1. CASE i \in 1..n
        BY <2>0, <3>1, <4>0, <4>1 DEF Ahead
      <4>2. CASE i = n + 1
        BY <1>2, <2>0, <3>1, <4>2, InHand
      <4> QED
        BY <2>1, <4>0, <4>1, <4>2
    <3>2. ASSUME NEW i \in committed..n, log[i].event = e
          PROVE \E k \in committed..Len(log') : log'[k].event = e
      <4>1. i \in committed..Len(log') /\ i \in 1..n
        BY <2>0
      <4> QED
        BY <2>0, <3>2, <4>1
    <3> QED
      BY <3>1, <3>2 DEF Ahead
  <2>4. Accepted \subseteq Events /\ Accepted' \subseteq Events
    BY DEF Accepted
  <2> QED
    BY <2>2, <2>3, <2>4
<1> QED
  BY <1>1, <1>2

LEMMA ConsumeInvStep ==
    ASSUME TypeInv, ConsumeInv, [Next]_vars
    PROVE ConsumeInv'
<1>1. Accepted \subseteq Accepted'
  <2>1. ASSUME NEW e \in Events, NEW i \in 1..Len(log), log[i].event = e
        PROVE \E k \in 1..Len(log') : log'[k].event = e
    <3>1. i \in 1..Len(log') /\ log'[i] = log[i]
      BY StepGrows
    <3> QED
      BY <2>1, <3>1
  <2> QED
    BY <2>1 DEF Accepted, MessagesOf
<1>2. handled' \cup deadLettered' \subseteq Accepted'
  <2>1. /\ handled' \subseteq handled \cup {Current.event}
        /\ deadLettered' \subseteq deadLettered \cup {Current.event}
        /\ \/ UNCHANGED <<handled, deadLettered>>
           \/ pc \in {"handling", "parking"}
    BY DEF Next, vars, outcome, Publish, Commit, Redeliver, Crash, Callback, SkipEmpty,
           RejectMalformed, Handle, HandlerSucceeds, HandlerFails, RepublishSucceeds,
           RepublishFails, ParkSucceeds, ParkFails
  <2>2. CASE UNCHANGED <<handled, deadLettered>>
    BY <1>1, <2>2 DEF ConsumeInv
  <2>3. CASE pc \in {"handling", "parking"}
    BY <1>1, <2>1, <2>3, InHand DEF ConsumeInv
  <2> QED
    BY <2>1, <2>2, <2>3
<1>3. pc' = "parking" => HasDeadLetter
  BY DEF ConsumeInv, Next, vars, consumer, Publish, Commit, Redeliver, Crash, Callback,
         SkipEmpty, RejectMalformed, Handle, HandlerSucceeds, HandlerFails, AfterFailure,
         Resolve, RepublishSucceeds, RepublishFails, ParkSucceeds, ParkFails
<1> QED
  BY <1>2, <1>3 DEF ConsumeInv

\* Every step of the consumer is a step of EventConsumption or a stutter.
LEMMA ConsumptionStep ==
    ASSUME TypeInv, RetryInv, LostInv, ConsumeInv, [Next]_vars
    PROVE [Consumption!Next]_(Consumption!vars)
<1> USE DEF Consumption!vars
<1>1. ASSUME NEW e \in Events, Publish(e) PROVE Consumption!Accept(e)
  <2> DEFINE n == Len(log)
             m == [event |-> e, retry |-> 0]
  <2>1. /\ n \in Nat /\ committed \in 1..(n + 1) /\ m \in Message
        /\ \A k \in Events : k \in Accepted <=> \E i \in 1..n : log[i].event = k
    <3>1. n \in Nat /\ committed \in 1..(n + 1)
      BY DEF TypeInv, TypeOK
    <3>2. m \in Message
      BY DEF Message
    <3>3. \A k \in Events : k \in Accepted <=> \E i \in 1..n : log[i].event = k
      BY DEF Accepted, MessagesOf
    <3> QED
      BY <3>1, <3>2, <3>3
  <2>2. /\ Len(log') = n + 1 /\ log'[n + 1].event = e /\ committed' = committed
        /\ \A i \in 1..n : log'[i] = log[i]
        /\ UNCHANGED <<handled, deadLettered, failed, lostSends>> /\ e \notin Accepted
    BY <1>1, <2>1, AppendedMessage DEF Publish, consumer, outcome, TypeInv, Accepted
  <2>3. \A i \in Nat : /\ i \in 1..(n + 1) <=> i \in 1..n \/ i = n + 1
                       /\ i \in committed..(n + 1) <=> i \in committed..n \/ i = n + 1
                       /\ i \in committed..n => i \in 1..n
    BY <2>1
  <2>4. 1..(n + 1) \subseteq Nat /\ committed..(n + 1) \subseteq Nat
    BY <2>1
  <2> HIDE DEF n, m
  <2>5. Accepted' = Accepted \cup {e}
    <3>1. \A k \in Events : k \in Accepted' <=> \E i \in 1..(n + 1) : log'[i].event = k
      BY <2>2 DEF Accepted, MessagesOf
    <3>2. Accepted \subseteq Events /\ Accepted' \subseteq Events
      BY DEF Accepted
    <3>3. \A k \in Events : k \in Accepted' <=> k \in Accepted \/ k = e
      BY <2>1, <2>2, <2>3, <2>4, <3>1
    <3> QED
      BY <3>2, <3>3
  <2>6. Waiting' = Waiting \cup {e}
    <3>1. e \notin handled \cup deadLettered
      BY <2>2 DEF ConsumeInv
    <3>2. \A k \in Events : Ahead(k)' <=> Ahead(k) \/ k = e
      <4>1. \A k \in Events : Ahead(k)' <=> \E i \in committed..(n + 1) : log'[i].event = k
        BY <2>2 DEF Ahead
      <4>2. \A k \in Events : Ahead(k) <=> \E i \in committed..n : log[i].event = k
        BY DEF Ahead, n
      <4> QED
        BY <2>2, <2>3, <2>4, <4>1, <4>2
    <3> QED
      BY <2>2, <3>1, <3>2, WaitingIsAhead
  <2> QED
    BY <2>2, <2>5, <2>6 DEF Consumption!Accept
\* A commit leaves behind only what is settled, empty or dropped.
<1>2. ASSUME Commit PROVE \E S \in SUBSET Waiting : Consumption!Forgo(S)
  <2>1. /\ committed \in Nat /\ position \in Nat /\ 1 <= committed /\ Len(log) \in Nat
        /\ position <= Len(log) + 1
        /\ committed < position /\ committed' = position /\ log' = log
        /\ UNCHANGED <<handled, deadLettered, failed, lostSends>>
    BY <1>2 DEF Commit, TypeInv, TypeOK, outcome
  <2>2. Waiting' \subseteq Waiting
    BY <2>1 DEF Waiting
  <2>3. ASSUME NEW e \in Waiting \ Waiting'
        PROVE e \in Empty \/ (~HasDeadLetter /\ failed[e] > MaxRetries)
    <3>1. PICK i \in committed..Len(log) : log[i].event = e
      BY DEF Waiting
    <3>2. e \in Events \ (handled \cup deadLettered)
          /\ \A k \in position..Len(log) : log[k].event # e
      BY <2>1, <2>3 DEF Waiting
    <3>3. i \in 1..(position - 1)
      BY <2>1, <3>1, <3>2
    <3>4. Cleared(e)
      BY <3>1, <3>2, <3>3 DEF LostInv, Covered
    <3> QED
      BY <3>2, <3>4 DEF Cleared, Settled
  <2>4. Accepted' = Accepted
    BY <2>1 DEF Accepted, MessagesOf
  <2> WITNESS Waiting \ Waiting' \in SUBSET Waiting
  <2> QED
    BY <2>1, <2>2, <2>3, <2>4 DEF Consumption!Forgo, Consumption!Exhausted
<1>3. ASSUME \/ Redeliver \/ Crash \/ SkipEmpty \/ RejectMalformed \/ Handle
             \/ RepublishSucceeds \/ UNCHANGED vars
      PROVE UNCHANGED (Consumption!vars)
  <2>1. /\ UNCHANGED <<committed, handled, deadLettered, failed, lostSends>>
        /\ log' = log \/ (pc = "republishing" /\ log' = Append(log, Retried))
    BY <1>3 DEF Redeliver, Crash, SkipEmpty, RejectMalformed, Handle, RepublishSucceeds,
                vars, consumer, outcome
  <2> QED
    BY <2>1, LogStays, WaitingIsAhead
<1>4. ASSUME HandlerSucceeds PROVE Consumption!Process(Current.event)
  <2>1. /\ UNCHANGED <<log, committed, deadLettered, failed, lostSends>>
        /\ handled' = handled \cup {Current.event} /\ pc = "handling"
    BY <1>4 DEF HandlerSucceeds
  <2>2. Accepted' = Accepted /\ Waiting' = Waiting \ {Current.event}
    BY <2>1, LogStays, WaitingIsAhead
  <2> QED
    BY <2>1, <2>2, InHand DEF Consumption!Process, Consumption!Attempted
<1>5. ASSUME HandlerFails PROVE Consumption!Fail(Current.event)
  <2>1. /\ UNCHANGED <<log, committed, handled, deadLettered, lostSends>>
        /\ failed' = [failed EXCEPT ![Current.event] = @ + 1] /\ pc = "handling"
    BY <1>5 DEF HandlerFails
  <2>2. Accepted' = Accepted /\ Waiting' = Waiting
    BY <2>1, LogStays, WaitingIsAhead
  <2> QED
    BY <2>1, <2>2, InHand DEF Consumption!Fail, Consumption!Attempted
<1>6. ASSUME RepublishFails PROVE Consumption!Refuse(Current.event)
  <2>1. /\ UNCHANGED <<committed, handled, deadLettered, failed>>
        /\ log' = log \/ log' = Append(log, Retried)
        /\ lostSends' = [lostSends EXCEPT ![Current.event] = @ + 1] /\ pc = "republishing"
    BY <1>6 DEF RepublishFails
  <2>2. Accepted' = Accepted /\ Waiting' = Waiting
    BY <2>1, LogStays, WaitingIsAhead
  <2> QED
    BY <2>1, <2>2, InHand DEF Consumption!Refuse, Consumption!Attempted
<1>7. ASSUME ParkSucceeds \/ ParkFails
      PROVE Consumption!Park(Current.event) \/ UNCHANGED (Consumption!vars)
  <2>1. /\ UNCHANGED <<log, committed, handled, failed, lostSends>> /\ pc = "parking"
        /\ \/ deadLettered' = deadLettered
           \/ deadLettered' = deadLettered \cup {Current.event}
    BY <1>7 DEF ParkSucceeds, ParkFails
  <2>2. CASE deadLettered' = deadLettered
    BY <2>1, <2>2, LogStays, WaitingIsAhead
  <2>3. CASE deadLettered' = deadLettered \cup {Current.event}
    <3>1. Accepted' = Accepted /\ Waiting' = Waiting \ {Current.event}
      BY <2>1, <2>3, LogStays, WaitingIsAhead
    <3>2. HasDeadLetter /\ (failed[Current.event] > MaxRetries \/ lostSends[Current.event] > 0)
      BY <2>1 DEF ConsumeInv, RetryInv
    <3> QED
      BY <2>1, <2>3, <3>1, <3>2, InHand
      DEF Consumption!Park, Consumption!Attempted, Consumption!Exhausted
  <2> QED
    BY <2>1, <2>2, <2>3
<1>8. pc \in {"handling", "republishing", "parking"} => Current.event \in Events
  BY InHand
<1> QED
  BY <1>1, <1>2, <1>3, <1>4, <1>5, <1>6, <1>7, <1>8
  DEF Next, Callback, HandlerSucceeds, HandlerFails, RepublishFails, ParkSucceeds,
      ParkFails, Consumption!Next

\* The consumer keeps what EventConsumption promises of each event, with a
\* dead-letter topic or without: it goes on with an event until it has handled
\* or parked it, parks what has earned it, and gives up only what is empty or,
\* without the topic, exhausted.
THEOREM HandlerImplementsConsumption == Spec => ImplementsConsumption
<1>1. Init => Consumption!Init /\ LostInv /\ ConsumeInv
  BY DEF Init, Consumption!Init, LostInv, ConsumeInv, Accepted, Waiting, MessagesOf
<1>2. TypeInv /\ RetryInv /\ LostInv /\ [Next]_vars => LostInv'
  BY LostInvStep
<1>3. TypeInv /\ ConsumeInv /\ [Next]_vars => ConsumeInv'
  BY ConsumeInvStep
<1>4. TypeInv /\ RetryInv /\ LostInv /\ ConsumeInv /\ [Next]_vars
         => [Consumption!Next]_(Consumption!vars)
  BY ConsumptionStep
<1> QED
  BY <1>1, <1>2, <1>3, <1>4, TypeInvariant, RetryInvariant, PTL
  DEF Spec, ImplementsConsumption, Consumption!Spec
=============================================================================
