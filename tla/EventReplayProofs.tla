-------------------------- MODULE EventReplayProofs --------------------------
(***************************************************************************)
(* Theorems about EventReplay, for any number of events, sessions, slots   *)
(* and deaths of the process.                                              *)
(***************************************************************************)
EXTENDS EventReplay, FiniteSetTheorems, TLAPS

-----------------------------------------------------------------------------
(* Lemmas about finite sets of numbers *)

\* A finite set of numbers has a least element and a greatest one.
LEMMA LeastElement ==
    ASSUME NEW T, IsFiniteSet(T), T \subseteq Nat, T # {}
    PROVE \E e \in T : \A x \in T : e <= x
<1> DEFINE Below(e) == {x \in T : x < e}
           Family == {Below(e) : e \in T}
<1>1. Family \subseteq FiniteSubsetsOf(T) /\ Family # {}
  <2>1. \A x \in T : Below(x) \in SUBSET T
    OBVIOUS
  <2>2. \A x \in T : IsFiniteSet(Below(x))
    BY <2>1, FS_Subset
  <2> QED
    BY <2>1, <2>2 DEF FiniteSubsetsOf
<1>2. \E B \in Family : \A C \in Family : <<C, B>> \notin StrictSubsetOrdering(T)
  BY ONLY <1>1, FS_StrictSubsetOrderingWellFounded, WFMin
<1>3. PICK e \in T : \A y \in T : <<Below(y), Below(e)>> \notin StrictSubsetOrdering(T)
  BY <1>2
<1>4. ASSUME NEW y \in T, y < e PROVE FALSE
  <2>1. y \in Below(e) /\ y \notin Below(y)
    BY <1>4
  <2>2. \A x \in T : x < y => x < e
    BY <1>4
  <2>3. Below(y) \subseteq Below(e)
    BY <2>2
  <2> QED
    BY <1>3, <2>1, <2>3 DEF StrictSubsetOrdering
<1> QED
  BY <1>4

LEMMA GreatestElement ==
    ASSUME NEW T, IsFiniteSet(T), T \subseteq Nat, T # {}
    PROVE \E e \in T : \A x \in T : x <= e
<1> DEFINE Above(e) == {x \in T : x > e}
           Family == {Above(e) : e \in T}
<1>1. Family \subseteq FiniteSubsetsOf(T) /\ Family # {}
  <2>1. \A x \in T : Above(x) \in SUBSET T
    OBVIOUS
  <2>2. \A x \in T : IsFiniteSet(Above(x))
    BY <2>1, FS_Subset
  <2> QED
    BY <2>1, <2>2 DEF FiniteSubsetsOf
<1>2. \E B \in Family : \A C \in Family : <<C, B>> \notin StrictSubsetOrdering(T)
  BY ONLY <1>1, FS_StrictSubsetOrderingWellFounded, WFMin
<1>3. PICK e \in T : \A y \in T : <<Above(y), Above(e)>> \notin StrictSubsetOrdering(T)
  BY <1>2
<1>4. ASSUME NEW y \in T, y > e PROVE FALSE
  <2>1. y \in Above(e) /\ y \notin Above(y)
    BY <1>4
  <2>2. \A x \in T : x > y => x > e
    BY <1>4
  <2>3. Above(y) \subseteq Above(e)
    BY <2>2
  <2> QED
    BY <1>3, <2>1, <2>3 DEF StrictSubsetOrdering
<1> QED
  BY <1>4

\* FirstSlots takes every event of S, or as many as there are slots.
LEMMA FirstSlotsFill ==
    ASSUME NEW S \in SUBSET Events
    PROVE /\ FirstSlots(S) \subseteq S
          /\ Cardinality(FirstSlots(S)) \in 0..MaxParallel
          /\ FirstSlots(S) # S => Cardinality(FirstSlots(S)) = MaxParallel
<1> DEFINE F == FirstSlots(S)
           Before(e) == {x \in S : x < e}
<1>0. /\ MaxParallel \in Nat \ {0} /\ Events \subseteq Nat
      /\ IsFiniteSet(S) /\ F \subseteq S /\ IsFiniteSet(F)
      /\ Cardinality(F) \in Nat
      /\ \A e : IsFiniteSet(Before(e)) /\ Cardinality(Before(e)) \in Nat
      /\ \A e \in S : e \in F <=> Cardinality(Before(e)) < MaxParallel
  <2>1. IsFiniteSet(S)
    BY ReplayAssumption, FS_Subset
  <2>2. F \subseteq S /\ \A e : Before(e) \subseteq S
    BY DEF FirstSlots
  <2>3. IsFiniteSet(F) /\ \A e : IsFiniteSet(Before(e))
    BY <2>1, <2>2, FS_Subset
  <2> QED
    BY <2>1, <2>2, <2>3, FS_CardinalityType, ReplayAssumption DEF FirstSlots
<1> HIDE DEF F, Before
<1>1. Cardinality(F) <= MaxParallel
  <2>1. CASE F = {}
    BY <2>1, FS_EmptySet, <1>0
  <2>2. CASE F # {}
    <3>1. PICK e \in F : \A x \in F : x <= e
      BY <1>0, <2>2, GreatestElement
    <3>2. F \ {e} \subseteq Before(e)
      BY <1>0, <3>1 DEF Before
    <3>3. Cardinality(F \ {e}) <= Cardinality(Before(e))
      BY <1>0, <3>2, FS_Subset
    <3>4. Cardinality(F \ {e}) = Cardinality(F) - 1
      BY <1>0, FS_RemoveElement
    <3> QED
      BY <1>0, <3>1, <3>3, <3>4
  <2> QED
    BY <2>1, <2>2
<1>2. ASSUME F # S PROVE Cardinality(F) >= MaxParallel
  <2>1. IsFiniteSet(S \ F) /\ S \ F \subseteq Nat /\ S \ F # {}
    BY <1>0, <1>2, FS_Difference
  <2>2. PICK e \in S \ F : \A x \in S \ F : e <= x
    BY <2>1, LeastElement
  <2>3. ASSUME NEW x \in S, x < e PROVE x \in F
    BY <1>0, <2>2, <2>3
  <2>4. Cardinality(Before(e)) <= Cardinality(F)
    <3>1. Before(e) \subseteq F
      BY <2>3 DEF Before
    <3> QED
      BY <1>0, <3>1, FS_Subset
  <2> QED
    BY <1>0, <2>2, <2>4
<1> QED
  BY <1>0, <1>1, <1>2 DEF F
-----------------------------------------------------------------------------
(* What a step may do to a session *)

\* The events of a session that Finish(r, e, result) moves.
LEMMA FinishSteps ==
    ASSUME TypeOK, NEW r \in Replays, NEW e \in Events, NEW result \in Result,
           Finish(r, e, result)
    PROVE /\ step' \in [Replays -> [Events -> Step]]
          /\ \A q \in Replays \ {r} : step'[q] = step[q] /\ available'[q] = available[q]
          /\ available' = IF Waiting(r) = {}
                          THEN [available EXCEPT ![r] = @ + 1] ELSE available
          /\ \A f \in Events :
                step'[r][f] = IF Waiting(r) # {} /\ f = NextWaiter(r) THEN "granted"
                              ELSE IF f = e THEN result ELSE step[r][f]
          /\ Waiting(r) # {} => NextWaiter(r) \in Waiting(r)
<1>0. /\ step \in [Replays -> [Events -> Step]] /\ result \in Step
      /\ available \in [Replays -> 0..MaxParallel]
  BY DEF TypeOK, Result, Step
<1>1. ASSUME Waiting(r) # {} PROVE NextWaiter(r) \in Waiting(r)
  <2>1. IsFiniteSet(Waiting(r)) /\ Waiting(r) \subseteq Nat
    BY ReplayAssumption, FS_Subset DEF Waiting, In
  <2>2. \E e1 \in Waiting(r) : \A x \in Waiting(r) : e1 <= x
    BY <1>1, <2>1, LeastElement
  <2> QED
    BY <2>2 DEF NextWaiter
<1>2. CASE Waiting(r) = {}
  BY <1>0, <1>2 DEF Finish
<1>3. CASE Waiting(r) # {}
  <2>1. NextWaiter(r) \in Events
    BY <1>1, <1>3 DEF Waiting, In
  <2>2. step' = [step EXCEPT ![r] =
                    [[step[r] EXCEPT ![e] = result] EXCEPT ![NextWaiter(r)] = "granted"]]
    BY <1>0, <1>3 DEF Finish
  <2>3. "granted" \in Step /\ step[r] \in [Events -> Step]
    BY <1>0 DEF Step
  <2> QED
    BY <1>0, <1>1, <1>3, <2>1, <2>2, <2>3 DEF Finish
<1> QED
  BY <1>2, <1>3

Same(r) ==
    /\ status'[r] = status[r] /\ task'[r] = task[r]
    /\ step'[r] = step[r] /\ available'[r] = available[r]
    /\ counts'[r] = counts[r] /\ republished'[r] = republished[r]
    /\ sentAtCancel'[r] = sentAtCancel[r]

\* The steps that start and end sessions, and those of their events.
SessionStep(r) ==
    \/ StartReplay(r) \/ Load(r) \/ LoadFails(r) \/ Begin(r)
    \/ Settle(r) \/ Forget(r) \/ CancelReplay(r)
EventStep(r, e) ==
    \/ SkipCancelled(r, e) \/ Publish(r, e)
    \/ PublishSucceeds(r, e) \/ PublishFails(r, e)
    \/ MarkSucceeds(r, e) \/ MarkFails(r, e) \/ ArrivesLate(r, e)

LEMMA NextSteps ==
    ASSUME Next
    PROVE \/ \E r \in Replays : SessionStep(r) \/ \E e \in Events : EventStep(r, e)
          \/ \E e \in Events : Cleanup(e) \/ CleanupMetadata(e)
          \/ Crash
BY Zenon DEF Next, SessionStep, EventStep

\* Every step is of one session, of all (Crash) or of none.
LEMMA SessionSteps ==
    ASSUME TypeOK, [Next]_vars, NEW r \in Replays
    PROVE Same(r) \/ SessionStep(r) \/ (\E e \in Events : EventStep(r, e)) \/ Crash
<1> USE DEF Same
<1>1. ASSUME NEW q \in Replays, SessionStep(q), q # r PROVE Same(r)
  BY <1>1 DEF TypeOK, SessionStep, StartReplay, Load, LoadFails, Begin, Settle, Forget,
        CancelReplay
<1>2. ASSUME NEW q \in Replays, NEW e \in Events, EventStep(q, e), q # r PROVE Same(r)
  <2>1. ASSUME NEW result \in Result, Finish(q, e, result)
        PROVE step'[r] = step[r] /\ available'[r] = available[r]
    BY <1>2, <2>1, FinishSteps
  <2>2. CASE SkipCancelled(q, e)
    BY <2>1, <2>2 DEF SkipCancelled, Result
  <2>3. CASE Publish(q, e)
    BY <1>2, <2>3 DEF Publish, Move, TypeOK
  <2>4. CASE PublishSucceeds(q, e)
    BY <1>2, <2>4 DEF PublishSucceeds, Move, Sent, TypeOK
  <2>5. CASE PublishFails(q, e)
    BY <1>2, <2>1, <2>5 DEF PublishFails, Sent, TypeOK, Result
  <2>6. CASE MarkSucceeds(q, e)
    BY <2>1, <2>6 DEF MarkSucceeds, Result
  <2>7. CASE MarkFails(q, e)
    BY <2>1, <2>7 DEF MarkFails, Result
  <2>8. CASE ArrivesLate(q, e)
    BY <1>2, <2>8 DEF ArrivesLate, Sent, TypeOK
  <2> QED
    BY <1>2, <2>2, <2>3, <2>4, <2>5, <2>6, <2>7, <2>8 DEF EventStep
<1>3. ASSUME NEW e \in Events, Cleanup(e) \/ CleanupMetadata(e) PROVE Same(r)
  BY <1>3 DEF Cleanup, CleanupMetadata
<1>4. ASSUME UNCHANGED vars PROVE Same(r)
  BY <1>4 DEF vars
<1> QED
  BY <1>1, <1>2, <1>3, <1>4, NextSteps

-----------------------------------------------------------------------------
(* The life of a session *)

\* How the status, the progress of the task and the steps of the events go
\* together.
Shape(r) ==
    /\ status[r] = "none" => task[r] = "none"
    /\ task[r] \in {"none", "loading"} => \A e \in Events : step[r][e] = "none"
    /\ task[r] = "scheduled" => \A e \in Events : step[r][e] \in {"none", "loaded"}
    /\ task[r] = "dead" => status[r] = "gone"
    /\ status[r] \in {"completed", "failed"} => task[r] \in {"settled", "ended"}
    /\ task[r] \in {"none", "loading", "scheduled", "processing"} =>
          counts[r].success = 0
    /\ \A e \in Events : step[r][e] = "skipped" => status[r] \in {"cancelled", "gone"}

\* SlotsConserved, for one session.
Slots(r) == task[r] # "dead" =>
    /\ available[r] + Cardinality(In(r, Holding)) = MaxParallel
    /\ Waiting(r) # {} => available[r] = 0

LEMMA CountOfEvents ==
    ASSUME NEW S \in SUBSET Events
    PROVE IsFiniteSet(S) /\ Cardinality(S) \in Nat
BY ReplayAssumption, FS_Subset, FS_CardinalityType

\* Before its batch has begun a session holds no slot.
LEMMA NoSlotsHeld ==
    ASSUME TypeOK, NEW r \in Replays, Shape(r), Slots(r),
           task[r] \in {"none", "loading", "scheduled"}
    PROVE /\ In(r, Holding) = {} /\ Waiting(r) = {} /\ available[r] = MaxParallel
          /\ In(r, {"failed"}) = {}
<1>1. /\ In(r, Holding) = {} /\ Waiting(r) = {} /\ In(r, {"failed"}) = {}
  BY DEF Shape, Waiting, In, Holding
<1> QED
  BY <1>1, FS_EmptySet, ReplayAssumption DEF Slots, TypeOK

\* The slot of an event that ends is passed on or given back.
LEMMA FinishSlots ==
    ASSUME TypeOK, NEW r \in Replays, NEW e \in Events, NEW result \in Result,
           Slots(r), task[r] = "processing", step[r][e] \in Holding,
           Finish(r, e, result)
    PROVE /\ available' \in [Replays -> 0..MaxParallel]
          /\ available'[r] + Cardinality(In(r, Holding)') = MaxParallel
          /\ Waiting(r)' # {} => available'[r] = 0
<1>0. /\ MaxParallel \in Nat /\ available \in [Replays -> 0..MaxParallel]
      /\ available[r] + Cardinality(In(r, Holding)) = MaxParallel
      /\ Waiting(r) # {} => available[r] = 0
      /\ e \in In(r, Holding) /\ e \notin Waiting(r)
      /\ IsFiniteSet(In(r, Holding)) /\ Cardinality(In(r, Holding)) \in Nat
  <2>1. In(r, Holding) \in SUBSET Events
    BY DEF In
  <2> QED
    BY <2>1, CountOfEvents, ReplayAssumption DEF TypeOK, Slots, In, Waiting, Holding
<1>1. Cardinality(In(r, Holding) \ {e}) = Cardinality(In(r, Holding)) - 1
  BY <1>0, FS_RemoveElement
<1>5. IsFiniteSet(In(r, Holding) \ {e}) /\ Cardinality(In(r, Holding) \ {e}) \in Nat
  BY <1>0, FS_RemoveElement, FS_CardinalityType
<1>2. /\ \A f \in Events :
            step'[r][f] = IF Waiting(r) # {} /\ f = NextWaiter(r) THEN "granted"
                          ELSE IF f = e THEN result ELSE step[r][f]
      /\ available' = IF Waiting(r) = {}
                      THEN [available EXCEPT ![r] = @ + 1] ELSE available
      /\ Waiting(r) # {} => NextWaiter(r) \in Waiting(r)
  BY FinishSteps
<1>3. CASE Waiting(r) = {}
  <2>1. In(r, Holding)' = In(r, Holding) \ {e} /\ Waiting(r)' = {}
    BY <1>2, <1>3 DEF In, Waiting, Holding, Result
  <2> QED
    BY <1>0, <1>1, <1>5, <1>2, <1>3, <2>1
<1>4. CASE Waiting(r) # {}
  <2> DEFINE w == NextWaiter(r)
  <2>1. w \in Waiting(r) /\ w \in Events /\ w \notin In(r, Holding)
    BY <1>2, <1>4 DEF In, Waiting, Holding
  <2>2. In(r, Holding)' = (In(r, Holding) \ {e}) \cup {w}
    BY <1>0, <1>2, <1>4, <2>1 DEF In, Holding, Result
  <2>3. Cardinality(In(r, Holding)') = Cardinality(In(r, Holding))
    <3> DEFINE Rest == In(r, Holding) \ {e}
    <3>1. IsFiniteSet(Rest) /\ w \notin Rest /\ Cardinality(Rest) \in Nat
      BY <1>5, <2>1
    <3>2. Cardinality(Rest \cup {w}) = Cardinality(Rest) + 1
      BY <3>1, FS_AddElement
    <3> QED
      BY <1>0, <1>1, <2>2, <3>2
  <2> QED
    BY <1>0, <1>2, <1>4, <2>3
<1> QED
  BY <1>3, <1>4

\* Begin gives out as many slots as the batch asks for, or all.
LEMMA BeginSlots ==
    ASSUME TypeOK, NEW r \in Replays, Shape(r), Slots(r), Begin(r)
    PROVE /\ step' \in [Replays -> [Events -> Step]]
          /\ available' \in [Replays -> 0..MaxParallel]
          /\ available'[r] + Cardinality(In(r, Holding)') = MaxParallel
          /\ Waiting(r)' # {} => available'[r] = 0
          /\ \A e \in Events : step'[r][e] \in {"none", "granted", "waiting"}
          /\ In(r, {"failed", "skipped", "succeeded", "publishing", "marking"})' = {}
<1> DEFINE B == Batch(r)
           G == FirstSlots(B)
<1>1. task[r] = "scheduled" /\ ~HasError(r) /\ B \in SUBSET Events
      /\ available[r] = MaxParallel /\ available \in [Replays -> 0..MaxParallel]
  BY NoSlotsHeld DEF Begin, HasError, TypeOK, Batch, In
<1>2. /\ step' = [step EXCEPT ![r] = [e \in Events |->
                    IF e \in G THEN "granted"
                    ELSE IF e \in B THEN "waiting"
                    ELSE IF e \in B THEN "skipped" ELSE "none"]]
      /\ available' = [available EXCEPT ![r] = @ - Cardinality(G)]
  BY <1>1, Zenon DEF Begin
<1>3. /\ G \subseteq B /\ Cardinality(G) \in 0..MaxParallel
      /\ G # B => Cardinality(G) = MaxParallel
  BY <1>1, FirstSlotsFill
<1> HIDE DEF B, G
<1>4. /\ step \in [Replays -> [Events -> Step]] /\ MaxParallel \in Nat
      /\ {"none", "granted", "waiting"} \subseteq Step
  BY ReplayAssumption DEF TypeOK, Step
<1>5. \A e \in Events :
          step'[r][e] = IF e \in G THEN "granted"
                        ELSE IF e \in B THEN "waiting" ELSE "none"
  BY <1>2, <1>4
<1>6. step' \in [Replays -> [Events -> Step]]
  BY <1>2, <1>4
<1>7. In(r, Holding)' = G /\ Waiting(r)' = B \ G
  BY <1>1, <1>3, <1>5 DEF In, Holding, Waiting
<1>8. /\ available' \in [Replays -> 0..MaxParallel]
      /\ available'[r] + Cardinality(G) = MaxParallel
      /\ G # B => available'[r] = 0
  BY <1>1, <1>2, <1>3, <1>4
<1>9. /\ \A e \in Events : step'[r][e] \in {"none", "granted", "waiting"}
      /\ In(r, {"failed", "skipped", "succeeded", "publishing", "marking"})' = {}
  BY <1>5 DEF In
<1> QED
  BY <1>3, <1>6, <1>7, <1>8, <1>9

SessionInv == TypeOK /\ \A r \in Replays : Shape(r) /\ Slots(r)

\* TypeOK, but for the variables a session shares with no other.
OtherTypes ==
    /\ status \in [Replays -> Status]
    /\ task \in [Replays -> Task]
    /\ counts \in [Replays -> Counts]
    /\ row \in [Events -> Row]
    /\ republished \in [Replays -> SUBSET Events]
    /\ sentAtCancel \in [Replays -> Nat]
    /\ crashes \in 0..MaxCrashes
SlotTypes ==
    /\ step \in [Replays -> [Events -> Step]]
    /\ available \in [Replays -> 0..MaxParallel]

LEMMA MarkedType ==
    ASSUME TypeOK, NEW r \in Replays, NEW e \in Events
    PROVE /\ Marked(r, e) \in [Events -> Row]
          /\ \A f \in Events \ {e} : Marked(r, e)[f] = row[f]
          /\ \/ Marked(r, e)[e] = row[e]
             \/ /\ Marked(r, e)[e].lastReplay = r
                /\ Marked(r, e)[e].replayedCount = row[e].replayedCount + 1
<1>1. /\ row \in [Events -> Row] /\ row[e].replayedCount \in Nat
      /\ row[e].exists \in BOOLEAN
  BY DEF TypeOK, Row
<1>2. CASE ~row[e].exists
  BY <1>1, <1>2 DEF Marked
<1>3. CASE row[e].exists
  <2> DEFINE new == [row[e] EXCEPT !.lastReplay = r,
                                   !.replayedCount = row[e].replayedCount + 1]
  <2>1. /\ new \in Row /\ new.lastReplay = r
        /\ new.replayedCount = row[e].replayedCount + 1
    <3>1. row[e].replayedCount + 1 \in Nat /\ row[e] \in Row
      BY <1>1
    <3> DEFINE n == row[e].replayedCount + 1
    <3> HIDE DEF n
    <3>2. [row[e] EXCEPT !.lastReplay = r, !.replayedCount = n] \in Row
      BY <3>1, Zenon DEF Row, n
    <3> QED
      BY <1>1, <3>1, <3>2 DEF Row, n
  <2>2. Marked(r, e) = [row EXCEPT ![e] = new]
    BY <1>3 DEF Marked
  <2> HIDE DEF new
  <2> QED
    BY <1>1, <2>1, <2>2
<1> QED
  BY <1>2, <1>3

\* The slots and steps stay in their domains.
LEMMA SlotTypesStep ==
    ASSUME SessionInv, [Next]_vars
    PROVE SlotTypes'
<1>0. SlotTypes
  BY DEF SessionInv, TypeOK, SlotTypes
<1>1. ASSUME NEW r \in Replays, SessionStep(r) PROVE SlotTypes'
  <2>1. CASE Begin(r)
    BY <2>1, BeginSlots DEF SessionInv, SlotTypes
  <2>2. CASE Load(r)
    <3>1. PICK batch \in SUBSET Events :
            step' = [step EXCEPT ![r] = [e \in Events |->
                        IF e \in batch THEN "loaded" ELSE "none"]]
      BY <2>2 DEF Load
    <3> QED
      BY <1>0, <2>2, <3>1 DEF Load, SlotTypes, Step
  <2>3. CASE ~Begin(r) /\ ~Load(r)
    BY <1>0, <1>1, <2>3
       DEF SessionStep, StartReplay, LoadFails, Settle, Forget, CancelReplay, SlotTypes
  <2> QED
    BY <2>1, <2>2, <2>3
<1>2. ASSUME NEW r \in Replays, NEW e \in Events, EventStep(r, e) PROVE SlotTypes'
  <2>1. ASSUME NEW result \in Result, Finish(r, e, result),
               task[r] = "processing", step[r][e] \in Holding
        PROVE SlotTypes'
    BY <2>1, FinishSteps, FinishSlots DEF SessionInv, SlotTypes
  <2>2. CASE SkipCancelled(r, e)
    BY <2>1, <2>2 DEF SkipCancelled, Result, Holding
  <2>3. CASE Publish(r, e)
    BY <1>0, <2>3 DEF Publish, Move, SlotTypes, Step
  <2>4. CASE PublishSucceeds(r, e)
    BY <1>0, <2>4 DEF PublishSucceeds, Move, SlotTypes, Step
  <2>5. CASE PublishFails(r, e)
    BY <2>1, <2>5 DEF PublishFails, Result, Holding
  <2>6. CASE MarkSucceeds(r, e)
    BY <2>1, <2>6 DEF MarkSucceeds, Result, Holding
  <2>7. CASE MarkFails(r, e)
    BY <2>1, <2>7 DEF MarkFails, Result, Holding
  <2>8. CASE ArrivesLate(r, e)
    BY <1>0, <2>8 DEF ArrivesLate, SlotTypes, Step
  <2> QED
    BY <1>2, <2>2, <2>3, <2>4, <2>5, <2>6, <2>7, <2>8 DEF EventStep
<1>3. ASSUME UNCHANGED <<step, available>> PROVE SlotTypes'
  BY <1>0, <1>3 DEF SlotTypes
<1>4. ASSUME UNCHANGED vars PROVE SlotTypes'
  BY <1>3, <1>4 DEF vars
<1>5. ASSUME NEW e \in Events, Cleanup(e) \/ CleanupMetadata(e) PROVE SlotTypes'
  BY <1>3, <1>5 DEF Cleanup, CleanupMetadata
<1>6. ASSUME Crash PROVE SlotTypes'
  BY <1>3, <1>6 DEF Crash
<1> QED
  BY <1>1, <1>2, <1>4, <1>5, <1>6, NextSteps

\* Everything else does, whatever the slots do.
LEMMA OtherTypesStep ==
    ASSUME TypeOK, [Next]_vars
    PROVE OtherTypes'
<1>0. OtherTypes
  BY DEF TypeOK, OtherTypes
<1>1. ASSUME NEW r \in Replays, SessionStep(r) PROVE OtherTypes'
  <2>1. CASE StartReplay(r) \/ LoadFails(r) \/ Begin(r) \/ Forget(r)
    BY <1>0, <2>1 DEF StartReplay, LoadFails, Begin, Forget, OtherTypes, Status, Task
  <2>2. CASE Load(r)
    BY <1>0, <2>2 DEF Load, OtherTypes, Status, Task
  <2>3. CASE Settle(r)
    <3>1. Outcome(r) \in Status
      BY <1>0 DEF Outcome, OtherTypes, Status
    <3>2. [processed |-> Cardinality(Batch(r)),
           success |-> Cardinality(In(r, {"succeeded"})),
           failure |-> Cardinality(In(r, {"failed"}))] \in Counts
      BY CountOfEvents DEF Counts, Batch, In
    <3> QED
      BY <1>0, <2>3, <3>1, <3>2 DEF Settle, OtherTypes, Task
  <2>4. CASE CancelReplay(r)
    <3>1. Cardinality(republished[r]) \in Nat
      BY <1>0, CountOfEvents DEF OtherTypes
    <3> QED
      BY <1>0, <2>4, <3>1 DEF CancelReplay, OtherTypes, Status
  <2> QED
    BY <1>1, <2>1, <2>2, <2>3, <2>4 DEF SessionStep
<1>2. ASSUME NEW r \in Replays, NEW e \in Events, EventStep(r, e) PROVE OtherTypes'
  <2>1. /\ UNCHANGED <<status, task, counts, sentAtCancel, crashes>>
        /\ row' = row \/ row' = Marked(r, e)
        /\ republished' = republished \/ Sent(r, e)
    BY <1>2 DEF EventStep, SkipCancelled, Publish, PublishSucceeds, PublishFails,
          MarkSucceeds, MarkFails, ArrivesLate, Move
  <2>2. row' \in [Events -> Row]
    BY <1>0, <2>1, MarkedType DEF OtherTypes
  <2>3. republished' \in [Replays -> SUBSET Events]
    BY <1>0, <2>1 DEF OtherTypes, Sent
  <2> QED
    BY <1>0, <2>1, <2>2, <2>3 DEF OtherTypes
<1>3. ASSUME NEW e \in Events, Cleanup(e) PROVE OtherTypes'
  <2>1. row' \in [Events -> Row]
    BY <1>0, <1>3, ZenonT(30) DEF OtherTypes, Cleanup, Row
  <2> QED
    BY <1>0, <1>3, <2>1 DEF OtherTypes, Cleanup
<1>4. ASSUME NEW e \in Events, CleanupMetadata(e) PROVE OtherTypes'
  <2>1. row' \in [Events -> Row]
    BY <1>0, <1>4, ZenonT(30) DEF OtherTypes, CleanupMetadata, Row
  <2> QED
    BY <1>0, <1>4, <2>1 DEF OtherTypes, CleanupMetadata
<1>5. ASSUME Crash PROVE OtherTypes'
  <2>1. crashes' \in 0..MaxCrashes
    BY <1>0, <1>5, ReplayAssumption DEF OtherTypes, Crash
  <2>2. status' \in [Replays -> Status] /\ task' \in [Replays -> Task]
    BY <1>0, <1>5 DEF OtherTypes, Crash, Status, Task
  <2> QED
    BY <1>0, <1>5, <2>1, <2>2 DEF OtherTypes, Crash
<1>6. ASSUME UNCHANGED vars PROVE OtherTypes'
  BY <1>0, <1>6 DEF vars, OtherTypes
<1> QED
  BY <1>1, <1>2, <1>3, <1>4, <1>5, <1>6, NextSteps

\* What Crash does to a session.
LEMMA CrashSession ==
    ASSUME TypeOK, NEW r \in Replays, Crash
    PROVE /\ status'[r] = IF status[r] = "none" THEN "none" ELSE "gone"
          /\ task'[r] = IF task[r] \in {"none", "ended"} THEN task[r] ELSE "dead"
          /\ step' = step /\ available' = available /\ counts' = counts
          /\ republished' = republished /\ sentAtCancel' = sentAtCancel /\ row' = row
BY DEF Crash

\* What the events of a session do to it.
LEMMA EventSession ==
    ASSUME TypeOK, NEW r \in Replays, NEW e \in Events, EventStep(r, e)
    PROVE /\ UNCHANGED <<status, task, counts, sentAtCancel, crashes>>
          /\ task[r] \in {"processing", "dead"} /\ step[r][e] \in Holding
          /\ \A f \in Events : step'[r][f] = "skipped" /\ step[r][f] # "skipped"
                => status[r] = "cancelled"
<1>1. /\ UNCHANGED <<status, task, counts, sentAtCancel, crashes>>
      /\ task[r] \in {"processing", "dead"} /\ step[r][e] \in Holding
  BY DEF EventStep, SkipCancelled, Publish, PublishSucceeds, PublishFails,
         MarkSucceeds, MarkFails, ArrivesLate, Move, Holding
<1>2. SUFFICES ASSUME NEW f \in Events, step'[r][f] = "skipped", step[r][f] # "skipped"
               PROVE status[r] = "cancelled"
  BY <1>1
<1>3. ASSUME NEW result \in Result, Finish(r, e, result), result # "skipped" PROVE FALSE
  BY <1>2, <1>3, FinishSteps
<1>4. CASE SkipCancelled(r, e)
  BY <1>4 DEF SkipCancelled
<1>5. CASE Publish(r, e) \/ PublishSucceeds(r, e) \/ ArrivesLate(r, e)
  BY <1>2, <1>5 DEF Publish, PublishSucceeds, Move, ArrivesLate, TypeOK
<1>6. CASE PublishFails(r, e)
  BY <1>3, <1>6 DEF PublishFails, Result
<1>7. CASE MarkSucceeds(r, e)
  BY <1>3, <1>7 DEF MarkSucceeds, Result
<1>8. CASE MarkFails(r, e)
  BY <1>3, <1>8 DEF MarkFails, Result
<1> QED
  BY <1>4, <1>5, <1>6, <1>7, <1>8 DEF EventStep

LEMMA ShapeStep ==
    ASSUME SessionInv, [Next]_vars, NEW r \in Replays
    PROVE Shape(r)'
<1>0. TypeOK /\ Shape(r) /\ Slots(r)
  BY DEF SessionInv
<1>1. CASE Same(r)
  BY <1>0, <1>1 DEF Same, Shape
<1>2. CASE StartReplay(r) \/ LoadFails(r) \/ Forget(r) \/ CancelReplay(r)
  BY <1>0, <1>2 DEF StartReplay, LoadFails, Forget, CancelReplay, Shape, TypeOK
<1>3. CASE Load(r)
  <2>1. PICK batch \in SUBSET Events :
          /\ step' = [step EXCEPT ![r] = [e \in Events |->
                          IF e \in batch THEN "loaded" ELSE "none"]]
          /\ IF batch = {}
             THEN /\ status' = [status EXCEPT ![r] = "completed"]
                  /\ task' = [task EXCEPT ![r] = "ended"]
             ELSE /\ task' = [task EXCEPT ![r] = "scheduled"]
                  /\ UNCHANGED status
    BY <1>3 DEF Load
  <2>2. \A e \in Events : step'[r][e] \in {"none", "loaded"}
    BY <1>0, <2>1 DEF TypeOK
  <2>3. task[r] = "loading" /\ counts' = counts
    BY <1>3 DEF Load
  <2> QED
    BY <1>0, <2>1, <2>2, <2>3 DEF Shape, TypeOK
<1>4. CASE Begin(r)
  <2>1. \A e \in Events : step'[r][e] # "skipped"
    BY <1>0, <1>4, BeginSlots
  <2> QED
    BY <1>0, <1>4, <2>1 DEF Begin, Shape, TypeOK
<1>5. CASE Settle(r)
  <2>1. status'[r] = Outcome(r) /\ task'[r] = "settled" /\ step' = step
    BY <1>0, <1>5 DEF Settle, TypeOK
  <2>2. /\ Outcome(r) # "none"
        /\ status[r] \in {"cancelled", "gone"} => Outcome(r) = status[r]
    BY <1>0, <1>5 DEF Outcome, Shape, Settle
  <2> QED
    BY <1>0, <2>1, <2>2 DEF Shape
<1>6. CASE \E e \in Events : EventStep(r, e)
  <2>1. /\ UNCHANGED <<status, task, counts>> /\ task[r] \in {"processing", "dead"}
        /\ \A f \in Events : step'[r][f] = "skipped" /\ step[r][f] # "skipped"
                => status[r] = "cancelled"
    BY <1>0, <1>6, EventSession
  <2> QED
    BY <1>0, <2>1 DEF Shape
<1>7. CASE Crash
  BY <1>0, <1>7, CrashSession DEF Shape
<1> QED
  BY <1>0, <1>1, <1>2, <1>3, <1>4, <1>5, <1>6, <1>7, SessionSteps DEF SessionStep

LEMMA SlotsStep ==
    ASSUME SessionInv, [Next]_vars, NEW r \in Replays
    PROVE Slots(r)'
<1>0. TypeOK /\ Shape(r) /\ Slots(r)
  BY DEF SessionInv
<1>1. ASSUME step'[r] = step[r], available'[r] = available[r],
             task'[r] # "dead" => task[r] # "dead"
      PROVE Slots(r)'
  <2>1. In(r, Holding)' = In(r, Holding) /\ Waiting(r)' = Waiting(r)
    BY <1>1 DEF In, Waiting
  <2> QED
    BY <1>0, <1>1, <2>1 DEF Slots
<1>2. CASE Same(r)
  BY <1>1, <1>2 DEF Same
<1>3. CASE StartReplay(r) \/ LoadFails(r) \/ Forget(r) \/ CancelReplay(r) \/ Settle(r)
  BY <1>0, <1>1, <1>3
     DEF StartReplay, LoadFails, Forget, CancelReplay, Settle, Shape, TypeOK
<1>4. CASE Load(r)
  <2>1. \A e \in Events : step'[r][e] \in {"none", "loaded"}
    BY <1>0, <1>4 DEF Load, TypeOK
  <2>2. In(r, Holding)' = {} /\ Waiting(r)' = {}
    BY <2>1 DEF In, Holding, Waiting
  <2>3. available'[r] = MaxParallel /\ MaxParallel \in Nat
    BY <1>0, <1>4, NoSlotsHeld, ReplayAssumption DEF Load
  <2> QED
    BY <2>2, <2>3, FS_EmptySet DEF Slots
<1>5. CASE Begin(r)
  BY <1>0, <1>5, BeginSlots DEF Slots
<1>6. CASE \E e \in Events : EventStep(r, e)
  <2>1. PICK e \in Events : EventStep(r, e)
    BY <1>6
  <2>2. UNCHANGED task
    BY <1>0, <2>1, EventSession
  <2>3. ASSUME NEW result \in Result, Finish(r, e, result),
               task[r] = "processing", step[r][e] \in Holding
        PROVE Slots(r)'
    BY <1>0, <2>3, FinishSlots DEF Slots
  <2>4. CASE Publish(r, e) \/ PublishSucceeds(r, e)
    <3>1. /\ \A f \in Events : /\ step'[r][f] \in Holding <=> step[r][f] \in Holding
                               /\ step'[r][f] = "waiting" <=> step[r][f] = "waiting"
          /\ available' = available
      BY <1>0, <2>4 DEF Publish, PublishSucceeds, Move, TypeOK, Holding
    <3>2. In(r, Holding)' = In(r, Holding) /\ Waiting(r)' = Waiting(r)
      BY <3>1 DEF In, Waiting
    <3> QED
      BY <1>0, <2>2, <3>1, <3>2 DEF Slots
  <2>5. CASE ArrivesLate(r, e)
    BY <2>2, <2>5 DEF ArrivesLate, Slots
  <2>6. CASE SkipCancelled(r, e)
    BY <2>3, <2>6 DEF SkipCancelled, Result, Holding
  <2>7. CASE PublishFails(r, e)
    BY <2>3, <2>7 DEF PublishFails, Result, Holding
  <2>8. CASE MarkSucceeds(r, e)
    BY <2>3, <2>8 DEF MarkSucceeds, Result, Holding
  <2>9. CASE MarkFails(r, e)
    BY <2>3, <2>9 DEF MarkFails, Result, Holding
  <2> QED
    BY <2>1, <2>4, <2>5, <2>6, <2>7, <2>8, <2>9 DEF EventStep
<1>7. CASE Crash
  <2>1. task'[r] # "dead" => task[r] # "dead"
    BY <1>0, <1>7, CrashSession
  <2> QED
    BY <1>0, <1>1, <1>7, <2>1, CrashSession
<1> QED
  BY <1>0, <1>2, <1>3, <1>4, <1>5, <1>6, <1>7, SessionSteps DEF SessionStep

LEMMA SessionInvariant == Spec => []SessionInv
<1>1. Init => SessionInv
  <2> SUFFICES ASSUME Init PROVE SessionInv
    OBVIOUS
  <2>1. TypeOK
    <3>1. [processed |-> 0, success |-> 0, failure |-> 0] \in Counts
      BY DEF Counts
    <3>2. [exists |-> TRUE, lastReplay |-> None, replayedCount |-> 0] \in Row
      BY DEF Row
    <3> QED
      BY <3>1, <3>2, ReplayAssumption DEF Init, TypeOK, Status, Task, Step
  <2>2. ASSUME NEW r \in Replays PROVE Shape(r) /\ Slots(r)
    <3>1. In(r, Holding) = {} /\ Waiting(r) = {}
      BY <2>2 DEF Init, In, Holding, Waiting
    <3> QED
      BY <2>2, <3>1, FS_EmptySet, ReplayAssumption DEF Init, Shape, Slots
  <2> QED
    BY <2>1, <2>2 DEF SessionInv
<1>2. SessionInv /\ [Next]_vars => SessionInv'
  <2> SUFFICES ASSUME SessionInv, [Next]_vars PROVE SessionInv'
    OBVIOUS
  <2>1. TypeOK'
    BY Zenon, SlotTypesStep, OtherTypesStep DEF SlotTypes, OtherTypes, TypeOK, SessionInv
  <2> QED
    BY <2>1, ShapeStep, SlotsStep DEF SessionInv
<1> QED
  BY <1>1, <1>2, PTL DEF Spec

\* Every variable stays in its domain: the semaphore never holds fewer than no
\* slots or more than it was made with (Semaphore, lines 80-133).
THEOREM TypeCorrect == Spec => []TypeOK
<1>1. SessionInv => TypeOK
  BY DEF SessionInv
<1> QED
  BY <1>1, SessionInvariant, PTL

\* Slots are neither lost nor created on any exit of an event, and nobody waits
\* while one is free (Semaphore.acquire and release, lines 91-133).
THEOREM SlotsAreConserved == Spec => []SlotsConserved
<1>1. SessionInv => SlotsConserved
  BY DEF SessionInv, Slots, SlotsConserved
<1> QED
  BY <1>1, SessionInvariant, PTL

-----------------------------------------------------------------------------
(* Results *)

\* A result is never undone by a later step: startReplay has nothing to undo,
\* the batch begins once, and no event passes through it twice.
LEMMA ResultsStay ==
    ASSUME SessionInv, [Next]_vars, NEW r \in Replays, NEW e \in Events,
           step[r][e] \in Result
    PROVE step'[r][e] = step[r][e]
<1>0. TypeOK /\ Shape(r) /\ Slots(r)
  BY DEF SessionInv
<1>1. CASE Same(r)
  BY <1>1 DEF Same
<1>2. CASE SessionStep(r)
  BY <1>0, <1>2 DEF SessionStep, StartReplay, Load, LoadFails, Begin, Settle, Forget,
        CancelReplay, Shape, Result
<1>3. CASE \E f \in Events : EventStep(r, f)
  <2>1. PICK f \in Events : EventStep(r, f)
    BY <1>3
  <2>2. step[r][f] \in Holding
    BY <1>0, <2>1, EventSession
  <2>3. f # e
    BY <2>2 DEF Holding, Result
  <2>4. ASSUME NEW result \in Result, Finish(r, f, result) PROVE step'[r][e] = step[r][e]
    <3>1. Waiting(r) # {} => NextWaiter(r) # e
      BY <1>0, <2>4, FinishSteps DEF Waiting, In, Result
    <3> QED
      BY <1>0, <2>3, <2>4, <3>1, FinishSteps
  <2>5. CASE Publish(r, f) \/ PublishSucceeds(r, f) \/ ArrivesLate(r, f)
    BY <1>0, <2>3, <2>5 DEF Publish, PublishSucceeds, ArrivesLate, Move, TypeOK
  <2>6. CASE SkipCancelled(r, f)
    BY <2>4, <2>6 DEF SkipCancelled, Result
  <2>7. CASE PublishFails(r, f)
    BY <2>4, <2>7 DEF PublishFails, Result
  <2>8. CASE MarkSucceeds(r, f)
    BY <2>4, <2>8 DEF MarkSucceeds, Result
  <2>9. CASE MarkFails(r, f)
    BY <2>4, <2>9 DEF MarkFails, Result
  <2> QED
    BY <2>1, <2>5, <2>6, <2>7, <2>8, <2>9 DEF EventStep
<1>4. CASE Crash
  BY <1>4 DEF Crash
<1> QED
  BY <1>0, <1>1, <1>2, <1>3, <1>4, SessionSteps

\* What is marked as replayed, or about to be, has been sent.
Earned ==
    \A r \in Replays, e \in Events :
        step[r][e] \in {"marking", "succeeded"} => e \in republished[r]

LEMMA RepublishedGrows ==
    ASSUME TypeOK, [Next]_vars, NEW r \in Replays
    PROVE /\ republished[r] \subseteq republished'[r]
          /\ \A e \in republished'[r] \ republished[r] : step[r][e] = "publishing"
<1>1. CASE Same(r)
  BY <1>1 DEF Same
<1>2. CASE SessionStep(r)
  BY <1>2 DEF SessionStep, StartReplay, Load, LoadFails, Begin, Settle, Forget, CancelReplay
<1>3. CASE \E e \in Events : EventStep(r, e)
  BY <1>3 DEF EventStep, SkipCancelled, Publish, PublishSucceeds, PublishFails,
        MarkSucceeds, MarkFails, ArrivesLate, Move, Sent, TypeOK
<1>4. CASE Crash
  BY <1>4 DEF Crash
<1> QED
  BY <1>1, <1>2, <1>3, <1>4, SessionSteps

LEMMA EarnedStep ==
    ASSUME SessionInv, Earned, [Next]_vars
    PROVE Earned'
<1> SUFFICES ASSUME NEW r \in Replays, NEW e \in Events,
                    step'[r][e] \in {"marking", "succeeded"}
             PROVE e \in republished'[r]
  BY DEF Earned
<1>0. TypeOK /\ Shape(r) /\ Slots(r) /\ republished[r] \subseteq republished'[r]
  BY RepublishedGrows DEF SessionInv
<1>1. ASSUME step[r][e] \in {"marking", "succeeded"} PROVE e \in republished'[r]
  BY <1>0, <1>1 DEF Earned
<1>2. CASE Same(r)
  BY <1>1, <1>2 DEF Same
<1>3. CASE SessionStep(r)
  <2>1. CASE Begin(r)
    BY <1>0, <2>1, BeginSlots
  <2>2. CASE Load(r)
    BY <1>0, <2>2 DEF Load, TypeOK
  <2> QED
    BY <1>1, <1>3, <2>1, <2>2
       DEF SessionStep, StartReplay, LoadFails, Settle, Forget, CancelReplay
<1>4. ASSUME NEW f \in Events, EventStep(r, f) PROVE e \in republished'[r]
  <2>1. ASSUME NEW result \in Result, Finish(r, f, result),
               result = "succeeded" => step[r][f] = "marking"
        PROVE e \in republished'[r]
    BY <1>0, <1>1, <2>1, FinishSteps DEF Result
  <2>2. CASE Publish(r, f) \/ ArrivesLate(r, f)
    BY <1>0, <1>1, <2>2 DEF Publish, ArrivesLate, Move, TypeOK
  <2>3. CASE PublishSucceeds(r, f)
    BY <1>0, <1>1, <2>3 DEF PublishSucceeds, Move, Sent, TypeOK
  <2>4. CASE SkipCancelled(r, f)
    BY <2>1, <2>4 DEF SkipCancelled, Result
  <2>5. CASE PublishFails(r, f)
    BY <2>1, <2>5 DEF PublishFails, Result
  <2>6. CASE MarkSucceeds(r, f)
    BY <2>1, <2>6 DEF MarkSucceeds, Result
  <2>7. CASE MarkFails(r, f)
    BY <2>1, <2>7 DEF MarkFails, Result
  <2> QED
    BY <1>4, <2>2, <2>3, <2>4, <2>5, <2>6, <2>7 DEF EventStep
<1>5. CASE Crash
  BY <1>1, <1>5 DEF Crash
<1> QED
  BY <1>0, <1>2, <1>3, <1>4, <1>5, SessionSteps

\* The sessions whose messages the count of a row may stand for.
Counted(e) == {r \in Replays : step[r][e] \in Result /\ e \in republished[r]}

RowsEarned ==
    \A e \in Events :
        /\ row[e].lastReplay # None => e \in republished[row[e].lastReplay]
        /\ row[e].replayedCount <= Cardinality(Counted(e))

LEMMA CountOfReplays ==
    ASSUME NEW S \in SUBSET Replays
    PROVE IsFiniteSet(S) /\ Cardinality(S) \in Nat
BY ReplayAssumption, FS_Subset, FS_CardinalityType

LEMMA CountedGrows ==
    ASSUME SessionInv, [Next]_vars, NEW e \in Events
    PROVE /\ Counted(e) \subseteq Counted(e)'
          /\ Cardinality(Counted(e)) <= Cardinality(Counted(e)')
          /\ \A r \in Counted(e)' \ Counted(e) :
                Cardinality(Counted(e)) + 1 <= Cardinality(Counted(e)')
<1>0. TypeOK
  BY DEF SessionInv
<1>1. \A r \in Counted(e) : r \in Counted(e)'
  BY <1>0, ResultsStay, RepublishedGrows DEF Counted
<1>2. /\ Counted(e) \in SUBSET Replays /\ Counted(e)' \in SUBSET Replays
      /\ IsFiniteSet(Counted(e)) /\ IsFiniteSet(Counted(e)')
      /\ Cardinality(Counted(e)) \in Nat /\ Cardinality(Counted(e)') \in Nat
  <2>1. Counted(e) \in SUBSET Replays /\ Counted(e)' \in SUBSET Replays
    BY DEF Counted
  <2> QED
    BY <2>1, CountOfReplays
<1>3. ASSUME NEW r \in Counted(e)' \ Counted(e)
      PROVE Cardinality(Counted(e)) + 1 <= Cardinality(Counted(e)')
  <2>1. Cardinality(Counted(e) \cup {r}) = Cardinality(Counted(e)) + 1
    BY <1>2, FS_AddElement
  <2>2. Counted(e) \cup {r} \subseteq Counted(e)'
    BY <1>1
  <2>3. Cardinality(Counted(e) \cup {r}) <= Cardinality(Counted(e)')
    BY <1>2, <2>2, FS_Subset
  <2> QED
    BY <2>1, <2>3
<1>4. Cardinality(Counted(e)) <= Cardinality(Counted(e)')
  BY <1>1, <1>2, FS_Subset
<1> QED
  BY <1>1, <1>3, <1>4

LEMMA RowsEarnedStep ==
    ASSUME SessionInv, Earned, RowsEarned, [Next]_vars
    PROVE RowsEarned'
<1> SUFFICES ASSUME NEW e \in Events
             PROVE /\ row'[e].lastReplay # None => e \in republished'[row'[e].lastReplay]
                   /\ row'[e].replayedCount <= Cardinality(Counted(e)')
  BY DEF RowsEarned
<1>0. /\ TypeOK
      /\ row[e].replayedCount \in Nat /\ row[e].lastReplay \in Replays \cup {None}
      /\ Cardinality(Counted(e)) \in Nat /\ Cardinality(Counted(e)') \in Nat
      /\ Cardinality(Counted(e)) <= Cardinality(Counted(e)')
      /\ row[e].lastReplay # None => e \in republished[row[e].lastReplay]
      /\ row[e].replayedCount <= Cardinality(Counted(e))
  <2>1. TypeOK
    BY DEF SessionInv
  <2>2. row[e].replayedCount \in Nat /\ row[e].lastReplay \in Replays \cup {None}
    BY <2>1 DEF TypeOK, Row
  <2>3. Counted(e) \in SUBSET Replays /\ Counted(e)' \in SUBSET Replays
    BY DEF Counted
  <2>4. Cardinality(Counted(e)) \in Nat /\ Cardinality(Counted(e)') \in Nat
    BY <2>3, CountOfReplays
  <2> QED
    BY <2>1, <2>2, <2>4, CountedGrows DEF RowsEarned
<1>1. \A r \in Replays : republished[r] \subseteq republished'[r]
  BY <1>0, RepublishedGrows
\* A row that keeps its columns, or loses them.
<1>2. ASSUME row'[e].lastReplay = row[e].lastReplay,
             row'[e].replayedCount = row[e].replayedCount
      PROVE /\ row'[e].lastReplay # None => e \in republished'[row'[e].lastReplay]
            /\ row'[e].replayedCount <= Cardinality(Counted(e)')
  BY <1>0, <1>1, <1>2
\* A row that is marked.
<1>3. ASSUME NEW r \in Replays, NEW f \in Events, row' = Marked(r, f),
             step[r][f] = "marking", step'[r][f] \in Result
      PROVE /\ row'[e].lastReplay # None => e \in republished'[row'[e].lastReplay]
            /\ row'[e].replayedCount <= Cardinality(Counted(e)')
  <2>1. CASE row'[e] = row[e]
    BY <1>2, <2>1
  <2>2. CASE row'[e] # row[e]
    <3>1. /\ f = e /\ row'[e].lastReplay = r
          /\ row'[e].replayedCount = row[e].replayedCount + 1
      BY <1>0, <1>3, <2>2, MarkedType
    <3>2. e \in republished[r] /\ e \in republished'[r]
      BY <1>1, <1>3, <3>1 DEF Earned
    <3>3. r \in Counted(e)' \ Counted(e)
      BY <1>3, <3>1, <3>2 DEF Counted, Result
    <3>4. Cardinality(Counted(e)) + 1 <= Cardinality(Counted(e)')
      BY <3>3, CountedGrows
    <3> QED
      BY <1>0, <3>1, <3>2, <3>4
  <2> QED
    BY <2>1, <2>2
<1>4. ASSUME UNCHANGED row
      PROVE /\ row'[e].lastReplay # None => e \in republished'[row'[e].lastReplay]
            /\ row'[e].replayedCount <= Cardinality(Counted(e)')
  BY <1>2, <1>4
<1>5. CASE \E r \in Replays : SessionStep(r)
  BY <1>4, <1>5 DEF SessionStep, StartReplay, Load, LoadFails, Begin, Settle, Forget,
        CancelReplay
<1>6. ASSUME NEW r \in Replays, NEW f \in Events, EventStep(r, f)
      PROVE /\ row'[e].lastReplay # None => e \in republished'[row'[e].lastReplay]
            /\ row'[e].replayedCount <= Cardinality(Counted(e)')
  <2>1. ASSUME NEW result \in Result, Finish(r, f, result), step[r][f] = "marking"
        PROVE step'[r][f] \in Result
    BY <1>0, <2>1, FinishSteps DEF Waiting, In
  <2>2. CASE MarkSucceeds(r, f)
    BY <1>3, <2>1, <2>2 DEF MarkSucceeds, Result
  <2>3. CASE MarkFails(r, f)
    BY <1>3, <1>4, <2>1, <2>3 DEF MarkFails, Result
  <2>4. CASE ArrivesLate(r, f)
    <3>1. step'[r][f] \in Result
      BY <1>0, <2>4 DEF ArrivesLate, TypeOK, Result
    <3> QED
      BY <1>3, <1>4, <2>4, <3>1 DEF ArrivesLate
  <2>5. CASE SkipCancelled(r, f) \/ Publish(r, f) \/ PublishSucceeds(r, f)
             \/ PublishFails(r, f)
    BY <1>4, <2>5 DEF SkipCancelled, Publish, PublishSucceeds, PublishFails, Move
  <2> QED
    BY <1>6, <2>2, <2>3, <2>4, <2>5 DEF EventStep
<1>7. CASE \E f \in Events : Cleanup(f)
  <2>1. PICK f \in Events : row' = [row EXCEPT ![f].exists = FALSE]
    BY <1>7 DEF Cleanup
  <2>2. /\ row'[e].lastReplay = row[e].lastReplay
        /\ row'[e].replayedCount = row[e].replayedCount
    BY <1>0, <2>1 DEF TypeOK, Row
  <2> QED
    BY <1>2, <2>2
<1>8. CASE \E f \in Events : CleanupMetadata(f)
  <2>1. PICK f \in Events :
            row' = [row EXCEPT ![f].lastReplay = None, ![f].replayedCount = 0]
    BY <1>8 DEF CleanupMetadata
  <2>2. CASE f = e
    <3>1. row'[e].lastReplay = None /\ row'[e].replayedCount = 0
      BY <1>0, <2>1, <2>2 DEF TypeOK, Row
    <3> QED
      BY <1>0, <3>1
  <2>3. CASE f # e
    <3>1. row'[e] = row[e]
      BY <1>0, <2>1, <2>3 DEF TypeOK
    <3> QED
      BY <1>2, <3>1
  <2> QED
    BY <2>2, <2>3
<1>9. CASE Crash \/ UNCHANGED vars
  BY <1>4, <1>9 DEF Crash, vars
<1> QED
  BY <1>5, <1>6, <1>7, <1>8, <1>9, NextSteps

\* A session reported completed has sent and counted its whole batch.
Complete(r) == status[r] = "completed" =>
    /\ Batch(r) \subseteq republished[r]
    /\ counts[r].success = Cardinality(Batch(r))

LEMMA CompleteStep ==
    ASSUME SessionInv, Earned, NEW r \in Replays, Complete(r), [Next]_vars
    PROVE Complete(r)'
<1>0. TypeOK /\ Shape(r)
  BY DEF SessionInv
<1>1. ASSUME step'[r] = step[r], counts'[r] = counts[r],
             status'[r] = "completed" => status[r] = "completed"
      PROVE Complete(r)'
  <2>1. Batch(r)' = Batch(r)
    BY <1>1 DEF Batch, In
  <2>2. republished[r] \subseteq republished'[r]
    BY <1>0, RepublishedGrows
  <2> QED
    BY <1>1, <2>1, <2>2 DEF Complete
<1>2. CASE Same(r)
  BY <1>1, <1>2 DEF Same
<1>3. CASE StartReplay(r) \/ LoadFails(r) \/ Forget(r) \/ CancelReplay(r)
  BY <1>0, <1>1, <1>3 DEF StartReplay, LoadFails, Forget, CancelReplay, TypeOK
<1>4. CASE Load(r)
  <2>1. PICK batch \in SUBSET Events :
          /\ step' = [step EXCEPT ![r] = [e \in Events |->
                          IF e \in batch THEN "loaded" ELSE "none"]]
          /\ batch # {} => UNCHANGED status
    BY <1>4 DEF Load
  <2>2. CASE batch = {}
    <3>1. \A e \in Events : step'[r][e] = "none"
      BY <1>0, <2>1, <2>2 DEF TypeOK
    <3>2. Batch(r)' = {}
      BY <3>1 DEF Batch, In
    <3>3. counts'[r].success = 0
      BY <1>0, <1>4 DEF Load, Shape
    <3> QED
      BY <3>2, <3>3, FS_EmptySet DEF Complete
  <2>3. CASE batch # {}
    BY <1>0, <1>4, <2>1, <2>3 DEF Load, Shape, Complete
  <2> QED
    BY <2>2, <2>3
<1>5. CASE Begin(r)
  BY <1>0, <1>5 DEF Begin, TypeOK, Complete
<1>6. CASE Settle(r)
  <2> SUFFICES ASSUME status'[r] = "completed" PROVE Complete(r)'
    BY DEF Complete
  <2>1. Outcome(r) = "completed"
    BY <1>0, <1>6 DEF Settle, TypeOK
  <2>2. status[r] \in {"pending", "in_progress"} /\ In(r, {"failed"}) = {}
    BY <1>0, <1>6, <2>1 DEF Outcome, Shape, Settle
  <2>3. Batch(r) = In(r, {"succeeded"})
    BY <1>0, <1>6, <2>2 DEF Settle, Ended, Shape, In, Result
  <2>4. Batch(r)' = Batch(r)
    BY <1>6 DEF Settle, Batch, In
  <2>5. Batch(r) \subseteq republished[r] /\ republished' = republished
    BY <1>6, <2>3 DEF Settle, Earned, In
  <2>6. counts'[r].success = Cardinality(In(r, {"succeeded"}))
    BY <1>0, <1>6 DEF Settle, TypeOK
  <2> QED
    BY <2>3, <2>4, <2>5, <2>6 DEF Complete
<1>7. CASE \E e \in Events : EventStep(r, e)
  <2>1. status' = status /\ task[r] \in {"processing", "dead"}
    BY <1>0, <1>7, EventSession
  <2> QED
    BY <1>0, <2>1 DEF Shape, Complete
<1>8. CASE Crash
  BY <1>0, <1>8, CrashSession DEF Complete
<1> QED
  BY <1>0, <1>2, <1>3, <1>4, <1>5, <1>6, <1>7, <1>8, SessionSteps DEF SessionStep

ResultInv == Earned /\ RowsEarned /\ CompletedIsComplete

LEMMA ResultInvariant == Spec => []ResultInv
<1>0. CompletedIsComplete <=> \A r \in Replays : Complete(r)
  BY DEF CompletedIsComplete, Complete
<1>1. Init => ResultInv
  <2> SUFFICES ASSUME Init PROVE ResultInv
    OBVIOUS
  <2>1. Earned /\ CompletedIsComplete
    BY <1>0 DEF Init, Earned, Complete
  <2>2. ASSUME NEW e \in Events PROVE 0 <= Cardinality(Counted(e))
    <3>1. Cardinality(Counted(e)) \in Nat
      BY CountOfReplays DEF Counted
    <3> QED
      BY <3>1
  <2>3. RowsEarned
    BY <2>2 DEF Init, RowsEarned
  <2> QED
    BY <2>1, <2>3 DEF ResultInv
<1>2. SessionInv /\ ResultInv /\ [Next]_vars => ResultInv'
  <2> SUFFICES ASSUME SessionInv, ResultInv, [Next]_vars PROVE ResultInv'
    OBVIOUS
  <2>1. CompletedIsComplete'
    BY <1>0, CompleteStep DEF ResultInv, CompletedIsComplete, Complete
  <2> QED
    BY <2>1, EarnedStep, RowsEarnedStep DEF ResultInv
<1> QED
  BY <1>1, <1>2, SessionInvariant, PTL DEF Spec

\* No replay column of a row claims a replay that sent nothing ("Only mark as
\* replayed after successful publish", line 632), whatever fails or dies and
\* however many sessions replay the event at the same time.
THEOREM ReplayMarksEarned == Spec => []MarksAreEarned
<1>1. ASSUME RowsEarned, NEW e \in Events
      PROVE row[e].replayedCount <= Cardinality({r \in Replays : e \in republished[r]})
                \/ row[e].replayedCount \notin Nat
  <2> DEFINE All == {r \in Replays : e \in republished[r]}
  <2>1. Counted(e) \subseteq All /\ All \in SUBSET Replays /\ Counted(e) \in SUBSET Replays
    BY DEF Counted
  <2>2. /\ Cardinality(Counted(e)) \in Nat /\ Cardinality(All) \in Nat /\ IsFiniteSet(All)
    BY <2>1, CountOfReplays
  <2>3. Cardinality(Counted(e)) <= Cardinality(All)
    BY <2>1, <2>2, FS_Subset
  <2>4. row[e].replayedCount <= Cardinality(Counted(e))
    BY <1>1 DEF RowsEarned
  <2> QED
    BY <2>2, <2>3, <2>4
<1>2. SessionInv => \A e \in Events : row[e].replayedCount \in Nat
  BY DEF SessionInv, TypeOK, Row
<1>3. SessionInv /\ ResultInv => MarksAreEarned
  BY <1>1, <1>2 DEF MarksAreEarned, RowsEarned, ResultInv
<1> QED
  BY <1>3, SessionInvariant, ResultInvariant, PTL

\* COMPLETED is complete: no failed or skipped event hides in it (lines 383-408).
THEOREM CompletedSessions == Spec => []CompletedIsComplete
<1>1. ResultInv => CompletedIsComplete
  BY DEF ResultInv
<1> QED
  BY <1>1, ResultInvariant, PTL

\* A completed or failed session keeps its status until it is deleted: nothing
\* cancels or restarts it (cancelReplay, line 480).
THEOREM ResultsAreFinal == Spec => ResultIsFinal
<1>1. SessionInv /\ [Next]_vars =>
        [\A r \in Replays : status[r] \in {"completed", "failed"} =>
            status'[r] \in {status[r], "gone"}]_vars
  <2> SUFFICES ASSUME SessionInv, [Next]_vars, NEW r \in Replays,
                      status[r] \in {"completed", "failed"}
               PROVE status'[r] \in {status[r], "gone"}
    OBVIOUS
  <2>0. TypeOK /\ task[r] \in {"settled", "ended"}
    BY DEF SessionInv, Shape
  <2>1. CASE Same(r)
    BY <2>1 DEF Same
  <2>2. CASE SessionStep(r)
    BY <2>0, <2>2 DEF SessionStep, StartReplay, Load, LoadFails, Begin, Settle, Forget,
          CancelReplay, TypeOK
  <2>3. CASE \E e \in Events : EventStep(r, e)
    BY <2>0, <2>3, EventSession
  <2>4. CASE Crash
    BY <2>0, <2>4, CrashSession
  <2> QED
    BY <2>0, <2>1, <2>2, <2>3, <2>4, SessionSteps
<1> QED
  BY <1>1, SessionInvariant, PTL DEF Spec, ResultIsFinal

-----------------------------------------------------------------------------
(* Cancellation *)

\* What a session has sent, or may have sent without knowing.
Outgoing(r) == republished[r] \cup In(r, {"publishing"})

CancelInv ==
    \A r \in Replays : status[r] = "cancelled" =>
        Cardinality(Outgoing(r)) <= sentAtCancel[r] + MaxParallel

LEMMA OutgoingShrinks ==
    ASSUME SessionInv, [Next]_vars, NEW r \in Replays,
           status[r] = "cancelled", status'[r] = "cancelled"
    PROVE Outgoing(r)' \subseteq Outgoing(r) /\ sentAtCancel'[r] = sentAtCancel[r]
<1>0. TypeOK /\ Shape(r)
  BY DEF SessionInv
<1>1. republished'[r] \subseteq Outgoing(r)
  <2>1. republished'[r] \in SUBSET Events
    BY <1>0, OtherTypesStep DEF OtherTypes
  <2> QED
    BY <1>0, <2>1, RepublishedGrows DEF Outgoing, In
<1>2. SUFFICES /\ sentAtCancel'[r] = sentAtCancel[r]
               /\ \A e \in Events : step'[r][e] = "publishing" => step[r][e] = "publishing"
  BY <1>1 DEF Outgoing, In
<1>3. CASE Same(r)
  BY <1>3 DEF Same
<1>4. CASE SessionStep(r)
  BY <1>0, <1>4 DEF SessionStep, StartReplay, Load, LoadFails, Begin, Settle, Forget,
        CancelReplay, TypeOK
<1>5. ASSUME NEW f \in Events, EventStep(r, f)
      PROVE /\ sentAtCancel'[r] = sentAtCancel[r]
            /\ \A e \in Events : step'[r][e] = "publishing" => step[r][e] = "publishing"
  <2>1. sentAtCancel' = sentAtCancel
    BY <1>0, <1>5, EventSession
  <2>2. ASSUME NEW result \in Result, Finish(r, f, result)
        PROVE \A e \in Events : step'[r][e] = "publishing" => step[r][e] = "publishing"
    BY <1>0, <2>2, FinishSteps DEF Result
  <2>3. CASE PublishSucceeds(r, f) \/ ArrivesLate(r, f)
    BY <1>0, <2>1, <2>3 DEF PublishSucceeds, ArrivesLate, Move, TypeOK
  <2>4. CASE SkipCancelled(r, f)
    BY <2>1, <2>2, <2>4 DEF SkipCancelled, Result
  <2>5. CASE PublishFails(r, f)
    BY <2>1, <2>2, <2>5 DEF PublishFails, Result
  <2>6. CASE MarkSucceeds(r, f)
    BY <2>1, <2>2, <2>6 DEF MarkSucceeds, Result
  <2>7. CASE MarkFails(r, f)
    BY <2>1, <2>2, <2>7 DEF MarkFails, Result
  <2> QED
    BY <1>5, <2>3, <2>4, <2>5, <2>6, <2>7 DEF EventStep, Publish
<1>6. CASE Crash
  BY <1>6 DEF Crash
<1> QED
  BY <1>0, <1>3, <1>4, <1>5, <1>6, SessionSteps

LEMMA CancelInvStep ==
    ASSUME SessionInv, CancelInv, [Next]_vars
    PROVE CancelInv'
<1> SUFFICES ASSUME NEW r \in Replays, status'[r] = "cancelled"
             PROVE Cardinality(Outgoing(r)') <= sentAtCancel'[r] + MaxParallel
  BY DEF CancelInv
<1>0. /\ TypeOK /\ Shape(r) /\ Slots(r) /\ MaxParallel \in Nat
      /\ sentAtCancel[r] \in Nat
      /\ IsFiniteSet(Outgoing(r)) /\ Cardinality(Outgoing(r)) \in Nat
  <2>1. TypeOK /\ Shape(r) /\ Slots(r) /\ MaxParallel \in Nat
    BY ReplayAssumption DEF SessionInv
  <2>2. Outgoing(r) \in SUBSET Events /\ sentAtCancel[r] \in Nat
    BY <2>1 DEF Outgoing, In, TypeOK
  <2> QED
    BY <2>1, <2>2, CountOfEvents
<1>1. CASE status[r] = "cancelled"
  <2>1. Outgoing(r)' \subseteq Outgoing(r) /\ sentAtCancel'[r] = sentAtCancel[r]
    BY <1>1, OutgoingShrinks
  <2>2. /\ Cardinality(Outgoing(r)') <= Cardinality(Outgoing(r))
        /\ Cardinality(Outgoing(r)') \in Nat
    BY <1>0, <2>1, FS_Subset, FS_CardinalityType
  <2>3. Cardinality(Outgoing(r)) <= sentAtCancel[r] + MaxParallel
    BY <1>1 DEF CancelInv
  <2> QED
    BY <1>0, <2>1, <2>2, <2>3
<1>2. CASE status[r] # "cancelled"
  <2>1. CancelReplay(r)
    <3>1. ~Same(r) /\ ~Crash
      BY <1>0, <1>2, CrashSession DEF Same
    <3>2. ~(\E e \in Events : EventStep(r, e))
      BY <1>0, <1>2, EventSession
    <3>3. ~StartReplay(r) /\ ~Load(r) /\ ~LoadFails(r) /\ ~Begin(r) /\ ~Forget(r)
      BY <1>0, <1>2 DEF StartReplay, Load, LoadFails, Begin, Forget, TypeOK
    <3>4. ~Settle(r)
      BY <1>0, <1>2 DEF Settle, Outcome, TypeOK
    <3> QED
      BY <1>0, <3>1, <3>2, <3>3, <3>4, SessionSteps DEF SessionStep
  <2>2. /\ Outgoing(r)' = Outgoing(r) /\ task[r] # "dead"
        /\ sentAtCancel'[r] = Cardinality(republished[r])
    BY <1>0, <2>1 DEF CancelReplay, Outgoing, In, Shape, TypeOK
  <2> DEFINE P == In(r, {"publishing"})
  <2>3. /\ P \in SUBSET Events /\ In(r, Holding) \in SUBSET Events
        /\ P \subseteq In(r, Holding) /\ republished[r] \in SUBSET Events
    BY <1>0 DEF In, Holding, TypeOK
  <2>4. /\ IsFiniteSet(P) /\ IsFiniteSet(republished[r]) /\ IsFiniteSet(In(r, Holding))
        /\ Cardinality(P) \in Nat /\ Cardinality(republished[r]) \in Nat
        /\ Cardinality(In(r, Holding)) \in Nat
        /\ Cardinality(republished[r] \cap P) \in Nat
    BY <2>3, CountOfEvents
  <2>5. Cardinality(P) <= Cardinality(In(r, Holding))
    BY <2>3, <2>4, FS_Subset
  <2>6. Cardinality(In(r, Holding)) <= MaxParallel
    BY <1>0, <2>2, <2>4 DEF Slots, TypeOK
  <2>7. Cardinality(Outgoing(r)) =
            Cardinality(republished[r]) + Cardinality(P)
                - Cardinality(republished[r] \cap P)
    BY <2>4, FS_Union DEF Outgoing
  <2> HIDE DEF P
  <2> QED
    BY <1>0, <2>2, <2>4, <2>5, <2>6, <2>7
<1> QED
  BY <1>1, <1>2

\* A cancelled session sends no more than what was in flight when it was
\* cancelled, at most one message per slot (lines 590-594 and 91-133).
THEOREM CancellationStopsSoon == Spec => []CancelStopsSoon
<1>1. Init => CancelInv
  BY DEF Init, CancelInv
<1>2. SessionInv /\ CancelInv => CancelStopsSoon
  <2> SUFFICES ASSUME SessionInv, CancelInv, NEW r \in Replays, status[r] = "cancelled"
               PROVE Cardinality(republished[r]) <= sentAtCancel[r] + MaxParallel
    BY DEF CancelStopsSoon
  <2>1. /\ TypeOK /\ sentAtCancel[r] \in Nat /\ MaxParallel \in Nat
        /\ Cardinality(Outgoing(r)) <= sentAtCancel[r] + MaxParallel
    BY ReplayAssumption DEF SessionInv, CancelInv, TypeOK
  <2>2. /\ Outgoing(r) \in SUBSET Events /\ republished[r] \in SUBSET Events
        /\ republished[r] \subseteq Outgoing(r)
    BY <2>1 DEF Outgoing, In, TypeOK
  <2>3. /\ Cardinality(republished[r]) \in Nat /\ Cardinality(Outgoing(r)) \in Nat
        /\ Cardinality(republished[r]) <= Cardinality(Outgoing(r))
    BY <2>2, CountOfEvents, FS_Subset
  <2> QED
    BY <2>1, <2>3
<1>3. SessionInv /\ CancelInv /\ [Next]_vars => CancelInv'
  BY CancelInvStep
<1> QED
  BY <1>1, <1>2, <1>3, SessionInvariant, PTL DEF Spec
-----------------------------------------------------------------------------
(* The refinement *)

\* How the task and the status of a session go together.
Phase(r) ==
    /\ task[r] = "none" => status[r] = "none"
    /\ task[r] = "loading" => status[r] = "pending"
    /\ task[r] = "scheduled" => status[r] \in {"pending", "cancelled"}
    /\ task[r] = "processing" => status[r] \in {"in_progress", "cancelled"}
    /\ task[r] = "settled" => /\ status[r] \in {"completed", "failed", "cancelled"}
                              /\ \A e \in Events : step[r][e] \notin Holding
    /\ task[r] = "ended" => status[r] \in {"completed", "failed", "gone"}

RecordInv == SessionInv /\ Earned /\ \A r \in Replays : Phase(r)

LEMMA PhaseStep ==
    ASSUME SessionInv, NEW r \in Replays, Phase(r), [Next]_vars
    PROVE Phase(r)'
<1>0. TypeOK /\ Shape(r)
  BY DEF SessionInv
<1>1. CASE Same(r)
  BY <1>1 DEF Same, Phase
<1>2. CASE StartReplay(r) \/ Load(r) \/ LoadFails(r) \/ Begin(r) \/ CancelReplay(r)
  BY <1>0, <1>2 DEF StartReplay, Load, LoadFails, Begin, CancelReplay, Phase, TypeOK
<1>3. CASE Settle(r)
  <2>1. status'[r] = Outcome(r) /\ task'[r] = "settled" /\ step' = step
    BY <1>0, <1>3 DEF Settle, TypeOK
  <2>2. Outcome(r) \in {"completed", "failed", "cancelled"}
    BY <1>3 DEF Settle, Outcome, Phase
  <2>3. \A e \in Events : step[r][e] \notin Holding
    BY <1>0, <1>3 DEF Settle, Ended, Batch, In, Holding, Result, Step, TypeOK
  <2> QED
    BY <2>1, <2>2, <2>3 DEF Phase
<1>4. CASE Forget(r)
  BY <1>0, <1>4 DEF Forget, Phase, TypeOK
<1>5. CASE \E e \in Events : EventStep(r, e)
  <2>1. UNCHANGED <<status, task>> /\ task[r] \in {"processing", "dead"}
    BY <1>0, <1>5, EventSession
  <2> QED
    BY <2>1 DEF Phase
<1>6. CASE Crash
  BY <1>0, <1>6, CrashSession DEF Phase
<1> QED
  BY <1>0, <1>1, <1>2, <1>3, <1>4, <1>5, <1>6, SessionSteps DEF SessionStep

LEMMA RecordInvariant == Spec => []RecordInv
<1>1. Init => \A r \in Replays : Phase(r)
  BY DEF Init, Phase
<1>2. SessionInv /\ (\A r \in Replays : Phase(r)) /\ [Next]_vars
        => (\A r \in Replays : Phase(r))'
  BY PhaseStep
<1>3. SessionInv /\ ResultInv /\ (\A r \in Replays : Phase(r)) => RecordInv
  BY DEF RecordInv, ResultInv
<1> QED
  BY <1>1, <1>2, <1>3, SessionInvariant, ResultInvariant, PTL DEF Spec

\* What has become of one event changes.
LEMMA FateOfOne ==
    ASSUME TypeOK, NEW r \in Replays, NEW e \in Events,
           \A q \in Replays \ {r} : step'[q] = step[q],
           \A f \in Events \ {e} : Fate(r, f)' = Fate(r, f)
    PROVE Fates' = [Fates EXCEPT ![r][e] = Fate(r, e)']
<1>1. \A q \in Replays \ {r} : \A f \in Events : Fate(q, f)' = Fate(q, f)
  BY DEF Fate
<1> QED
  BY <1>1, ZenonT(30) DEF Fates

LEMMA FatesStay ==
    ASSUME UNCHANGED step PROVE Fates' = Fates
BY DEF Fates, Fate

\* The waiter that is given the slot stays picked.
LEMMA FateOfFinish ==
    ASSUME TypeOK, NEW r \in Replays, NEW e \in Events, NEW result \in Result,
           step[r][e] \in Holding, Finish(r, e, result)
    PROVE Fates' = [Fates EXCEPT ![r][e] =
                      IF result = "skipped" THEN "picked" ELSE result]
<1>1. /\ \A q \in Replays \ {r} : step'[q] = step[q]
      /\ \A f \in Events :
            step'[r][f] = IF Waiting(r) # {} /\ f = NextWaiter(r) THEN "granted"
                          ELSE IF f = e THEN result ELSE step[r][f]
      /\ Waiting(r) # {} => NextWaiter(r) \in Waiting(r)
  BY FinishSteps
<1>2. Waiting(r) # {} => NextWaiter(r) # e /\ step[r][NextWaiter(r)] = "waiting"
  BY <1>1 DEF Waiting, In, Holding
<1>3. step'[r][e] = result
  BY <1>1, <1>2
<1>4. Fate(r, e)' = IF result = "skipped" THEN "picked" ELSE result
  BY <1>3 DEF Fate, Result
<1>5. ASSUME NEW f \in Events \ {e} PROVE Fate(r, f)' = Fate(r, f)
  <2>1. CASE step'[r][f] = step[r][f]
    BY <2>1 DEF Fate
  <2>2. CASE step'[r][f] = "granted" /\ step[r][f] = "waiting"
    BY <2>2 DEF Fate
  <2> QED
    BY <1>1, <1>2, <1>5, <2>1, <2>2
<1> QED
  BY <1>1, <1>4, <1>5, FateOfOne

LEMMA FateOfMove ==
    ASSUME TypeOK, NEW r \in Replays, NEW e \in Events, NEW s \in Step,
           step' = [step EXCEPT ![r][e] = s]
    PROVE Fates' = [Fates EXCEPT ![r][e] = Fate(r, e)'] /\ step'[r][e] = s
<1>1. step'[r][e] = s /\ \A q \in Replays \ {r} : step'[q] = step[q]
  BY DEF TypeOK
<1>2. \A f \in Events \ {e} : step'[r][f] = step[r][f]
  BY DEF TypeOK
<1>3. \A f \in Events \ {e} : Fate(r, f)' = Fate(r, f)
  BY <1>2 DEF Fate
<1> QED
  BY <1>1, <1>3, FateOfOne

LEMMA FatesThemselves ==
    ASSUME NEW r \in Replays, NEW e \in Events
    PROVE /\ Fates[r][e] = Fate(r, e)
          /\ Fates = [Fates EXCEPT ![r][e] = Fate(r, e)]
BY DEF Fates

\* Starting, loading, beginning, ending, forgetting and cancelling a session.
LEMMA SessionRecords ==
    ASSUME RecordInv, NEW r \in Replays, SessionStep(r)
    PROVE Record!Next \/ UNCHANGED Record!vars
<1>0. TypeOK /\ Shape(r) /\ Slots(r) /\ Phase(r)
  BY DEF RecordInv, SessionInv
<1>1. ASSUME \A e \in Events : step[r][e] = "none"
      PROVE Record!Fated(r, {"none"}) = Events
  BY <1>1 DEF Record!Fated, Fates, Fate
<1>2. CASE StartReplay(r)
  <2>1. Record!Start(r)
    BY <1>2, FatesStay DEF StartReplay, Record!Start, Record!Turn
  <2> QED
    BY <2>1 DEF Record!Next
<1>3. CASE Load(r)
  <2>1. PICK batch \in SUBSET {e \in Events : row[e].exists} :
          /\ step' = [step EXCEPT ![r] = [e \in Events |->
                          IF e \in batch THEN "loaded" ELSE "none"]]
          /\ IF batch = {}
             THEN status' = [status EXCEPT ![r] = "completed"]
             ELSE UNCHANGED status
    BY <1>3 DEF Load
  <2>2. /\ \A q \in Replays \ {r} : step'[q] = step[q]
        /\ \A e \in Events : step'[r][e] = IF e \in batch THEN "loaded" ELSE "none"
    BY <1>0, <2>1 DEF TypeOK
  <2>3. /\ \A q \in Replays \ {r} : \A e \in Events : Fate(q, e)' = Fate(q, e)
        /\ \A e \in Events : Fate(r, e)' = IF e \in batch THEN "picked" ELSE "none"
    BY <2>2 DEF Fate
  <2>4. Fates' = [Fates EXCEPT ![r] = [e \in Events |->
                      IF e \in batch THEN "picked" ELSE "none"]]
    BY <2>3 DEF Fates
  <2>5. status[r] = "pending" /\ Record!Fated(r, {"none"}) = Events
    BY <1>0, <1>1, <1>3 DEF Load, Phase, Shape
  <2>6. Record!Pick(r, batch)
    BY <1>3, <2>1, <2>4, <2>5 DEF Load, Record!Pick
  <2> QED
    BY <2>6 DEF Record!Next
<1>4. CASE LoadFails(r)
  <2>1. status[r] = "pending" /\ Record!Fated(r, {"none"}) = Events
    BY <1>0, <1>1, <1>4 DEF LoadFails, Phase, Shape
  <2>2. Record!Refuse(r)
    BY <1>4, <2>1, FatesStay DEF LoadFails, Record!Refuse, Record!Turn
  <2> QED
    BY <2>2 DEF Record!Next
<1>5. CASE Begin(r)
  <2>1. task[r] = "scheduled" /\ status[r] \in {"pending", "cancelled"}
        /\ \A e \in Events : step[r][e] \in {"none", "loaded"}
    BY <1>0, <1>5 DEF Begin, Phase, Shape
  <2>2. Record!Fated(r, {"none", "picked"}) = Events
    BY <2>1 DEF Record!Fated, Fates, Fate
  <2>3. /\ \A q \in Replays \ {r} : step'[q] = step[q]
        /\ \A e \in Events : step'[r][e] =
              IF e \in Batch(r)
              THEN IF e \in FirstSlots(Batch(r)) THEN "granted" ELSE "waiting"
              ELSE "none"
    <3>1. ~HasError(r) /\ FirstSlots(Batch(r)) \subseteq Batch(r)
      BY <2>1 DEF HasError, In, FirstSlots
    <3> QED
      BY <1>0, <1>5, <3>1 DEF Begin, TypeOK
  <2>4. \A e \in Events : e \in Batch(r) <=> step[r][e] = "loaded"
    BY <2>1 DEF Batch, In, Step
  <2>5. \A e \in Events : Fate(r, e)' = Fate(r, e)
    BY <2>1, <2>3, <2>4 DEF Fate
  <2>6. \A q \in Replays \ {r} : \A e \in Events : Fate(q, e)' = Fate(q, e)
    BY <2>3 DEF Fate
  <2>7. Fates' = Fates
    BY <2>5, <2>6 DEF Fates
  <2>8. Record!Begin(r)
    BY <1>5, <2>1, <2>2, <2>7 DEF Begin, Record!Begin, Record!Turn
  <2> QED
    BY <2>8 DEF Record!Next
<1>6. CASE Settle(r)
  <2>1. /\ step' = step /\ Fates' = Fates
        /\ status' = [status EXCEPT ![r] = Outcome(r)]
        /\ UNCHANGED <<republished, row>>
        /\ task[r] = "processing" /\ status[r] \in {"in_progress", "cancelled"}
    BY <1>0, <1>6, FatesStay DEF Settle, Phase
  <2>2. CASE status[r] = "cancelled"
    BY <1>0, <2>1, <2>2 DEF Outcome, Record!vars, TypeOK
  <2>3. CASE status[r] = "in_progress"
    <3>1. \A e \in Events : step[r][e] \in {"none", "succeeded", "failed"}
      BY <1>0, <1>6, <2>3 DEF Settle, Ended, Batch, In, Result, Step, Shape, TypeOK
    <3>2. Record!Fated(r, {"none", "succeeded", "failed"}) = Events
      BY <3>1 DEF Record!Fated, Fates, Fate
    <3>3. Record!Fated(r, {"failed"}) = In(r, {"failed"})
      BY <3>1 DEF Record!Fated, Fates, Fate, In
    <3>4. Record!Conclude(r)
      BY <2>1, <2>3, <3>2, <3>3 DEF Outcome, Record!Conclude, Record!Turn
    <3> QED
      BY <3>4 DEF Record!Next
  <2> QED
    BY <2>1, <2>2, <2>3
<1>7. CASE Forget(r)
  <2>1. /\ status[r] \in {"completed", "failed", "cancelled"}
        /\ \A e \in Events : step[r][e] \notin Holding
    BY <1>0, <1>7 DEF Forget, Phase
  <2>2. Record!Fated(r, {"flying"}) = {}
    BY <2>1 DEF Record!Fated, Fates, Fate, Holding
  <2>3. Record!Forget(r)
    BY <1>7, <2>1, <2>2, FatesStay DEF Forget, Record!Forget, Record!Turn
  <2> QED
    BY <2>3 DEF Record!Next
<1>8. CASE CancelReplay(r)
  <2>1. Record!Cancel(r)
    BY <1>8, FatesStay DEF CancelReplay, Record!Cancel, Record!Turn
  <2> QED
    BY <2>1 DEF Record!Next
<1> QED
  BY <1>2, <1>3, <1>4, <1>5, <1>6, <1>7, <1>8 DEF SessionStep

LEMMA SameCardinality == \A S : Record!Cardinality(S) = Cardinality(S)
BY DEF Record!Cardinality, Cardinality

\* An event takes off, is sent and lands.
LEMMA EventRecords ==
    ASSUME RecordInv, NEW r \in Replays, NEW e \in Events, EventStep(r, e)
    PROVE Record!Next \/ UNCHANGED Record!vars
<1>0. /\ TypeOK /\ Shape(r) /\ Slots(r) /\ Phase(r) /\ Earned
      /\ UNCHANGED status /\ step[r][e] \in Holding
  <2>1. TypeOK /\ Shape(r) /\ Slots(r) /\ Phase(r) /\ Earned
    BY DEF RecordInv, SessionInv
  <2> QED
    BY <2>1, EventSession
<1>1. Fates[r][e] = Fate(r, e)
  BY FatesThemselves
<1>2. CASE SkipCancelled(r, e)
  <2>1. Finish(r, e, "skipped") /\ step[r][e] = "granted"
        /\ UNCHANGED <<republished, row>>
    BY <1>2 DEF SkipCancelled
  <2>2. Fates' = [Fates EXCEPT ![r][e] = "picked"] /\ Fate(r, e) = "picked"
    BY <1>0, <2>1, FateOfFinish DEF Result, Fate
  <2>3. Fates' = Fates
    BY <2>2, FatesThemselves
  <2> QED
    BY <1>0, <2>1, <2>3 DEF Record!vars
<1>3. CASE Publish(r, e)
  <2>1. /\ step' = [step EXCEPT ![r][e] = "publishing"] /\ step[r][e] = "granted"
        /\ task[r] = "processing" /\ status[r] # "cancelled"
        /\ UNCHANGED <<republished, row>>
    BY <1>3 DEF Publish, Move
  <2>2. Fates' = [Fates EXCEPT ![r][e] = "flying"]
    BY <1>0, <2>1, FateOfMove DEF Fate, Step
  <2>3. Cardinality(Record!Fated(r, {"flying"})) < MaxParallel
    <3> DEFINE H == In(r, Holding)
               F == Record!Fated(r, {"flying"})
    <3>1. H \in SUBSET Events /\ e \in H /\ F \subseteq H \ {e}
      BY <1>0, <2>1 DEF In, Holding, Record!Fated, Fates, Fate
    <3>2. IsFiniteSet(H) /\ Cardinality(H) \in Nat /\ IsFiniteSet(H \ {e})
          /\ Cardinality(H \ {e}) = Cardinality(H) - 1
      BY <3>1, CountOfEvents, FS_RemoveElement
    <3>3. Cardinality(F) \in Nat /\ Cardinality(F) <= Cardinality(H \ {e})
      BY <3>1, <3>2, FS_Subset, FS_CardinalityType
    <3>4. Cardinality(H) <= MaxParallel /\ MaxParallel \in Nat
      BY <1>0, <2>1, <3>2, ReplayAssumption DEF Slots, TypeOK
    <3> HIDE DEF H, F
    <3>5. Cardinality(F) < MaxParallel
      BY <3>2, <3>3, <3>4
    <3> QED
      BY <3>5 DEF F
  <2>4. status[r] = "in_progress" /\ Fates[r][e] = "picked"
    BY <1>0, <1>1, <2>1 DEF Phase, Fate
  <2>5. UNCHANGED <<status, republished, row>>
    BY <1>0, <2>1
  <2>6. Record!TakeOff(r, e)
    BY <2>2, <2>3, <2>4, <2>5, SameCardinality DEF Record!TakeOff
  <2> QED
    BY <2>6 DEF Record!Next
<1>4. CASE PublishSucceeds(r, e)
  <2>1. /\ step' = [step EXCEPT ![r][e] = "marking"] /\ step[r][e] = "publishing"
        /\ Sent(r, e) /\ UNCHANGED row
    BY <1>4 DEF PublishSucceeds, Move
  <2>2. Fates' = [Fates EXCEPT ![r][e] = "flying"] /\ Fate(r, e) = "flying"
    BY <1>0, <2>1, FateOfMove DEF Fate, Step
  <2>3. Fates' = Fates
    BY <2>2, FatesThemselves
  <2>4. Record!Send(r, e)
    BY <1>0, <1>1, <2>1, <2>2, <2>3 DEF Record!Send, Sent
  <2> QED
    BY <2>4 DEF Record!Next
<1>5. ASSUME step[r][e] = "marking", row' = Marked(r, e) PROVE Record!Mark(r, e)
  BY <1>5, <1>0 DEF Earned, Record!Mark, Marked
<1>6. CASE PublishFails(r, e)
  <2>1. /\ step[r][e] = "publishing" /\ Finish(r, e, "failed")
        /\ Sent(r, e) \/ UNCHANGED republished
        /\ UNCHANGED row
    BY <1>6 DEF PublishFails
  <2>2. Fates' = [Fates EXCEPT ![r][e] = "failed"] /\ Fates[r][e] = "flying"
    BY <1>0, <1>1, <2>1, FateOfFinish DEF Result, Fate
  <2>3. Record!Land(r, e)
    BY <1>0, <2>1, <2>2 DEF Record!Land, Sent
  <2> QED
    BY <2>3 DEF Record!Next
<1>7. CASE MarkSucceeds(r, e)
  <2>1. /\ step[r][e] = "marking" /\ Finish(r, e, "succeeded")
        /\ row' = Marked(r, e) /\ UNCHANGED republished
    BY <1>7 DEF MarkSucceeds
  <2>2. Fates' = [Fates EXCEPT ![r][e] = "succeeded"] /\ Fates[r][e] = "flying"
    BY <1>0, <1>1, <2>1, FateOfFinish DEF Result, Fate
  <2>3. Record!Land(r, e)
    BY <1>0, <1>5, <2>1, <2>2 DEF Record!Land
  <2> QED
    BY <2>3 DEF Record!Next
<1>8. CASE MarkFails(r, e)
  <2>1. /\ step[r][e] = "marking" /\ Finish(r, e, "failed")
        /\ row' = row \/ row' = Marked(r, e)
        /\ UNCHANGED republished
    BY <1>8 DEF MarkFails
  <2>2. Fates' = [Fates EXCEPT ![r][e] = "failed"] /\ Fates[r][e] = "flying"
    BY <1>0, <1>1, <2>1, FateOfFinish DEF Result, Fate
  <2>3. Record!Land(r, e)
    BY <1>0, <1>5, <2>1, <2>2 DEF Record!Land
  <2> QED
    BY <2>3 DEF Record!Next
<1>9. CASE ArrivesLate(r, e)
  <2>1. /\ step' = [step EXCEPT ![r][e] = "failed"]
        /\ \/ step[r][e] = "publishing" /\ Sent(r, e) /\ UNCHANGED row
           \/ /\ step[r][e] = "marking" /\ row' = Marked(r, e)
              /\ UNCHANGED republished
    BY <1>9 DEF ArrivesLate
  <2>2. Fates' = [Fates EXCEPT ![r][e] = Fate(r, e)'] /\ step'[r][e] = "failed"
    BY <1>0, <2>1, FateOfMove DEF Step
  <2>3. Fates[r][e] = "flying" /\ Fate(r, e)' = "failed"
    BY <1>1, <2>1, <2>2 DEF Fate
  <2>4. Fates' = [Fates EXCEPT ![r][e] = "failed"]
    BY <2>2, <2>3
  <2>5. Record!Land(r, e)
    BY <1>0, <1>5, <2>1, <2>3, <2>4 DEF Record!Land, Sent
  <2> QED
    BY <2>5 DEF Record!Next
<1> QED
  BY <1>2, <1>3, <1>4, <1>6, <1>7, <1>8, <1>9 DEF EventStep

\* Every step is a step of the record or leaves it as it is.
LEMMA RecordStep ==
    ASSUME RecordInv, [Next]_vars
    PROVE Record!Next \/ UNCHANGED Record!vars
<1>0. TypeOK /\ \A r \in Replays : Shape(r) /\ Phase(r)
  BY DEF RecordInv, SessionInv
<1>1. ASSUME NEW e \in Events, Cleanup(e) PROVE Record!Next
  <2>1. Record!Discard(e)
    BY <1>1, FatesStay DEF Cleanup, Record!Discard
  <2> QED
    BY <2>1 DEF Record!Next
<1>2. ASSUME NEW e \in Events, CleanupMetadata(e) PROVE Record!Next
  <2>1. row[e].lastReplay \in Replays
    BY <1>0, <1>2 DEF CleanupMetadata, TypeOK, Row
  <2>2. status[row[e].lastReplay] \in {"completed", "failed", "gone"}
    BY <1>0, <1>2, <2>1 DEF CleanupMetadata, Shape, Phase
  <2>3. Record!Unmark(e)
    BY <1>2, <2>2, FatesStay DEF CleanupMetadata, Record!Unmark
  <2> QED
    BY <2>3 DEF Record!Next
<1>3. CASE Crash
  <2>1. Record!Die
    BY <1>3, FatesStay DEF Crash, Record!Die
  <2> QED
    BY <2>1 DEF Record!Next
<1>4. CASE UNCHANGED vars
  BY <1>4, FatesStay DEF vars, Record!vars
<1> QED
  BY <1>1, <1>2, <1>3, <1>4, NextSteps, SessionRecords, EventRecords

\* The background tasks, with their slots, waits, cancellations and deaths,
\* change sessions, messages and rows only as ReplayRecord does
\* (processEventsBatch and processEventsBatchAsync).
THEOREM ReplayImplementsRecord == Spec => ImplementsReplayRecord
<1>1. Init => Record!Init
  BY DEF Init, Record!Init, Fates, Fate
<1>2. RecordInv /\ [Next]_vars => [Record!Next]_(Record!vars)
  BY RecordStep
<1> QED
  BY <1>1, <1>2, RecordInvariant, PTL DEF Spec, ImplementsReplayRecord, Record!Spec
=============================================================================
