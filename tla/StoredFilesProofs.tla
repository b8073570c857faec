-------------------------- MODULE StoredFilesProofs --------------------------
(***************************************************************************)
(* Theorems about StoredFiles, for any files, holders, requests, workers     *)
(* and plans.                                                               *)
(***************************************************************************)
EXTENDS StoredFiles, TLAPS

\* What a request is about, and what a worker has in hand, at each step.
RequestShape ==
    \A p \in Requests :
        /\ pc[p] \in {"putting", "marking", "undoing", "completing", "attaching",
                   "straying", "erasing"}
              => req[p].file \in Files
        /\ pc[p] \in {"attaching", "attached", "keeping", "dropping"} /\ req[p].file # None
              => req[p].holder \in Holders /\ req[p].file # req[p].old
        /\ pc[p] \in {"keeping", "dropping"} => req[p].old \in Files

ItemShape ==
    \A j \in Jobs :
        /\ item[j] = NoItem \/ item[j].file \in batch[j]
        /\ jpc[j] = "idle" => batch[j] = {}

TypeInv == TypeOK /\ RequestShape /\ ItemShape

-----------------------------------------------------------------------------
(* The helpers keep the types. *)

LEMMA PlanTyped ==
    ASSUME TypeOK
    PROVE plan.requests \in Nat /\ plan.faults \in Nat /\ plan.crashes \in Nat
BY StoredFilesAssumption DEF TypeOK, Plan

LEMMA FaultTyped ==
    ASSUME TypeOK, Fault
    PROVE faults' \in 0..plan.faults
BY PlanTyped DEF TypeOK, Fault

LEMMA BeginTyped ==
    ASSUME TypeOK, NEW p \in Requests, NEW s \in Steps, NEW r \in Request, Begin(p, s, r)
    PROVE /\ pc' \in [Requests -> Steps] /\ pc'[p] = s
          /\ req' \in [Requests -> Request] /\ req'[p] = r
          /\ requests' \in 0..plan.requests
          /\ \A q \in Requests : q # p => pc'[q] = pc[q] /\ req'[q] = req[q]
BY PlanTyped DEF TypeOK, Begin

LEMMA GotoTyped ==
    ASSUME TypeOK, NEW p \in Requests, NEW s \in Steps, Goto(p, s)
    PROVE /\ pc' \in [Requests -> Steps] /\ pc'[p] = s
          /\ \A q \in Requests : q # p => pc'[q] = pc[q]
          /\ req' = req /\ requests' = requests
BY DEF TypeOK, Goto

LEMMA EndTyped ==
    ASSUME TypeOK, NEW p \in Requests, End(p)
    PROVE /\ row' \in [Files -> Requests \cup {None}]
          /\ shared' \in [Files -> SUBSET Requests]
          /\ busy' \in [Holders -> Requests \cup {None}]
          /\ pc' \in [Requests -> Steps] /\ pc'[p] = "idle"
          /\ req' \in [Requests -> Request]
          /\ \A q \in Requests : q # p => pc'[q] = pc[q] /\ req'[q] = req[q]
          /\ requests' = requests
BY DEF TypeOK, End, Steps, NoRequest, About, Request

\* What the end of p's transaction leaves of the locks.
LEMMA EndReleases ==
    ASSUME TypeOK, NEW p \in Requests, End(p)
    PROVE \A f \in Files : /\ row'[f] = IF row[f] = p THEN None ELSE row[f]
                           /\ shared'[f] = shared[f] \ {p}
BY DEF TypeOK, End

\* What an upload keeps that goes on without its transaction.
LEMMA StrayTyped ==
    ASSUME TypeOK, NEW p \in Requests, NEW s \in StraySteps, Stray(p, s)
    PROVE /\ row' \in [Files -> Requests \cup {None}]
          /\ \A f \in Files : row'[f] = IF row[f] = p THEN None ELSE row[f]
          /\ UNCHANGED <<shared, busy, req, requests>>
          /\ pc' \in [Requests -> Steps] /\ pc'[p] = s
          /\ \A q \in Requests : q # p => pc'[q] = pc[q]
<1>1. s \in Steps
  BY DEF Steps, StraySteps
<1>2. /\ pc' \in [Requests -> Steps] /\ pc'[p] = s /\ UNCHANGED <<req, requests>>
      /\ \A q \in Requests : q # p => pc'[q] = pc[q]
  BY <1>1, GotoTyped DEF Stray
<1>3. /\ row' \in [Files -> Requests \cup {None}]
      /\ \A f \in Files : row'[f] = IF row[f] = p THEN None ELSE row[f]
      /\ UNCHANGED <<shared, busy>>
  BY DEF Stray, TypeOK
<1> QED
  BY <1>2, <1>3

LEMMA ComesLoose ==
    ASSUME TypeInv, NEW p \in Requests, MarkFails(p) \/ LoseConnection(p)
    PROVE /\ pc[p] \in {"putting", "marking", "undoing"} /\ req[p].file \in Files
          /\ \E s \in StraySteps : Stray(p, s)
          /\ faults' \in 0..plan.faults /\ crashes' \in 0..plan.crashes
          /\ UNCHANGED <<status, refs, object, age, jobLock, jpc, batch, item, bereft, plan>>
<1>1. TypeOK
  BY DEF TypeInv
<1>2. pc[p] \in {"putting", "marking", "undoing"} /\ \E s \in StraySteps : Stray(p, s)
  BY DEF MarkFails, LoseConnection, StraySteps
<1>3. req[p].file \in Files
  BY <1>2 DEF TypeInv, RequestShape
<1>4. faults' \in 0..plan.faults /\ crashes' \in 0..plan.crashes
  <2>1. CASE MarkFails(p)
    BY <1>1, <2>1, FaultTyped DEF MarkFails, TypeOK, bounds
  <2>2. CASE LoseConnection(p)
    BY <1>1, <2>2, PlanTyped DEF LoseConnection, TypeOK
  <2> QED
    BY <2>1, <2>2
<1>5. UNCHANGED <<status, refs, object, age, jobLock, jpc, batch, item, bereft, plan>>
  BY DEF MarkFails, LoseConnection, rows, work, bounds
<1> QED
  BY <1>2, <1>3, <1>4, <1>5

LEMMA StatusTyped ==
    ASSUME TypeOK, NEW f \in Files, NEW s \in Statuses, SetStatus(f, s)
    PROVE /\ status' \in [Files -> Statuses] /\ status'[f] = s
          /\ \A g \in Files : g # f => status'[g] = status[g]
BY DEF TypeOK, SetStatus

LEMMA ObjectTyped ==
    ASSUME TypeOK, NEW f \in Files, NEW o \in {"none", "right", "wrong"}, SetObject(f, o)
    PROVE /\ object' \in [Files -> {"none", "right", "wrong"}] /\ object'[f] = o
          /\ \A g \in Files : g # f => object'[g] = object[g]
BY DEF TypeOK, SetObject

Items == [file : Files \cup {None}, seen : {"none", "right", "wrong"}]

LEMMA ItemTyped ==
    ASSUME TypeOK, NEW j \in Jobs, NEW i \in Items, SetItem(j, i)
    PROVE /\ item' \in [Jobs -> Items] /\ item'[j] = i
          /\ \A k \in Jobs : k # j => item'[k] = item[k]
BY DEF TypeOK, SetItem, Items

LEMMA DoneTyped ==
    ASSUME TypeOK, NEW j \in Jobs, NEW f \in Files, Done(j, f)
    PROVE /\ item' \in [Jobs -> Items] /\ item'[j] = NoItem
          /\ batch' \in [Jobs -> SUBSET Files] /\ batch'[j] = batch[j] \ {f}
          /\ \A k \in Jobs : k # j => item'[k] = item[k] /\ batch'[k] = batch[k]
<1>1. NoItem \in Items
  BY DEF NoItem, Items
<1> QED
  BY <1>1, ItemTyped DEF Done, TypeOK

\* A reference that is new: the file is shared until the transaction ends.
LEMMA AttachWritten ==
    ASSUME TypeInv, NEW p \in Requests, AttachWrite(p),
           <<req[p].holder, req[p].file>> \notin refs
    PROVE /\ req[p].file \in Files /\ req[p].holder \in Holders /\ row[req[p].file] = None
          /\ shared' \in [Files -> SUBSET Requests]
          /\ shared' = [shared EXCEPT ![req[p].file] = @ \cup {p}]
          /\ busy' \in [Holders -> Requests \cup {None}]
          /\ pc' \in [Requests -> Steps] /\ pc'[p] = "attached"
          /\ req' \in [Requests -> Request]
          /\ req'[p].file = req[p].file /\ req'[p].holder = req[p].holder
          /\ req'[p].old # req[p].file
          /\ \A q \in Requests : q # p => pc'[q] = pc[q] /\ req'[q] = req[q]
          /\ UNCHANGED <<status, refs, row, requests>>
<1>1. req[p].file \in Files /\ req[p].holder \in Holders /\ row[req[p].file] = None
  BY StoredFilesAssumption
     DEF AttachWrite, TypeInv, RequestShape, Writable, TypeOK, Request
<1>2. /\ shared' = [shared EXCEPT ![req[p].file] = @ \cup {p}]
      /\ busy' = [busy EXCEPT ![req[p].holder] = IF req[p].holder \in Users THEN p ELSE @]
      /\ pc' = [pc EXCEPT ![p] = "attached"]
      /\ UNCHANGED <<status, refs, row, requests>>
  BY DEF AttachWrite, rows
<1>3. PICK old \in Files \cup {None} :
           /\ old # None => <<req[p].holder, old>> \in refs
           /\ req' = [req EXCEPT ![p] = About(req[p].file, req[p].holder, old)]
  BY DEF AttachWrite
<1>4. old # req[p].file
  BY <1>1, <1>3, StoredFilesAssumption
<1>5. /\ About(req[p].file, req[p].holder, old) \in Request
      /\ req'[p] = About(req[p].file, req[p].holder, old)
      /\ \A q \in Requests : q # p => req'[q] = req[q]
  BY <1>1, <1>3 DEF TypeInv, TypeOK, About, Request
<1>6. req' \in [Requests -> Request]
  BY <1>3, <1>5 DEF TypeInv, TypeOK
<1>7. /\ shared' \in [Files -> SUBSET Requests]
      /\ busy' \in [Holders -> Requests \cup {None}]
      /\ pc' \in [Requests -> Steps] /\ pc'[p] = "attached"
      /\ \A q \in Requests : q # p => pc'[q] = pc[q]
  BY <1>1, <1>2 DEF TypeInv, TypeOK, Steps
<1> QED
  BY <1>1, <1>2, <1>4, <1>5, <1>6, <1>7 DEF About

-----------------------------------------------------------------------------
(* Types. *)

LEMMA TypeStep ==
    ASSUME TypeInv, [Next]_vars
    PROVE TypeInv'
<1> USE StoredFilesAssumption
        DEF TypeInv, TypeOK, Statuses, Steps, rows, locks, calls, work, bounds
<1>1. ASSUME NEW f \in Files, Reserve(f) PROVE TypeInv'
  <2>1. TypeOK'
    BY <1>1 DEF Reserve, SetStatus
  <2>2. RequestShape'
    BY <1>1 DEF Reserve, SetStatus, RequestShape
  <2>3. ItemShape'
    BY <1>1 DEF Reserve, SetStatus, ItemShape, NoItem
  <2> QED BY <2>1, <2>2, <2>3
<1>2. ASSUME NEW f \in Files, ClientPut(f) PROVE TypeInv'
  <2>1. TypeOK'
    BY <1>2 DEF ClientPut, SetObject
  <2>2. RequestShape'
    BY <1>2 DEF ClientPut, SetObject, RequestShape
  <2>3. ItemShape'
    BY <1>2 DEF ClientPut, SetObject, ItemShape, NoItem
  <2> QED BY <2>1, <2>2, <2>3
<1>3. ASSUME NEW f \in Files, Elapse(f) PROVE TypeInv'
  <2>1. TypeOK'
    BY <1>3 DEF Elapse
  <2>2. RequestShape'
    BY <1>3 DEF Elapse, RequestShape
  <2>3. ItemShape'
    BY <1>3 DEF Elapse, ItemShape, NoItem
  <2> QED BY <2>1, <2>2, <2>3
<1>4. ASSUME NEW p \in Requests, NEW f \in Files, UploadBegin(p, f) PROVE TypeInv'
  <2>1. TypeOK'
    BY <1>4, PlanTyped DEF UploadBegin, Begin, NoRequest, About, Request
  <2>2. RequestShape'
    BY <1>4, PlanTyped DEF UploadBegin, Begin, NoRequest, About, Request, RequestShape
  <2>3. ItemShape'
    BY <1>4, PlanTyped
       DEF UploadBegin, Begin, NoRequest, About, Request, ItemShape, NoItem
  <2> QED BY <2>1, <2>2, <2>3
<1>5. ASSUME NEW p \in Requests, Put(p) PROVE TypeInv'
  <2>1. TypeOK'
    <3>1. req[p].file \in Files /\ object[req[p].file] \in {"none", "right", "wrong"}
      BY <1>5 DEF Put, RequestShape
    <3>2. object' \in [Files -> {"none", "right", "wrong"}]
      BY <1>5, <3>1 DEF Put, SetObject
    <3>3. pc' \in [Requests -> Steps] /\ req' = req /\ requests' = requests
      BY <1>5 DEF Put, Goto
    <3>4. faults' \in 0..plan.faults
      BY <1>5, FaultTyped DEF Put
    <3> QED BY <1>5, <3>2, <3>3, <3>4 DEF Put
  <2>2. RequestShape'
    BY <1>5, FaultTyped DEF Put, SetObject, Goto, RequestShape
  <2>3. ItemShape'
    BY <1>5, FaultTyped DEF Put, SetObject, Goto, ItemShape, NoItem
  <2> QED BY <2>1, <2>2, <2>3
<1>6. ASSUME NEW p \in Requests, MarkUploaded(p) PROVE TypeInv'
  <2>1. TypeOK'
    <3>1. req[p].file \in Files /\ faults' \in 0..plan.faults
      BY <1>6, FaultTyped DEF MarkUploaded, RequestShape
    <3>2. status' \in [Files -> Statuses]
      BY <1>6 DEF MarkUploaded, SetStatus
    <3>3. CASE End(p)
      BY <1>6, <3>1, <3>2, <3>3, EndTyped DEF MarkUploaded
    <3>4. CASE Goto(p, "undoing") /\ UNCHANGED <<status, locks>>
      BY <1>6, <3>1, <3>2, <3>4, GotoTyped DEF MarkUploaded
    <3> QED BY <1>6, <3>3, <3>4 DEF MarkUploaded
  <2>2. RequestShape'
    BY <1>6, EndTyped, FaultTyped DEF MarkUploaded, SetStatus, Goto, RequestShape
  <2>3. ItemShape'
    BY <1>6, EndTyped, FaultTyped DEF MarkUploaded, SetStatus, Goto, ItemShape, NoItem
  <2> QED BY <2>1, <2>2, <2>3
<1>7. ASSUME NEW p \in Requests, Undo(p) PROVE TypeInv'
  <2>1. TypeOK'
    <3>1. object' \in [Files -> {"none", "right", "wrong"}]
      BY <1>7 DEF Undo, SetObject
    <3>2. bereft' \subseteq Files /\ faults' \in 0..plan.faults
      BY <1>7, FaultTyped DEF Undo, RequestShape
    <3> QED BY <1>7, <3>1, <3>2, EndTyped DEF Undo
  <2>2. RequestShape'
    BY <1>7, EndTyped, FaultTyped DEF Undo, SetObject, RequestShape
  <2>3. ItemShape'
    BY <1>7, EndTyped, FaultTyped DEF Undo, SetObject, ItemShape, NoItem
  <2> QED BY <2>1, <2>2, <2>3
<1>8. ASSUME NEW p \in Requests, NEW f \in Files, CompleteHead(p, f) PROVE TypeInv'
  <2>1. TypeOK'
    BY <1>8, PlanTyped DEF CompleteHead, Begin, NoRequest, About, Request
  <2>2. RequestShape'
    BY <1>8, PlanTyped DEF CompleteHead, Begin, NoRequest, About, Request, RequestShape
  <2>3. ItemShape'
    BY <1>8, PlanTyped
       DEF CompleteHead, Begin, NoRequest, About, Request, ItemShape, NoItem
  <2> QED BY <2>1, <2>2, <2>3
<1>9. ASSUME NEW p \in Requests, CompleteMark(p) PROVE TypeInv'
  <2>1. TypeOK'
    BY <1>9, EndTyped, FaultTyped DEF CompleteMark, SetStatus
  <2>2. RequestShape'
    BY <1>9, EndTyped, FaultTyped DEF CompleteMark, SetStatus, RequestShape
  <2>3. ItemShape'
    BY <1>9, EndTyped, FaultTyped DEF CompleteMark, SetStatus, ItemShape, NoItem
  <2> QED BY <2>1, <2>2, <2>3
<1>10. ASSUME NEW p \in Requests, NEW h \in Holders, NEW f \in Files, AttachRead(p, h, f) PROVE TypeInv'
  <2>1. About(f, h, None) \in Request /\ f # None
    BY DEF About, Request
  <2>2. /\ pc' \in [Requests -> Steps] /\ pc'[p] = "attaching"
        /\ req' \in [Requests -> Request] /\ req'[p] = About(f, h, None)
        /\ requests' \in 0..plan.requests
        /\ \A q \in Requests : q # p => pc'[q] = pc[q] /\ req'[q] = req[q]
    BY <1>10, <2>1, BeginTyped DEF AttachRead
  <2>3. busy' \in [Holders -> Requests \cup {None}]
    BY <1>10 DEF AttachRead
  <2>4. UNCHANGED <<rows, object, age, row, shared, work, bereft, faults, bounds>>
    BY <1>10 DEF AttachRead
  <2>5. TypeOK'
    BY <2>2, <2>3, <2>4
  <2>6. RequestShape'
    BY <2>1, <2>2 DEF About, RequestShape
  <2>7. ItemShape'
    BY <2>4 DEF ItemShape, NoItem
  <2> QED BY <2>5, <2>6, <2>7
<1>11. ASSUME NEW p \in Requests, AttachWrite(p) PROVE TypeInv'
  <2>1. TypeOK'
    <3>1. req[p].file \in Files /\ req[p].holder \in Holders
      BY <1>11 DEF AttachWrite, RequestShape
    <3>2. CASE <<req[p].holder, req[p].file>> \in refs
      BY <1>11, <3>2, EndTyped DEF AttachWrite
    <3>3. CASE <<req[p].holder, req[p].file>> \notin refs
      <4>1. /\ shared' \in [Files -> SUBSET Requests]
            /\ busy' \in [Holders -> Requests \cup {None}]
            /\ pc' \in [Requests -> Steps] /\ req' \in [Requests -> Request]
            /\ UNCHANGED <<status, refs, row, requests>>
        BY <1>11, <3>3, AttachWritten, Zenon
      <4>2. UNCHANGED <<rows, object, age, work, bereft, faults, bounds>>
        BY <1>11, Zenon DEF AttachWrite
      <4> QED BY <4>1, <4>2, Zenon
    <3> QED BY <3>2, <3>3
  <2>2. RequestShape'
    <3>1. CASE <<req[p].holder, req[p].file>> \in refs
      BY <1>11, <3>1, EndTyped DEF AttachWrite, RequestShape
    <3>2. CASE <<req[p].holder, req[p].file>> \notin refs
      <4>1. /\ req[p].file \in Files /\ req[p].holder \in Holders /\ pc'[p] = "attached"
            /\ req'[p].file = req[p].file /\ req'[p].holder = req[p].holder
            /\ req'[p].old # req[p].file
            /\ \A q \in Requests : q # p => pc'[q] = pc[q] /\ req'[q] = req[q]
        BY <1>11, <3>2, AttachWritten, Zenon
      <4> QED BY <4>1 DEF RequestShape
    <3> QED BY <3>1, <3>2
  <2>3. ItemShape'
    BY <1>11, EndTyped DEF AttachWrite, About, Request, ItemShape, NoItem
  <2> QED BY <2>1, <2>2, <2>3
<1>12. ASSUME NEW p \in Requests, NEW h \in Holders, NEW f \in Files, Detach(p, h, f) PROVE TypeInv'
  <2>1. TypeOK'
    BY <1>12, PlanTyped DEF Detach, Begin, NoRequest, About, Request
  <2>2. RequestShape'
    BY <1>12, PlanTyped DEF Detach, Begin, NoRequest, About, Request, RequestShape
  <2>3. ItemShape'
    BY <1>12, PlanTyped DEF Detach, Begin, NoRequest, About, Request, ItemShape, NoItem
  <2> QED BY <2>1, <2>2, <2>3
<1>13. ASSUME NEW p \in Requests, Cleanup(p) PROVE TypeInv'
  <2>1. TypeOK'
    <3>1. /\ pc' \in [Requests -> Steps] /\ UNCHANGED <<req, requests>>
          /\ row' \in [Files -> Requests \cup {None}]
      BY <1>13, GotoTyped DEF Cleanup
    <3>2. UNCHANGED <<rows, object, age, shared, busy, work, bereft, faults, bounds>>
      BY <1>13, Zenon DEF Cleanup
    <3> QED BY <3>1, <3>2, Zenon
  <2>2. RequestShape'
    <3>1. /\ \/ pc'[p] = "dropping"
             \/ pc'[p] = "keeping"
          /\ \A q \in Requests : q # p => pc'[q] = pc[q]
          /\ req' = req
      BY <1>13, GotoTyped DEF Cleanup
    <3>2. pc[p] = "attached" /\ req[p].old \in Files
      BY <1>13 DEF Cleanup, Request
    <3> QED BY <3>1, <3>2 DEF RequestShape
  <2>3. ItemShape'
    BY <1>13 DEF Cleanup, Goto, ItemShape, NoItem
  <2> QED BY <2>1, <2>2, <2>3
<1>14. ASSUME NEW p \in Requests, NEW f \in Files, DeleteFile(p, f) PROVE TypeInv'
  <2>1. TypeOK'
    BY <1>14, PlanTyped DEF DeleteFile, Begin, NoRequest, About, Request
  <2>2. RequestShape'
    BY <1>14, PlanTyped DEF DeleteFile, Begin, NoRequest, About, Request, RequestShape
  <2>3. ItemShape'
    BY <1>14, PlanTyped
       DEF DeleteFile, Begin, NoRequest, About, Request, ItemShape, NoItem
  <2> QED BY <2>1, <2>2, <2>3
<1>15. ASSUME NEW p \in Requests, Commit(p) PROVE TypeInv'
  <2>1. TypeOK'
    <3>1. refs' \subseteq Holders \X Files
      <4>1. req[p].file # None => <<req[p].holder, req[p].file>> \in Holders \X Files
        BY <1>15 DEF Commit, RequestShape, Request
      <4> QED BY <1>15, <4>1 DEF Commit
    <3>2. status' \in [Files -> Statuses]
      BY <1>15 DEF Commit
    <3> QED BY <1>15, <3>1, <3>2, EndTyped DEF Commit
  <2>2. RequestShape'
    BY <1>15, EndTyped DEF Commit, About, Request, RequestShape
  <2>3. ItemShape'
    BY <1>15, EndTyped DEF Commit, About, Request, ItemShape, NoItem
  <2> QED BY <2>1, <2>2, <2>3
<1>16. ASSUME NEW p \in Requests, Rollback(p) PROVE TypeInv'
  <2>1. TypeOK'
    BY <1>16, EndTyped, FaultTyped DEF Rollback
  <2>2. RequestShape'
    BY <1>16, EndTyped, FaultTyped DEF Rollback, RequestShape
  <2>3. ItemShape'
    BY <1>16, EndTyped, FaultTyped DEF Rollback, ItemShape, NoItem
  <2> QED BY <2>1, <2>2, <2>3
<1>17. ASSUME NEW p \in Requests, Crash(p) PROVE TypeInv'
  <2>1. TypeOK'
    BY <1>17, EndTyped, PlanTyped DEF Crash
  <2>2. RequestShape'
    BY <1>17, EndTyped, PlanTyped DEF Crash, RequestShape
  <2>3. ItemShape'
    BY <1>17, EndTyped, PlanTyped DEF Crash, ItemShape, NoItem
  <2> QED BY <2>1, <2>2, <2>3
<1>18. ASSUME NEW j \in Jobs, JobStart(j) PROVE TypeInv'
  <2>1. TypeOK'
    BY <1>18 DEF JobStart, Due
  <2>2. RequestShape'
    BY <1>18 DEF JobStart, Due, RequestShape
  <2>3. ItemShape'
    BY <1>18 DEF JobStart, Due, ItemShape, NoItem
  <2> QED BY <2>1, <2>2, <2>3
<1>19. ASSUME NEW j \in Jobs, NEW f \in Files, DeleteObject(j, f) PROVE TypeInv'
  <2>1. TypeOK'
    <3>1. [file |-> f, seen |-> "none"] \in Items
      BY DEF Items
    <3>2. object' \in [Files -> {"none", "right", "wrong"}]
      BY <1>19 DEF DeleteObject, SetObject
    <3>3. item' \in [Jobs -> Items] /\ batch' \in [Jobs -> SUBSET Files]
      BY <1>19, <3>1, ItemTyped, DoneTyped DEF DeleteObject
    <3>4. faults' \in 0..plan.faults
      BY <1>19, FaultTyped DEF DeleteObject
    <3> QED BY <1>19, <3>2, <3>3, <3>4 DEF DeleteObject, Items
  <2>2. RequestShape'
    BY <1>19, FaultTyped, DoneTyped
       DEF DeleteObject, SetObject, SetItem, NoItem, RequestShape
  <2>3. ItemShape'
    <3>1. [file |-> f, seen |-> "none"] \in Items
      BY DEF Items
    <3>2. \/ item'[j] = [file |-> f, seen |-> "none"] /\ batch' = batch
          \/ item'[j] = NoItem /\ batch'[j] = batch[j] \ {f}
      BY <1>19, <3>1, ItemTyped, DoneTyped DEF DeleteObject
    <3>3. \A k \in Jobs : k # j => item'[k] = item[k] /\ batch'[k] = batch[k]
      BY <1>19, <3>1, ItemTyped, DoneTyped DEF DeleteObject
    <3>4. f \in batch[j] /\ jpc[j] = "purging" /\ UNCHANGED jpc
      BY <1>19 DEF DeleteObject
    <3> QED BY <3>2, <3>3, <3>4 DEF ItemShape
  <2> QED BY <2>1, <2>2, <2>3
<1>20. ASSUME NEW j \in Jobs, PurgeMark(j) PROVE TypeInv'
  <2>1. TypeOK'
    <3>1. item[j].file \in Files /\ faults' \in 0..plan.faults
      BY <1>20, FaultTyped DEF PurgeMark
    <3>2. status' \in [Files -> Statuses]
      BY <1>20 DEF PurgeMark, SetStatus
    <3>3. item' \in [Jobs -> Items] /\ batch' \in [Jobs -> SUBSET Files]
      BY <1>20, <3>1, DoneTyped DEF PurgeMark
    <3>4. UNCHANGED <<refs, object, age, locks, calls, jobLock, jpc, bereft, bounds>>
      BY <1>20 DEF PurgeMark
    <3> QED BY <3>1, <3>2, <3>3, <3>4 DEF Items
  <2>2. RequestShape'
    BY <1>20 DEF PurgeMark, RequestShape
  <2>3. ItemShape'
    <3>1. item[j].file \in Files
      BY <1>20 DEF PurgeMark
    <3>2. /\ item'[j] = NoItem /\ batch'[j] = batch[j] \ {item[j].file}
          /\ \A k \in Jobs : k # j => item'[k] = item[k] /\ batch'[k] = batch[k]
      BY <1>20, <3>1, DoneTyped DEF PurgeMark
    <3>3. jpc[j] = "purging" /\ UNCHANGED jpc
      BY <1>20 DEF PurgeMark
    <3> QED BY <3>2, <3>3 DEF ItemShape
  <2> QED BY <2>1, <2>2, <2>3
<1>21. ASSUME NEW j \in Jobs, ReconcileStart(j) PROVE TypeInv'
  <2>1. TypeOK'
    BY <1>21 DEF ReconcileStart, Due
  <2>2. RequestShape'
    BY <1>21 DEF ReconcileStart, Due, RequestShape
  <2>3. ItemShape'
    BY <1>21 DEF ReconcileStart, Due, ItemShape, NoItem
  <2> QED BY <2>1, <2>2, <2>3
<1>22. ASSUME NEW j \in Jobs, NEW f \in Files, HeadObject(j, f) PROVE TypeInv'
  <2>1. TypeOK'
    <3>1. [file |-> f, seen |-> object[f]] \in Items
      BY DEF Items
    <3>2. item' \in [Jobs -> Items] /\ batch' \in [Jobs -> SUBSET Files]
      BY <1>22, <3>1, ItemTyped, DoneTyped DEF HeadObject
    <3>3. faults' \in 0..plan.faults
      BY <1>22, FaultTyped DEF HeadObject
    <3> QED BY <1>22, <3>2, <3>3 DEF HeadObject, Items
  <2>2. RequestShape'
    BY <1>22, FaultTyped, DoneTyped DEF HeadObject, SetItem, NoItem, RequestShape
  <2>3. ItemShape'
    <3>1. [file |-> f, seen |-> object[f]] \in Items
      BY DEF Items
    <3>2. \/ item'[j] = [file |-> f, seen |-> object[f]] /\ batch' = batch
          \/ item'[j] = NoItem /\ batch'[j] = batch[j] \ {f}
      BY <1>22, <3>1, ItemTyped, DoneTyped DEF HeadObject
    <3>3. \A k \in Jobs : k # j => item'[k] = item[k] /\ batch'[k] = batch[k]
      BY <1>22, <3>1, ItemTyped, DoneTyped DEF HeadObject
    <3>4. f \in batch[j] /\ jpc[j] = "reconciling" /\ UNCHANGED jpc
      BY <1>22 DEF HeadObject
    <3> QED BY <3>2, <3>3, <3>4 DEF ItemShape
  <2> QED BY <2>1, <2>2, <2>3
<1>23. ASSUME NEW j \in Jobs, ReconcileMark(j) PROVE TypeInv'
  <2>1. TypeOK'
    <3>1. item[j].file \in Files /\ faults' \in 0..plan.faults
      BY <1>23, FaultTyped DEF ReconcileMark
    <3>2. status' \in [Files -> Statuses]
      BY <1>23 DEF ReconcileMark, SetStatus
    <3>3. item' \in [Jobs -> Items] /\ batch' \in [Jobs -> SUBSET Files]
      BY <1>23, <3>1, DoneTyped DEF ReconcileMark
    <3>4. UNCHANGED <<refs, object, age, locks, calls, jobLock, jpc, bereft, bounds>>
      BY <1>23 DEF ReconcileMark
    <3> QED BY <3>1, <3>2, <3>3, <3>4 DEF Items
  <2>2. RequestShape'
    BY <1>23 DEF ReconcileMark, RequestShape
  <2>3. ItemShape'
    <3>1. item[j].file \in Files
      BY <1>23 DEF ReconcileMark
    <3>2. /\ item'[j] = NoItem /\ batch'[j] = batch[j] \ {item[j].file}
          /\ \A k \in Jobs : k # j => item'[k] = item[k] /\ batch'[k] = batch[k]
      BY <1>23, <3>1, DoneTyped DEF ReconcileMark
    <3>3. jpc[j] = "reconciling" /\ UNCHANGED jpc
      BY <1>23 DEF ReconcileMark
    <3> QED BY <3>2, <3>3 DEF ItemShape
  <2> QED BY <2>1, <2>2, <2>3
<1>24. ASSUME NEW j \in Jobs, JobEnd(j) PROVE TypeInv'
  <2>1. TypeOK'
    BY <1>24 DEF JobEnd
  <2>2. RequestShape'
    BY <1>24 DEF JobEnd, RequestShape
  <2>3. ItemShape'
    BY <1>24 DEF JobEnd, ItemShape, NoItem
  <2> QED BY <2>1, <2>2, <2>3
<1>25. ASSUME NEW j \in Jobs, JobCrash(j) PROVE TypeInv'
  <2>1. TypeOK'
    <3>1. NoItem \in Items
      BY DEF NoItem, Items
    <3>2. item' \in [Jobs -> Items]
      BY <1>25, <3>1, ItemTyped DEF JobCrash, Items
    <3>3. crashes' \in 0..plan.crashes
      BY <1>25, PlanTyped DEF JobCrash
    <3> QED BY <1>25, <3>2, <3>3 DEF JobCrash, Items
  <2>2. RequestShape'
    BY <1>25, PlanTyped DEF JobCrash, SetItem, NoItem, RequestShape
  <2>3. ItemShape'
    BY <1>25, PlanTyped DEF JobCrash, SetItem, NoItem, ItemShape
  <2> QED BY <2>1, <2>2, <2>3
<1>26. ASSUME NEW p \in Requests, MarkFails(p) \/ LoseConnection(p) PROVE TypeInv'
  <2>1. PICK s \in StraySteps : Stray(p, s)
    BY <1>26, ComesLoose
  <2>2. /\ row' \in [Files -> Requests \cup {None}] /\ pc' \in [Requests -> Steps]
        /\ UNCHANGED <<shared, busy, req, requests>>
        /\ pc'[p] = s /\ \A q \in Requests : q # p => pc'[q] = pc[q]
    BY <2>1, StrayTyped
  <2>3. /\ req[p].file \in Files
        /\ faults' \in 0..plan.faults /\ crashes' \in 0..plan.crashes
        /\ UNCHANGED <<status, refs, object, age, jobLock, jpc, batch, item, bereft, plan>>
    BY <1>26, ComesLoose
  <2>4. TypeOK'
    BY <2>2, <2>3
  <2>5. RequestShape'
    BY <2>2, <2>3 DEF RequestShape, StraySteps
  <2>6. ItemShape'
    BY <2>3 DEF ItemShape, NoItem
  <2> QED BY <2>4, <2>5, <2>6
<1>27. ASSUME NEW p \in Requests, StrayPut(p) PROVE TypeInv'
  <2>1. /\ req[p].file \in Files
        /\ pc' \in [Requests -> Steps] /\ pc'[p] = "erasing" /\ UNCHANGED <<req, requests>>
        /\ \A q \in Requests : q # p => pc'[q] = pc[q]
    BY <1>27, GotoTyped DEF StrayPut, RequestShape, StraySteps
  <2>2. faults' \in 0..plan.faults /\ object' \in [Files -> {"none", "right", "wrong"}]
    BY <1>27, FaultTyped DEF StrayPut, SetObject
  <2>3. UNCHANGED <<status, refs, age, row, shared, busy, jobLock, jpc, batch, item, bereft,
                    plan, crashes>>
    BY <1>27 DEF StrayPut
  <2>4. TypeOK'
    BY <2>1, <2>2, <2>3
  <2>5. RequestShape'
    BY <2>1 DEF RequestShape, StraySteps
  <2>6. ItemShape'
    BY <2>3 DEF ItemShape, NoItem
  <2> QED BY <2>4, <2>5, <2>6
<1>28. ASSUME NEW p \in Requests, StrayUndo(p) PROVE TypeInv'
  <2>1. TypeOK'
    <3>1. object' \in [Files -> {"none", "right", "wrong"}]
      BY <1>28 DEF StrayUndo, SetObject
    <3>2. bereft' \subseteq Files /\ faults' \in 0..plan.faults
      BY <1>28, FaultTyped DEF StrayUndo, RequestShape, StraySteps
    <3> QED BY <1>28, <3>1, <3>2, EndTyped DEF StrayUndo
  <2>2. RequestShape'
    BY <1>28, EndTyped, FaultTyped DEF StrayUndo, SetObject, RequestShape, StraySteps
  <2>3. ItemShape'
    BY <1>28, EndTyped, FaultTyped DEF StrayUndo, SetObject, ItemShape, NoItem
  <2> QED BY <2>1, <2>2, <2>3
<1>29. ASSUME NEW p \in Requests, RequestStep(p) PROVE TypeInv'
  BY <1>29, <1>5, <1>6, <1>7, <1>9, <1>11, <1>13, <1>15, <1>27, <1>28, Zenon DEF RequestStep
<1>30. ASSUME NEW j \in Jobs, JobStep(j) PROVE TypeInv'
  BY <1>30, <1>18, <1>19, <1>20, <1>21, <1>22, <1>23, <1>24, Zenon DEF JobStep
<1>31. CASE UNCHANGED vars
  BY <1>31 DEF vars, RequestShape, ItemShape
<1> QED
  BY <1>1, <1>2, <1>3, <1>4, <1>8, <1>10, <1>12, <1>14, <1>16, <1>17, <1>25, <1>26,
     <1>29, <1>30, <1>31, Zenon
     DEF Next

-----------------------------------------------------------------------------
(* Locks: what a request has locked stays as it has seen it. *)

\* An upload has its row, which stays pending.
UploadHolds ==
    \A p \in Requests : pc[p] \in {"putting", "marking", "undoing"} =>
        row[req[p].file] = p /\ status[req[p].file] = "pending_upload"

\* A reference that is being written shares the row of its file.
AttachShares ==
    \A p \in Requests :
        pc[p] \in {"attached", "keeping", "dropping"} /\ req[p].file # None
            => p \in shared[req[p].file]

\* Whoever has a row excludes the new references of others.
RowExcludes ==
    \A f \in Files : row[f] # None => shared[f] \subseteq {row[f]}

\* A file about to be deleted is ready, and only the holder that lets go of it
\* refers to it.
DropHolds ==
    \A p \in Requests :
        /\ pc[p] \in {"keeping", "dropping"} => row[req[p].old] = p
        /\ pc[p] = "dropping" =>
              /\ status[req[p].old] = "ready"
              /\ \A h \in Holders : <<h, req[p].old>> \in refs => h = req[p].holder

LockInv == UploadHolds /\ AttachShares /\ RowExcludes /\ DropHolds

LEMMA EndShares ==
    ASSUME TypeInv, AttachShares, NEW p \in Requests, End(p)
    PROVE AttachShares'
<1> SUFFICES ASSUME NEW q \in Requests,
                    pc'[q] \in {"attached", "keeping", "dropping"}, req'[q].file # None
             PROVE q \in shared'[req'[q].file]
  BY DEF AttachShares
<1>1. q # p /\ pc'[q] = pc[q] /\ req'[q] = req[q]
  BY EndTyped DEF TypeInv
<1>2. req[q].file \in Files
  BY <1>1 DEF TypeInv, TypeOK, Request
<1> QED
  BY <1>1, <1>2, EndReleases DEF TypeInv, AttachShares

\* The end of p's transaction takes no row from an upload or a deletion.
LEMMA EndHolds ==
    ASSUME TypeInv, NEW p \in Requests, End(p), NEW q \in Requests \ {p}, NEW f \in Files
    PROVE row[f] = q => row'[f] = q
BY EndReleases, StoredFilesAssumption, SMTT(30) DEF TypeInv

LEMMA LockStep ==
    ASSUME TypeInv, LockInv, [Next]_vars
    PROVE LockInv'
<1> USE StoredFilesAssumption
        DEF TypeInv, TypeOK, RequestShape, Statuses, Steps, rows, locks, calls, work, bounds
<1>1. ASSUME NEW f \in Files, Reserve(f) PROVE LockInv'
  <2>1. UploadHolds'
    BY <1>1, StatusTyped DEF LockInv, UploadHolds, Reserve
  <2>2. AttachShares'
    BY <1>1, StatusTyped DEF LockInv, AttachShares, RowExcludes, Reserve
  <2>3. RowExcludes'
    BY <1>1, StatusTyped DEF LockInv, RowExcludes, AttachShares, Reserve
  <2>4. DropHolds'
    BY <1>1, StatusTyped
       DEF LockInv, DropHolds, UploadHolds, AttachShares, RowExcludes, Reserve
  <2> QED BY <2>1, <2>2, <2>3, <2>4 DEF LockInv
<1>2. ASSUME NEW f \in Files, ClientPut(f) PROVE LockInv'
  BY <1>2 DEF ClientPut, LockInv, UploadHolds, AttachShares, RowExcludes, DropHolds
<1>3. ASSUME NEW f \in Files, Elapse(f) PROVE LockInv'
  BY <1>3 DEF Elapse, LockInv, UploadHolds, AttachShares, RowExcludes, DropHolds
<1>4. ASSUME NEW p \in Requests, NEW f \in Files, UploadBegin(p, f) PROVE LockInv'
  <2>1. UploadHolds'
    BY <1>4, BeginTyped DEF LockInv, UploadHolds, UploadBegin, Lockable, About, Request
  <2>2. AttachShares'
    BY <1>4, BeginTyped
       DEF LockInv, AttachShares, RowExcludes, UploadBegin, Lockable, About, Request
  <2>3. RowExcludes'
    BY <1>4, BeginTyped
       DEF LockInv, RowExcludes, AttachShares, UploadBegin, Lockable, About, Request
  <2>4. DropHolds'
    BY <1>4, BeginTyped
       DEF LockInv, DropHolds, UploadHolds, AttachShares, RowExcludes, UploadBegin,
           Lockable, About, Request
  <2> QED BY <2>1, <2>2, <2>3, <2>4 DEF LockInv
<1>5. ASSUME NEW p \in Requests, Put(p) PROVE LockInv'
  <2>1. UploadHolds'
    BY <1>5, GotoTyped DEF LockInv, UploadHolds, Put
  <2>2. AttachShares'
    BY <1>5, GotoTyped DEF LockInv, AttachShares, RowExcludes, Put
  <2>3. RowExcludes'
    BY <1>5, GotoTyped DEF LockInv, RowExcludes, AttachShares, Put
  <2>4. DropHolds'
    BY <1>5, GotoTyped DEF LockInv, DropHolds, UploadHolds, AttachShares, RowExcludes, Put
  <2> QED BY <2>1, <2>2, <2>3, <2>4 DEF LockInv
<1>6. ASSUME NEW p \in Requests, MarkUploaded(p) PROVE LockInv'
  <2>1. UploadHolds'
    BY <1>6, EndTyped, EndReleases, GotoTyped, StatusTyped
       DEF LockInv, UploadHolds, MarkUploaded
  <2>2. AttachShares'
    <3>1. CASE End(p)
      BY <3>1, EndShares DEF LockInv
    <3>2. CASE Goto(p, "undoing") /\ UNCHANGED <<status, locks>>
      BY <3>2, GotoTyped DEF LockInv, AttachShares
    <3> QED BY <1>6, <3>1, <3>2 DEF MarkUploaded
  <2>3. RowExcludes'
    BY <1>6, EndTyped, EndReleases, GotoTyped, StatusTyped
       DEF LockInv, RowExcludes, AttachShares, MarkUploaded
  <2>4. DropHolds'
    BY <1>6, EndTyped, EndReleases, GotoTyped, StatusTyped
       DEF LockInv, DropHolds, UploadHolds, AttachShares, RowExcludes, MarkUploaded
  <2> QED BY <2>1, <2>2, <2>3, <2>4 DEF LockInv
<1>7. ASSUME NEW p \in Requests, Undo(p) PROVE LockInv'
  <2>1. UploadHolds'
    BY <1>7, EndTyped, EndReleases DEF LockInv, UploadHolds, Undo
  <2>2. AttachShares'
    BY <1>7, EndShares DEF LockInv, Undo
  <2>3. RowExcludes'
    BY <1>7, EndTyped, EndReleases DEF LockInv, RowExcludes, AttachShares, Undo
  <2>4. DropHolds'
    BY <1>7, EndTyped, EndReleases
       DEF LockInv, DropHolds, UploadHolds, AttachShares, RowExcludes, Undo
  <2> QED BY <2>1, <2>2, <2>3, <2>4 DEF LockInv
<1>8. ASSUME NEW p \in Requests, NEW f \in Files, CompleteHead(p, f) PROVE LockInv'
  <2>1. About(f, None, None) \in Request
    BY DEF About, Request
  <2>2. /\ pc'[p] = "completing"
        /\ \A q \in Requests : q # p => pc'[q] = pc[q] /\ req'[q] = req[q]
    BY <1>8, <2>1, BeginTyped DEF CompleteHead
  <2>3. UNCHANGED <<status, refs, row, shared>>
    BY <1>8 DEF CompleteHead
  <2>4. UploadHolds'
    BY <2>2, <2>3 DEF LockInv, UploadHolds
  <2>5. AttachShares'
    BY <2>2, <2>3 DEF LockInv, AttachShares
  <2>6. RowExcludes'
    BY <2>3 DEF LockInv, RowExcludes
  <2>7. DropHolds'
    BY <2>2, <2>3 DEF LockInv, DropHolds
  <2> QED BY <2>4, <2>5, <2>6, <2>7 DEF LockInv
<1>9. ASSUME NEW p \in Requests, CompleteMark(p) PROVE LockInv'
  <2>1. UploadHolds'
    BY <1>9, EndTyped, EndReleases, StatusTyped
       DEF LockInv, UploadHolds, CompleteMark, Writable
  <2>2. AttachShares'
    BY <1>9, EndShares DEF LockInv, CompleteMark
  <2>3. RowExcludes'
    BY <1>9, EndTyped, EndReleases, StatusTyped
       DEF LockInv, RowExcludes, AttachShares, CompleteMark, Writable
  <2>4. DropHolds'
    BY <1>9, EndTyped, EndReleases, StatusTyped
       DEF LockInv, DropHolds, UploadHolds, AttachShares, RowExcludes, CompleteMark,
           Writable
  <2> QED BY <2>1, <2>2, <2>3, <2>4 DEF LockInv
<1>10. ASSUME NEW p \in Requests, NEW h \in Holders, NEW f \in Files, AttachRead(p, h, f) PROVE LockInv'
  <2>1. About(f, h, None) \in Request
    BY DEF About, Request
  <2>2. /\ pc'[p] = "attaching"
        /\ \A q \in Requests : q # p => pc'[q] = pc[q] /\ req'[q] = req[q]
    BY <1>10, <2>1, BeginTyped DEF AttachRead
  <2>3. UNCHANGED <<status, refs, row, shared>>
    BY <1>10 DEF AttachRead
  <2>4. UploadHolds'
    BY <2>2, <2>3 DEF LockInv, UploadHolds
  <2>5. AttachShares'
    BY <2>2, <2>3 DEF LockInv, AttachShares
  <2>6. RowExcludes'
    BY <2>3 DEF LockInv, RowExcludes
  <2>7. DropHolds'
    BY <2>2, <2>3 DEF LockInv, DropHolds
  <2> QED BY <2>4, <2>5, <2>6, <2>7 DEF LockInv
<1>11. ASSUME NEW p \in Requests, AttachWrite(p) PROVE LockInv'
  <2>1. UploadHolds'
    <3>1. CASE <<req[p].holder, req[p].file>> \in refs
      BY <1>11, <3>1, EndTyped, EndHolds DEF LockInv, AttachWrite, UploadHolds
    <3>2. CASE <<req[p].holder, req[p].file>> \notin refs
      BY <1>11, <3>2, AttachWritten DEF LockInv, UploadHolds
    <3> QED BY <3>1, <3>2
  <2>2. AttachShares'
    <3>1. CASE <<req[p].holder, req[p].file>> \in refs
      BY <1>11, <3>1, EndShares DEF LockInv, AttachWrite
    <3>2. CASE <<req[p].holder, req[p].file>> \notin refs
      <4>1. /\ p \in shared'[req[p].file]
            /\ \A f \in Files : shared[f] \subseteq shared'[f]
        BY <1>11, <3>2, AttachWritten, SMTT(30)
      <4>2. /\ req'[p].file = req[p].file
            /\ \A q \in Requests : q # p => pc'[q] = pc[q] /\ req'[q] = req[q]
        BY <1>11, <3>2, AttachWritten
      <4>3. \A q \in Requests : req[q].file \in Files \cup {None}
        BY DEF Request
      <4> QED BY <4>1, <4>2, <4>3 DEF LockInv, AttachShares
    <3> QED BY <3>1, <3>2
  <2>3. RowExcludes'
    <3>1. CASE <<req[p].holder, req[p].file>> \in refs
      BY <1>11, <3>1, EndTyped, EndReleases DEF LockInv, AttachWrite, RowExcludes
    <3>2. CASE <<req[p].holder, req[p].file>> \notin refs
      <4>1. /\ row[req[p].file] = None /\ row' = row
            /\ \A f \in Files : f # req[p].file => shared'[f] = shared[f]
        BY <1>11, <3>2, AttachWritten
      <4> QED BY <4>1 DEF LockInv, RowExcludes
    <3> QED BY <3>1, <3>2
  <2>4. DropHolds'
    <3>1. CASE <<req[p].holder, req[p].file>> \in refs
      BY <1>11, <3>1, EndTyped, EndHolds DEF LockInv, AttachWrite, DropHolds
    <3>2. CASE <<req[p].holder, req[p].file>> \notin refs
      BY <1>11, <3>2, AttachWritten, SMTT(30) DEF LockInv, DropHolds
    <3> QED BY <3>1, <3>2
  <2> QED BY <2>1, <2>2, <2>3, <2>4 DEF LockInv
<1>12. ASSUME NEW p \in Requests, NEW h \in Holders, NEW f \in Files, Detach(p, h, f) PROVE LockInv'
  <2>1. About(None, h, f) \in Request
    BY DEF About, Request
  <2>2. /\ pc'[p] = "attached" /\ req'[p] = About(None, h, f)
        /\ \A q \in Requests : q # p => pc'[q] = pc[q] /\ req'[q] = req[q]
    BY <1>12, <2>1, BeginTyped DEF Detach
  <2>3. UNCHANGED <<status, refs, row, shared>>
    BY <1>12 DEF Detach
  <2>4. UploadHolds'
    BY <2>2, <2>3 DEF LockInv, UploadHolds
  <2>5. AttachShares'
    <3>1. req'[p].file = None
      BY <2>2 DEF About
    <3> QED BY <2>2, <2>3, <3>1 DEF LockInv, AttachShares
  <2>6. RowExcludes'
    BY <2>3 DEF LockInv, RowExcludes
  <2>7. DropHolds'
    BY <2>2, <2>3 DEF LockInv, DropHolds
  <2> QED BY <2>4, <2>5, <2>6, <2>7 DEF LockInv
<1>13. ASSUME NEW p \in Requests, Cleanup(p) PROVE LockInv'
  <2>1. UploadHolds'
    <3>1. /\ pc'[p] \in {"keeping", "dropping"} /\ req' = req
          /\ \A q \in Requests : q # p => pc'[q] = pc[q]
      BY <1>13, GotoTyped DEF Cleanup
    <3>2. /\ req[p].old \in Files /\ pc[p] = "attached"
          /\ row'[req[p].old] = p
          /\ \A q \in Requests, g \in Files : row[g] = q => row'[g] = q
          /\ UNCHANGED <<status, refs, shared>>
      BY <1>13 DEF Cleanup, Lockable, Request
    <3> QED BY <3>1, <3>2 DEF LockInv, UploadHolds
  <2>2. AttachShares'
    <3>1. /\ pc'[p] \in {"keeping", "dropping"} /\ req' = req
          /\ \A q \in Requests : q # p => pc'[q] = pc[q]
      BY <1>13, GotoTyped DEF Cleanup
    <3>2. /\ req[p].old \in Files /\ pc[p] = "attached"
          /\ row'[req[p].old] = p
          /\ \A q \in Requests, g \in Files : row[g] = q => row'[g] = q
          /\ UNCHANGED <<status, refs, shared>>
      BY <1>13 DEF Cleanup, Lockable, Request
    <3> QED BY <3>1, <3>2 DEF LockInv, AttachShares
  <2>3. RowExcludes'
    BY <1>13, GotoTyped
       DEF LockInv, RowExcludes, AttachShares, Cleanup, Lockable, Attached
  <2>4. DropHolds'
    <3>1. /\ pc'[p] \in {"keeping", "dropping"} /\ req' = req
          /\ \A q \in Requests : q # p => pc'[q] = pc[q]
      BY <1>13, GotoTyped DEF Cleanup
    <3>2. /\ req[p].old \in Files /\ pc[p] = "attached"
          /\ row'[req[p].old] = p
          /\ \A q \in Requests, g \in Files : row[g] = q => row'[g] = q
          /\ UNCHANGED <<status, refs, shared>>
      BY <1>13 DEF Cleanup, Lockable, Request
    <3>3. pc'[p] = "dropping" =>
             /\ status[req[p].old] = "ready"
             /\ \A h \in Holders : <<h, req[p].old>> \in refs => h = req[p].holder
      BY <1>13, GotoTyped DEF Cleanup, Attached
    <3> QED BY <3>1, <3>2, <3>3 DEF LockInv, DropHolds
  <2> QED BY <2>1, <2>2, <2>3, <2>4 DEF LockInv
<1>14. ASSUME NEW p \in Requests, NEW f \in Files, DeleteFile(p, f) PROVE LockInv'
  <2>1. About(None, None, f) \in Request
    BY DEF About, Request
  <2>2. /\ pc'[p] = "dropping" /\ req'[p] = About(None, None, f)
        /\ \A q \in Requests : q # p => pc'[q] = pc[q] /\ req'[q] = req[q]
    BY <1>14, <2>1, BeginTyped DEF DeleteFile
  <2>3. /\ row[f] = None /\ shared[f] \subseteq {p}
        /\ row' = [row EXCEPT ![f] = p]
        /\ UNCHANGED <<status, refs, shared>>
    BY <1>14 DEF DeleteFile, Lockable
  <2>4. row'[f] = p /\ \A q \in Requests, g \in Files : row[g] = q => row'[g] = q
    BY <2>3
  <2>5. status[f] = "ready" /\ \A h \in Holders : <<h, f>> \notin refs
    BY <1>14 DEF DeleteFile, Attached
  <2>6. req'[p].old = f /\ req'[p].file = None
    BY <2>2 DEF About
  <2>7. UploadHolds'
    BY <2>2, <2>3, <2>4 DEF LockInv, UploadHolds
  <2>8. AttachShares'
    BY <2>2, <2>3, <2>6 DEF LockInv, AttachShares
  <2>9. RowExcludes'
    BY <2>3 DEF LockInv, RowExcludes
  <2>10. DropHolds'
    BY <2>2, <2>3, <2>4, <2>5, <2>6 DEF LockInv, DropHolds
  <2> QED BY <2>7, <2>8, <2>9, <2>10 DEF LockInv
<1>15. ASSUME NEW p \in Requests, Commit(p) PROVE LockInv'
  <2>1. UploadHolds'
    <3> SUFFICES ASSUME NEW q \in Requests, pc'[q] \in {"putting", "marking", "undoing"}
                 PROVE row'[req'[q].file] = q /\ status'[req'[q].file] = "pending_upload"
      BY DEF UploadHolds
    <3>1. q # p /\ pc'[q] = pc[q] /\ req'[q] = req[q]
      BY <1>15, EndTyped DEF Commit
    <3>2. /\ req[q].file \in Files /\ row[req[q].file] = q
          /\ status[req[q].file] = "pending_upload"
      BY <3>1 DEF LockInv, UploadHolds
    <3>3. row'[req[q].file] = q
      BY <1>15, <3>1, <3>2, EndHolds DEF Commit
    <3>4. pc[p] = "dropping" => row[req[p].old] = p
      BY DEF LockInv, DropHolds
    <3>5. status'[req[q].file] = "pending_upload"
      BY <1>15, <3>1, <3>2, <3>4 DEF Commit
    <3> QED BY <3>1, <3>3, <3>5
  <2>2. AttachShares'
    BY <1>15, EndTyped, EndReleases, SMTT(30)
       DEF LockInv, AttachShares, RowExcludes, Commit, Request
  <2>3. RowExcludes'
    BY <1>15, EndTyped, EndReleases
       DEF LockInv, RowExcludes, AttachShares, Commit, Request
  <2>4. DropHolds'
    <3> SUFFICES ASSUME NEW q \in Requests, pc'[q] \in {"keeping", "dropping"}
                 PROVE /\ row'[req'[q].old] = q
                       /\ pc'[q] = "dropping" =>
                             /\ status'[req'[q].old] = "ready"
                             /\ \A h \in Holders : <<h, req'[q].old>> \in refs' => h = req'[q].holder
      BY DEF DropHolds
    <3>1. q # p /\ pc'[q] = pc[q] /\ req'[q] = req[q] /\ req[q].old \in Files
      BY <1>15, EndTyped DEF Commit
    <3>2. row[req[q].old] = q
      BY <3>1 DEF LockInv, DropHolds
    <3>3. row'[req[q].old] = q
      BY <1>15, <3>1, <3>2, EndHolds DEF Commit
    <3>4. pc[p] = "dropping" => row[req[p].old] = p
      BY DEF LockInv, DropHolds
    <3>5. status'[req[q].old] = status[req[q].old]
      BY <1>15, <3>1, <3>2, <3>4 DEF Commit
    <3>6. req[p].file # None => req[p].file # req[q].old
      BY <1>15, <3>1, <3>2 DEF Commit, LockInv, AttachShares, RowExcludes
    <3>7. \A h \in Holders : <<h, req[q].old>> \in refs' => <<h, req[q].old>> \in refs
      BY <1>15, <3>6 DEF Commit
    <3> QED BY <3>1, <3>3, <3>5, <3>7 DEF LockInv, DropHolds
  <2> QED BY <2>1, <2>2, <2>3, <2>4 DEF LockInv
<1>16. ASSUME NEW p \in Requests, Rollback(p) PROVE LockInv'
  <2>1. UploadHolds'
    BY <1>16, EndTyped, EndReleases DEF LockInv, UploadHolds, Rollback
  <2>2. AttachShares'
    BY <1>16, EndShares DEF LockInv, Rollback
  <2>3. RowExcludes'
    BY <1>16, EndTyped, EndReleases DEF LockInv, RowExcludes, AttachShares, Rollback
  <2>4. DropHolds'
    BY <1>16, EndTyped, EndReleases
       DEF LockInv, DropHolds, UploadHolds, AttachShares, RowExcludes, Rollback
  <2> QED BY <2>1, <2>2, <2>3, <2>4 DEF LockInv
<1>17. ASSUME NEW p \in Requests, Crash(p) PROVE LockInv'
  <2>1. UploadHolds'
    BY <1>17, EndTyped, EndReleases DEF LockInv, UploadHolds, Crash
  <2>2. AttachShares'
    BY <1>17, EndShares DEF LockInv, Crash
  <2>3. RowExcludes'
    BY <1>17, EndTyped, EndReleases DEF LockInv, RowExcludes, AttachShares, Crash
  <2>4. DropHolds'
    BY <1>17, EndTyped, EndReleases, SMTT(30)
       DEF LockInv, DropHolds, UploadHolds, AttachShares, RowExcludes, Crash
  <2> QED BY <2>1, <2>2, <2>3, <2>4 DEF LockInv
<1>18. ASSUME NEW j \in Jobs, JobStart(j) PROVE LockInv'
  BY <1>18 DEF JobStart, LockInv, UploadHolds, AttachShares, RowExcludes, DropHolds
<1>19. ASSUME NEW j \in Jobs, NEW f \in Files, DeleteObject(j, f) PROVE LockInv'
  BY <1>19 DEF DeleteObject, LockInv, UploadHolds, AttachShares, RowExcludes, DropHolds
<1>20. ASSUME NEW j \in Jobs, PurgeMark(j) PROVE LockInv'
  <2>1. UploadHolds'
    BY <1>20, StatusTyped DEF LockInv, UploadHolds, PurgeMark, Writable
  <2>2. AttachShares'
    BY <1>20, StatusTyped DEF LockInv, AttachShares, RowExcludes, PurgeMark, Writable
  <2>3. RowExcludes'
    BY <1>20, StatusTyped DEF LockInv, RowExcludes, AttachShares, PurgeMark, Writable
  <2>4. DropHolds'
    BY <1>20, StatusTyped
       DEF LockInv, DropHolds, UploadHolds, AttachShares, RowExcludes, PurgeMark,
           Writable
  <2> QED BY <2>1, <2>2, <2>3, <2>4 DEF LockInv
<1>21. ASSUME NEW j \in Jobs, ReconcileStart(j) PROVE LockInv'
  BY <1>21 DEF ReconcileStart, LockInv, UploadHolds, AttachShares, RowExcludes, DropHolds
<1>22. ASSUME NEW j \in Jobs, NEW f \in Files, HeadObject(j, f) PROVE LockInv'
  BY <1>22 DEF HeadObject, LockInv, UploadHolds, AttachShares, RowExcludes, DropHolds
<1>23. ASSUME NEW j \in Jobs, ReconcileMark(j) PROVE LockInv'
  <2>1. UploadHolds'
    BY <1>23, StatusTyped DEF LockInv, UploadHolds, ReconcileMark, Writable
  <2>2. AttachShares'
    BY <1>23, StatusTyped DEF LockInv, AttachShares, RowExcludes, ReconcileMark, Writable
  <2>3. RowExcludes'
    BY <1>23, StatusTyped DEF LockInv, RowExcludes, AttachShares, ReconcileMark, Writable
  <2>4. DropHolds'
    BY <1>23, StatusTyped
       DEF LockInv, DropHolds, UploadHolds, AttachShares, RowExcludes, ReconcileMark,
           Writable
  <2> QED BY <2>1, <2>2, <2>3, <2>4 DEF LockInv
<1>24. ASSUME NEW j \in Jobs, JobEnd(j) PROVE LockInv'
  BY <1>24 DEF JobEnd, LockInv, UploadHolds, AttachShares, RowExcludes, DropHolds
<1>25. ASSUME NEW j \in Jobs, JobCrash(j) PROVE LockInv'
  BY <1>25 DEF JobCrash, LockInv, UploadHolds, AttachShares, RowExcludes, DropHolds
<1>26. ASSUME NEW p \in Requests, MarkFails(p) \/ LoseConnection(p) PROVE LockInv'
  <2>1. PICK s \in StraySteps : Stray(p, s)
    BY <1>26, ComesLoose
  <2>2. /\ \A f \in Files : row'[f] = IF row[f] = p THEN None ELSE row[f]
        /\ UNCHANGED <<shared, busy, req>>
        /\ pc'[p] \in StraySteps /\ \A q \in Requests : q # p => pc'[q] = pc[q]
    BY <2>1, StrayTyped
  <2>3. UNCHANGED <<status, refs>>
    BY <1>26, ComesLoose
  <2>4. UploadHolds'
    BY <2>2, <2>3 DEF LockInv, UploadHolds, StraySteps
  <2>5. AttachShares'
    BY <2>2, <2>3 DEF LockInv, AttachShares, StraySteps
  <2>6. RowExcludes'
    BY <2>2, <2>3 DEF LockInv, RowExcludes
  <2>7. DropHolds'
    BY <2>2, <2>3 DEF LockInv, DropHolds, StraySteps
  <2> QED BY <2>4, <2>5, <2>6, <2>7 DEF LockInv
<1>27. ASSUME NEW p \in Requests, StrayPut(p) PROVE LockInv'
  <2>1. /\ pc'[p] = "erasing" /\ UNCHANGED req
        /\ \A q \in Requests : q # p => pc'[q] = pc[q]
    BY <1>27, GotoTyped DEF StrayPut, StraySteps
  <2>2. UNCHANGED <<status, refs, row, shared>>
    BY <1>27 DEF StrayPut
  <2> QED
    BY <2>1, <2>2 DEF LockInv, UploadHolds, AttachShares, RowExcludes, DropHolds
<1>28. ASSUME NEW p \in Requests, StrayUndo(p) PROVE LockInv'
  <2>1. UploadHolds'
    BY <1>28, EndTyped, EndHolds DEF LockInv, UploadHolds, StrayUndo
  <2>2. AttachShares'
    BY <1>28, EndShares DEF LockInv, StrayUndo
  <2>3. RowExcludes'
    BY <1>28, EndTyped, EndReleases DEF LockInv, RowExcludes, StrayUndo
  <2>4. DropHolds'
    BY <1>28, EndTyped, EndHolds DEF LockInv, DropHolds, StrayUndo
  <2> QED BY <2>1, <2>2, <2>3, <2>4 DEF LockInv
<1> QED
  BY <1>1, <1>2, <1>3, <1>4, <1>5, <1>6, <1>7, <1>8, <1>9, <1>10, <1>11, <1>12, <1>13,
     <1>14, <1>15, <1>16, <1>17, <1>18, <1>19, <1>20, <1>21, <1>22, <1>23, <1>24, <1>25,
     <1>26, <1>27, <1>28, ZenonT(30)
     DEF Next, RequestStep, JobStep, vars, LockInv, UploadHolds, AttachShares, RowExcludes, DropHolds

-----------------------------------------------------------------------------
(* Who changes the statuses, the batches and the loose uploads. *)

LEMMA WhoSetsStatus ==
    ASSUME [Next]_vars
    PROVE \/ UNCHANGED status
          \/ \E f \in Files : Reserve(f)
          \/ \E p \in Requests : MarkUploaded(p) \/ CompleteMark(p) \/ Commit(p)
          \/ \E j \in Jobs : PurgeMark(j) \/ ReconcileMark(j)
<1>1. ASSUME NEW f \in Files, ClientPut(f) \/ Elapse(f) PROVE UNCHANGED status
  BY <1>1 DEF rows, ClientPut, Elapse
<1>2. ASSUME NEW p \in Requests,
             \/ Put(p) \/ Undo(p) \/ MarkFails(p) \/ LoseConnection(p) \/ StrayPut(p)
             \/ StrayUndo(p) \/ AttachWrite(p) \/ Cleanup(p) \/ Rollback(p) \/ Crash(p)
      PROVE UNCHANGED status
  BY <1>2 DEF rows, Put, Undo, MarkFails, LoseConnection, StrayPut, StrayUndo, AttachWrite,
              Cleanup, Rollback, Crash
<1>3. ASSUME NEW p \in Requests, NEW f \in Files,
             UploadBegin(p, f) \/ CompleteHead(p, f) \/ DeleteFile(p, f)
      PROVE UNCHANGED status
  BY <1>3 DEF rows, UploadBegin, CompleteHead, DeleteFile
<1>4. ASSUME NEW p \in Requests, NEW h \in Holders, NEW f \in Files,
             AttachRead(p, h, f) \/ Detach(p, h, f)
      PROVE UNCHANGED status
  BY <1>4 DEF rows, AttachRead, Detach
<1>5. ASSUME NEW j \in Jobs, JobStart(j) \/ ReconcileStart(j) \/ JobEnd(j) \/ JobCrash(j)
      PROVE UNCHANGED status
  BY <1>5 DEF rows, JobStart, ReconcileStart, JobEnd, JobCrash
<1>6. ASSUME NEW j \in Jobs, NEW f \in Files, DeleteObject(j, f) \/ HeadObject(j, f)
      PROVE UNCHANGED status
  BY <1>6 DEF rows, DeleteObject, HeadObject
<1>7. CASE UNCHANGED vars
  BY <1>7 DEF vars, rows
<1> QED
  BY <1>1, <1>2, <1>3, <1>4, <1>5, <1>6, <1>7 DEF Next, RequestStep, JobStep

\* A batch shrinks, until the worker goes on to the next one.
LEMMA BatchMoves ==
    ASSUME TypeOK, [Next]_vars, NEW j \in Jobs
    PROVE \/ jpc'[j] = jpc[j] /\ batch'[j] \subseteq batch[j]
          \/ jpc'[j] = "idle" \/ JobStart(j) \/ ReconcileStart(j)
<1> DEFINE Kept == jpc'[j] = jpc[j] /\ batch'[j] \subseteq batch[j]
<1>1. ASSUME UNCHANGED <<jpc, batch>> PROVE Kept
  BY <1>1
<1>2. ASSUME NEW p \in Requests,
             RequestStep(p) \/ Rollback(p) \/ Crash(p) \/ MarkFails(p) \/ LoseConnection(p)
      PROVE Kept
  <2>1. UNCHANGED work
    BY <1>2 DEF RequestStep, Put, MarkUploaded, Undo, StrayPut, StrayUndo, CompleteMark,
                AttachWrite, Cleanup, Commit, Rollback, Crash, MarkFails, LoseConnection
  <2> QED
    BY <1>1, <2>1 DEF work
<1>3. ASSUME NEW p \in Requests, NEW g \in Files,
             UploadBegin(p, g) \/ CompleteHead(p, g) \/ DeleteFile(p, g)
      PROVE Kept
  BY <1>1, <1>3 DEF UploadBegin, CompleteHead, DeleteFile, work
<1>4. ASSUME NEW p \in Requests, NEW g \in Files, NEW h \in Holders,
             AttachRead(p, h, g) \/ Detach(p, h, g)
      PROVE Kept
  BY <1>1, <1>4 DEF AttachRead, Detach, work
<1>5. ASSUME NEW g \in Files, Reserve(g) \/ ClientPut(g) \/ Elapse(g) PROVE Kept
  BY <1>1, <1>5 DEF Reserve, ClientPut, Elapse, work
<1>6. ASSUME NEW k \in Jobs, NEW g \in Files, Done(k, g), UNCHANGED jpc PROVE Kept
  BY <1>6, DoneTyped
<1>7. ASSUME NEW k \in Jobs, NEW g \in Files, DeleteObject(k, g) \/ HeadObject(k, g)
      PROVE Kept
  <2>1. UNCHANGED jpc /\ (Done(k, g) \/ UNCHANGED batch)
    BY <1>7 DEF DeleteObject, HeadObject
  <2> QED
    BY <1>1, <1>6, <2>1
<1>8. ASSUME NEW k \in Jobs, PurgeMark(k) \/ ReconcileMark(k) PROVE Kept
  <2>1. item[k].file \in Files /\ UNCHANGED jpc /\ Done(k, item[k].file)
    BY <1>8 DEF PurgeMark, ReconcileMark, TypeOK
  <2> QED
    BY <1>6, <2>1
<1>9. ASSUME NEW k \in Jobs, JobStart(k) \/ ReconcileStart(k), k # j PROVE Kept
  BY <1>9 DEF JobStart, ReconcileStart, TypeOK
<1>10. ASSUME NEW k \in Jobs, JobEnd(k) \/ JobCrash(k) PROVE Kept \/ jpc'[j] = "idle"
  <2>1. CASE k # j
    BY <1>10, <2>1 DEF JobEnd, JobCrash, TypeOK
  <2>2. CASE k = j
    BY <1>10, <2>2 DEF JobEnd, JobCrash, TypeOK
  <2> QED
    BY <2>1, <2>2
<1>11. ASSUME UNCHANGED vars PROVE Kept
  BY <1>1, <1>11 DEF vars, work
<1> HIDE DEF Kept
<1>12. Kept \/ jpc'[j] = "idle" \/ JobStart(j) \/ ReconcileStart(j)
  BY <1>2, <1>3, <1>4, <1>5, <1>7, <1>8, <1>9, <1>10, <1>11 DEF Next, JobStep
<1> QED
  BY <1>12 DEF Kept

\* An upload of a file is loose.
Strays(q, f) == pc[q] \in StraySteps /\ req[q].file = f

LEMMA LooseMeans ==
    /\ Loose \subseteq Files /\ Loose' \subseteq Files
    /\ \A f \in Files : /\ f \in Loose <=> \E q \in Requests : Strays(q, f)
                        /\ f \in Loose' <=> \E q \in Requests : Strays(q, f)'
BY DEF Loose, Strays

LEMMA LooseKept ==
    ASSUME NEW p \in Requests,
           \A q \in Requests : q # p => pc'[q] = pc[q] /\ req'[q] = req[q],
           \A f \in Files : Strays(p, f)' <=> Strays(p, f)
    PROVE Loose' = Loose
<1>1. \A q \in Requests, f \in Files : Strays(q, f)' <=> Strays(q, f)
  BY DEF Strays
<1> QED
  BY <1>1, LooseMeans

\* Uploads come loose and end, as often as they lose their transactions.
LEMMA LooseMoves ==
    ASSUME TypeInv, [Next]_vars
    PROVE \/ Loose' = Loose
          \/ \E p \in Requests :
                MarkFails(p) \/ LoseConnection(p) \/ StrayUndo(p) \/ Crash(p)
<1> DEFINE Goal == Loose' = Loose
<1>0. TypeOK
  BY DEF TypeInv
<1>1. ASSUME UNCHANGED calls PROVE Goal
  BY <1>1 DEF calls, Loose
<1>2. ASSUME NEW p \in Requests, End(p), pc[p] \notin StraySteps PROVE Goal
  <2>1. pc'[p] = "idle" /\ \A q \in Requests : q # p => pc'[q] = pc[q] /\ req'[q] = req[q]
    BY <1>0, <1>2, EndTyped
  <2> QED
    BY <1>2, <2>1, LooseKept DEF Strays, StraySteps
<1>3. ASSUME NEW p \in Requests, NEW s \in Steps, Goto(p, s),
             pc[p] \in StraySteps <=> s \in StraySteps
      PROVE Goal
  <2>1. pc'[p] = s /\ req' = req /\ \A q \in Requests : q # p => pc'[q] = pc[q]
    BY <1>0, <1>3, GotoTyped
  <2> QED
    BY <1>3, <2>1, LooseKept DEF Strays
<1>4. ASSUME NEW p \in Requests, NEW s \in Steps \ StraySteps, NEW r \in Request, Begin(p, s, r)
      PROVE Goal
  <2>1. /\ pc[p] = "idle" /\ pc'[p] = s
        /\ \A k \in Requests : k # p => pc'[k] = pc[k] /\ req'[k] = req[k]
    BY <1>0, <1>4, BeginTyped DEF Begin
  <2> QED
    BY <2>1, LooseKept DEF Strays, StraySteps
<1>5. ASSUME NEW p \in Requests, NEW f \in Files,
             UploadBegin(p, f) \/ CompleteHead(p, f) \/ DeleteFile(p, f)
      PROVE Goal
  <2>1. About(f, None, None) \in Request /\ About(None, None, f) \in Request
    BY DEF About, Request
  <2>2. \E s \in Steps \ StraySteps, r \in Request : Begin(p, s, r)
    BY <1>5, <2>1 DEF UploadBegin, CompleteHead, DeleteFile, Steps, StraySteps
  <2> QED
    BY <1>4, <2>2
<1>6. ASSUME NEW p \in Requests, NEW h \in Holders, NEW f \in Files,
             AttachRead(p, h, f) \/ Detach(p, h, f)
      PROVE Goal
  <2>1. About(f, h, None) \in Request /\ About(None, h, f) \in Request
    BY DEF About, Request
  <2>2. \E s \in Steps \ StraySteps, r \in Request : Begin(p, s, r)
    BY <1>6, <2>1 DEF AttachRead, Detach, Steps, StraySteps
  <2> QED
    BY <1>4, <2>2
<1>7. ASSUME NEW p \in Requests,
             Put(p) \/ MarkUploaded(p) \/ StrayPut(p) \/ Cleanup(p)
      PROVE Goal
  <2>1. \/ End(p) /\ pc[p] \notin StraySteps
        \/ \E s \in Steps : Goto(p, s) /\ (pc[p] \in StraySteps <=> s \in StraySteps)
    BY <1>7 DEF Put, MarkUploaded, StrayPut, Cleanup, Steps, StraySteps
  <2> QED
    BY <1>2, <1>3, <2>1
<1>8. ASSUME NEW p \in Requests,
             Undo(p) \/ CompleteMark(p) \/ Commit(p) \/ Rollback(p)
      PROVE Goal
  <2>1. End(p) /\ pc[p] \notin StraySteps
    BY <1>8 DEF Undo, CompleteMark, Commit, Rollback, StraySteps
  <2> QED
    BY <1>2, <2>1
<1>9. ASSUME NEW p \in Requests, AttachWrite(p) PROVE Goal
  <2>1. pc[p] \notin StraySteps
    BY <1>9 DEF AttachWrite, StraySteps
  <2>2. CASE <<req[p].holder, req[p].file>> \in refs
    BY <1>2, <1>9, <2>1, <2>2 DEF AttachWrite
  <2>3. CASE <<req[p].holder, req[p].file>> \notin refs
    <3>1. /\ pc'[p] = "attached"
          /\ \A q \in Requests : q # p => pc'[q] = pc[q] /\ req'[q] = req[q]
      BY <1>9, <2>3, AttachWritten
    <3> QED
      BY <2>1, <3>1, LooseKept DEF Strays, StraySteps
  <2> QED
    BY <2>2, <2>3
<1>10. ASSUME NEW f \in Files, Reserve(f) \/ ClientPut(f) \/ Elapse(f) PROVE Goal
  BY <1>1, <1>10 DEF Reserve, ClientPut, Elapse
<1>11. ASSUME NEW j \in Jobs,
              \/ JobStart(j) \/ ReconcileStart(j) \/ JobEnd(j) \/ PurgeMark(j)
              \/ ReconcileMark(j) \/ JobCrash(j)
              \/ \E f \in Files : DeleteObject(j, f) \/ HeadObject(j, f)
       PROVE Goal
  BY <1>1, <1>11
     DEF JobStart, ReconcileStart, JobEnd, PurgeMark, ReconcileMark, JobCrash,
         DeleteObject, HeadObject
<1>12. ASSUME UNCHANGED vars PROVE Goal
  BY <1>1, <1>12 DEF vars
<1> HIDE DEF Goal
<1>13. Goal \/ \E p \in Requests :
                  MarkFails(p) \/ LoseConnection(p) \/ StrayUndo(p) \/ Crash(p)
  BY <1>5, <1>6, <1>7, <1>8, <1>9, <1>10, <1>11, <1>12 DEF Next, RequestStep, JobStep
<1> QED
  BY <1>13 DEF Goal

LEMMA Loosened ==
    ASSUME TypeInv, NEW p \in Requests, MarkFails(p) \/ LoseConnection(p)
    PROVE Loose' = Loose \cup {req[p].file}
<1>1. /\ pc[p] \in {"putting", "marking", "undoing"} /\ req[p].file \in Files
      /\ \E s \in StraySteps : Stray(p, s)
  BY ComesLoose
<1>2. /\ req' = req /\ pc'[p] \in StraySteps
      /\ \A q \in Requests : q # p => pc'[q] = pc[q]
  BY <1>1, StrayTyped DEF TypeInv
<1>3. \A f \in Files : Strays(p, f)' <=> f = req[p].file
  BY <1>2 DEF Strays
<1>4. \A f \in Files : ~Strays(p, f)
  BY <1>1 DEF Strays, StraySteps
<1>5. \A q \in Requests, f \in Files : q # p => (Strays(q, f)' <=> Strays(q, f))
  BY <1>2 DEF Strays
<1> QED
  BY <1>1, <1>3, <1>4, <1>5, LooseMeans

LEMMA Tightened ==
    ASSUME TypeInv, NEW p \in Requests, End(p)
    PROVE Loose' \in {Loose, Loose \ {req[p].file}}
<1>1. pc'[p] = "idle" /\ \A q \in Requests : q # p => pc'[q] = pc[q] /\ req'[q] = req[q]
  BY EndTyped DEF TypeInv
<1>2. \A f \in Files : ~Strays(p, f)' /\ (Strays(p, f) => f = req[p].file)
  BY <1>1 DEF Strays, StraySteps
<1>3. \A q \in Requests, f \in Files : q # p => (Strays(q, f)' <=> Strays(q, f))
  BY <1>1 DEF Strays
<1>4. \A f \in Files : f # req[p].file => (f \in Loose' <=> f \in Loose)
  BY <1>2, <1>3, LooseMeans
<1>5. req[p].file \in Loose' => req[p].file \in Loose
  BY <1>2, <1>3, LooseMeans
<1> QED
  BY <1>4, <1>5, LooseMeans

-----------------------------------------------------------------------------
(* Objects: which the store has, and which it has no more. *)

\* A file deleted, whose URL has expired.
Gone(f) == status[f] \in {"pending_delete", "deleted"} /\ age[f] = "day"

\* A file that has an object, or lost it to an upload, while it is pending.
Stored(f) ==
    /\ status[f] # "none"
    /\ status[f] = "pending_upload" /\ object[f] = "none" => f \in bereft

MarkingStored ==
    \A p \in Requests : pc[p] = "marking" =>
        object[req[p].file] # "none" \/ req[p].file \in bereft

CompletingStored ==
    \A p \in Requests : pc[p] = "completing" => Stored(req[p].file)

ReconcilingStored ==
    \A j \in Jobs : jpc[j] = "reconciling" /\ item[j].seen = "right" => Stored(item[j].file)

BatchReserved == \A j \in Jobs : \A f \in batch[j] : status[f] # "none"

\* The purge is about deleted files, and about one that has no object any more.
BatchIsGone ==
    \A j \in Jobs : jpc[j] = "purging" => \A f \in batch[j] : Gone(f)

ItemIsGone ==
    \A j \in Jobs : jpc[j] = "purging" /\ item[j] # NoItem => object[item[j].file] = "none"

PurgedIsGone ==
    \A f \in Files : status[f] = "deleted" => Gone(f) /\ object[f] = "none"

ObjectInv ==
    /\ MarkingStored /\ CompletingStored /\ ReconcilingStored /\ BatchReserved
    /\ BatchIsGone /\ ItemIsGone /\ PurgedIsGone /\ ReadyHasObject

\* No upload is loose of a file that the purge is about, or was.
TightInv ==
    /\ \A j \in Jobs : jpc[j] = "purging" => \A f \in batch[j] : f \notin Loose
    /\ \A f \in Files : status[f] = "deleted" => f \notin Loose

LEMMA TightStep ==
    ASSUME TypeInv, LockInv, ObjectInv, TightInv, [Next]_vars
    PROVE TightInv'
<1>0. TypeOK
  BY DEF TypeInv
<1>1. ASSUME NEW f \in Loose', f \notin Loose PROVE status[f] = "pending_upload"
  <2>1. PICK p \in Requests : MarkFails(p) \/ LoseConnection(p) \/ StrayUndo(p) \/ Crash(p)
    BY <1>1, LooseMoves
  <2>2. ~End(p)
    BY <1>1, Tightened
  <2>3. MarkFails(p) \/ LoseConnection(p)
    BY <2>1, <2>2 DEF StrayUndo, Crash
  <2>4. f = req[p].file /\ pc[p] \in {"putting", "marking", "undoing"}
    BY <1>1, <2>3, Loosened, ComesLoose
  <2> QED
    BY <2>4 DEF LockInv, UploadHolds
<1>2. ASSUME NEW j \in Jobs, jpc'[j] = "purging", NEW f \in batch'[j] PROVE f \notin Loose'
  <2>1. CASE jpc'[j] = jpc[j] /\ batch'[j] \subseteq batch[j]
    <3>1. f \notin Loose /\ Gone(f)
      BY <1>2, <2>1 DEF TightInv, ObjectInv, BatchIsGone
    <3> QED
      BY <1>1, <3>1 DEF Gone
  <2>2. CASE JobStart(j)
    <3>1. f \notin Loose
      BY <1>0, <1>2, <2>2 DEF JobStart, TypeOK
    <3>2. Loose' = Loose
      BY <2>2 DEF JobStart, calls, Loose
    <3> QED
      BY <3>1, <3>2
  <2>3. CASE ReconcileStart(j)
    BY <1>0, <1>2, <2>3 DEF ReconcileStart, TypeOK
  <2> QED
    BY <1>0, <1>2, <2>1, <2>2, <2>3, BatchMoves
<1>3. ASSUME NEW f \in Files, status'[f] = "deleted" PROVE f \notin Loose'
  <2>1. CASE status[f] = "deleted"
    BY <1>1, <2>1 DEF TightInv
  <2>2. CASE status[f] # "deleted"
    <3>1. PICK j \in Jobs : PurgeMark(j)
      <4>1. ASSUME NEW g \in Files, NEW s \in {"pending_upload", "ready", "upload_failed"},
                   SetStatus(g, s)
            PROVE FALSE
        BY <1>0, <1>3, <2>2, <4>1, StatusTyped DEF Statuses
      <4>2. ~UNCHANGED status
        BY <1>3, <2>2
      <4>3. ASSUME NEW g \in Files, Reserve(g) PROVE FALSE
        BY <4>1, <4>3 DEF Reserve
      <4>4. ASSUME NEW p \in Requests, MarkUploaded(p) \/ CompleteMark(p) PROVE FALSE
        <5>1. req[p].file \in Files
          BY <4>4 DEF TypeInv, RequestShape, MarkUploaded, CompleteMark
        <5> QED
          BY <4>1, <4>2, <4>4, <5>1 DEF MarkUploaded, CompleteMark
      <4>5. ASSUME NEW p \in Requests, Commit(p) PROVE FALSE
        BY <1>0, <1>3, <2>2, <4>5 DEF Commit, TypeOK
      <4>6. ASSUME NEW j \in Jobs, ReconcileMark(j) PROVE FALSE
        <5>1. item[j].file \in Files
          BY <1>0, <4>6 DEF ReconcileMark, TypeOK
        <5> QED
          BY <4>1, <4>2, <4>6, <5>1 DEF ReconcileMark
      <4> QED
        BY <4>2, <4>3, <4>4, <4>5, <4>6, WhoSetsStatus
    <3>2. item[j].file \in Files /\ jpc[j] = "purging" /\ item[j].file \in batch[j]
      BY <1>0, <3>1, StoredFilesAssumption DEF PurgeMark, TypeOK, TypeInv, ItemShape, NoItem
    <3>3. f = item[j].file
      <4>1. SetStatus(item[j].file, "deleted")
        BY <1>3, <2>2, <3>1 DEF PurgeMark
      <4> QED
        BY <1>0, <1>3, <2>2, <3>2, <4>1, StatusTyped DEF Statuses
    <3>4. Loose' = Loose
      BY <3>1 DEF PurgeMark, calls, Loose
    <3> QED
      BY <3>2, <3>3, <3>4 DEF TightInv
  <2> QED
    BY <2>1, <2>2
<1> QED
  BY <1>2, <1>3 DEF TightInv

LEMMA MarkingStays ==
    ASSUME NEW p \in Requests, MarkingStored, pc'[p] # "marking",
           \A q \in Requests : q # p => pc'[q] = pc[q] /\ req'[q] = req[q],
           UNCHANGED <<object, bereft>>
    PROVE MarkingStored'
BY DEF MarkingStored

LEMMA CompletingStays ==
    ASSUME NEW p \in Requests, CompletingStored, pc'[p] # "completing",
           \A q \in Requests : q # p => pc'[q] = pc[q] /\ req'[q] = req[q],
           UNCHANGED <<status, object, bereft>>
    PROVE CompletingStored'
BY DEF CompletingStored, Stored

LEMMA ObjectStep ==
    ASSUME TypeInv, LockInv, ObjectInv, TightInv, [Next]_vars
    PROVE ObjectInv'
<1> USE StoredFilesAssumption
        DEF TypeInv, TypeOK, RequestShape, Statuses, Steps, rows, locks, calls, work, bounds
<1>1. ASSUME NEW f \in Files, Reserve(f) PROVE ObjectInv'
  <2>1. MarkingStored'
    BY <1>1, StatusTyped DEF MarkingStored, UploadHolds, Gone, LockInv, ObjectInv, Reserve
  <2>2. CompletingStored'
    BY <1>1, StatusTyped
       DEF CompletingStored, Stored, UploadHolds, Gone, LockInv, ObjectInv, Reserve
  <2>3. ReconcilingStored'
    BY <1>1, StatusTyped
       DEF ReconcilingStored, Stored, BatchReserved, ItemShape, NoItem, UploadHolds,
           Gone, LockInv, ObjectInv, Reserve
  <2>4. BatchReserved'
    BY <1>1, StatusTyped DEF BatchReserved, UploadHolds, Gone, LockInv, ObjectInv, Reserve
  <2>5. BatchIsGone'
    BY <1>1, StatusTyped DEF BatchIsGone, Gone, UploadHolds, LockInv, ObjectInv, Reserve
  <2>6. ItemIsGone'
    BY <1>1, StatusTyped
       DEF ItemIsGone, BatchIsGone, Gone, ItemShape, NoItem, UploadHolds, LockInv,
           ObjectInv, Reserve
  <2>7. PurgedIsGone'
    BY <1>1, StatusTyped DEF PurgedIsGone, Gone, UploadHolds, LockInv, ObjectInv, Reserve
  <2>8. ReadyHasObject'
    BY <1>1, StatusTyped
       DEF ReadyHasObject, UploadHolds, Gone, LockInv, ObjectInv, Reserve
  <2> QED BY <2>1, <2>2, <2>3, <2>4, <2>5, <2>6, <2>7, <2>8 DEF ObjectInv
<1>2. ASSUME NEW f \in Files, ClientPut(f) PROVE ObjectInv'
  <2>1. MarkingStored'
    BY <1>2, ObjectTyped DEF MarkingStored, Gone, LockInv, ObjectInv, ClientPut
  <2>2. CompletingStored'
    BY <1>2, ObjectTyped DEF CompletingStored, Stored, Gone, LockInv, ObjectInv, ClientPut
  <2>3. ReconcilingStored'
    BY <1>2, ObjectTyped
       DEF ReconcilingStored, Stored, BatchReserved, ItemShape, NoItem, Gone, LockInv,
           ObjectInv, ClientPut
  <2>4. BatchReserved'
    BY <1>2, ObjectTyped DEF BatchReserved, Gone, LockInv, ObjectInv, ClientPut
  <2>5. BatchIsGone'
    BY <1>2, ObjectTyped DEF BatchIsGone, Gone, LockInv, ObjectInv, ClientPut
  <2>6. ItemIsGone'
    BY <1>2, ObjectTyped
       DEF ItemIsGone, BatchIsGone, Gone, ItemShape, NoItem, LockInv, ObjectInv,
           ClientPut
  <2>7. PurgedIsGone'
    BY <1>2, ObjectTyped DEF PurgedIsGone, Gone, LockInv, ObjectInv, ClientPut
  <2>8. ReadyHasObject'
    BY <1>2, ObjectTyped DEF ReadyHasObject, Gone, LockInv, ObjectInv, ClientPut
  <2> QED BY <2>1, <2>2, <2>3, <2>4, <2>5, <2>6, <2>7, <2>8 DEF ObjectInv
<1>3. ASSUME NEW f \in Files, Elapse(f) PROVE ObjectInv'
  <2>1. MarkingStored'
    BY <1>3 DEF MarkingStored, LockInv, ObjectInv, Elapse
  <2>2. CompletingStored'
    BY <1>3 DEF CompletingStored, Stored, LockInv, ObjectInv, Elapse
  <2>3. ReconcilingStored'
    BY <1>3
       DEF ReconcilingStored, Stored, BatchReserved, ItemShape, NoItem, LockInv,
           ObjectInv, Elapse
  <2>4. BatchReserved'
    BY <1>3 DEF BatchReserved, LockInv, ObjectInv, Elapse
  <2>5. BatchIsGone'
    BY <1>3 DEF BatchIsGone, Gone, LockInv, ObjectInv, Elapse
  <2>6. ItemIsGone'
    BY <1>3
       DEF ItemIsGone, BatchIsGone, Gone, ItemShape, NoItem, LockInv, ObjectInv, Elapse
  <2>7. PurgedIsGone'
    BY <1>3 DEF PurgedIsGone, Gone, LockInv, ObjectInv, Elapse
  <2>8. ReadyHasObject'
    BY <1>3 DEF ReadyHasObject, LockInv, ObjectInv, Elapse
  <2> QED BY <2>1, <2>2, <2>3, <2>4, <2>5, <2>6, <2>7, <2>8 DEF ObjectInv
<1>4. ASSUME NEW p \in Requests, NEW f \in Files, UploadBegin(p, f) PROVE ObjectInv'
  <2>a. About(f, None, None) \in Request
    BY DEF About, Request
  <2>b. /\ pc'[p] = "putting"
        /\ \A q \in Requests : q # p => pc'[q] = pc[q] /\ req'[q] = req[q]
    BY <1>4, <2>a, BeginTyped DEF UploadBegin
  <2>c. UNCHANGED <<status, object, bereft>>
    BY <1>4 DEF UploadBegin
  <2>1. MarkingStored'
    BY <2>b, <2>c, MarkingStays DEF ObjectInv
  <2>2. CompletingStored'
    BY <2>b, <2>c, CompletingStays DEF ObjectInv
  <2>3. ReconcilingStored'
    BY <1>4, BeginTyped
       DEF ReconcilingStored, Stored, BatchReserved, ItemShape, NoItem, LockInv,
           ObjectInv, UploadBegin, About, Request
  <2>4. BatchReserved'
    BY <1>4, BeginTyped DEF BatchReserved, LockInv, ObjectInv, UploadBegin, About, Request
  <2>5. BatchIsGone'
    BY <1>4, BeginTyped
       DEF BatchIsGone, Gone, LockInv, ObjectInv, UploadBegin, About, Request
  <2>6. ItemIsGone'
    BY <1>4, BeginTyped
       DEF ItemIsGone, BatchIsGone, Gone, ItemShape, NoItem, LockInv, ObjectInv,
           UploadBegin, About, Request
  <2>7. PurgedIsGone'
    BY <1>4, BeginTyped
       DEF PurgedIsGone, Gone, LockInv, ObjectInv, UploadBegin, About, Request
  <2>8. ReadyHasObject'
    BY <1>4, BeginTyped
       DEF ReadyHasObject, LockInv, ObjectInv, UploadBegin, About, Request
  <2> QED BY <2>1, <2>2, <2>3, <2>4, <2>5, <2>6, <2>7, <2>8 DEF ObjectInv
<1>5. ASSUME NEW p \in Requests, Put(p) PROVE ObjectInv'
  <2>1. /\ pc[p] = "putting" /\ req[p].file \in Files
        /\ status[req[p].file] = "pending_upload"
    BY <1>5 DEF Put, LockInv, UploadHolds
  <2>2. /\ \A f \in Files : f # req[p].file => object'[f] = object[f]
        /\ \A f \in Files : object'[f] = "none" => object[f] = "none"
        /\ pc'[p] = "marking" => object'[req[p].file] # "none"
        /\ pc'[p] \in {"marking", "undoing"} /\ req' = req
        /\ \A q \in Requests : q # p => pc'[q] = pc[q]
    BY <1>5, <2>1 DEF Put, SetObject, Goto
  <2>3. UNCHANGED <<status, age, jpc, batch, item, bereft>>
    BY <1>5 DEF Put
  <2>4. \A j \in Jobs : item[j] # NoItem => item[j].file \in batch[j] /\ item[j].file \in Files
    BY DEF ItemShape
  <2>5. \A q \in Requests : q # p /\ pc[q] = "marking" => req[q].file # req[p].file
    BY <1>5, <2>1 DEF Put, LockInv, UploadHolds
  <2>6. \A j \in Jobs : jpc[j] = "purging" /\ item[j] # NoItem => item[j].file # req[p].file
    BY <2>1, <2>4 DEF ObjectInv, BatchIsGone, Gone
  <2>7. MarkingStored'
    BY <2>1, <2>2, <2>3, <2>4, <2>5, <2>6 DEF ObjectInv, MarkingStored
  <2>8. CompletingStored'
    BY <2>1, <2>2, <2>3, <2>4, <2>5, <2>6 DEF ObjectInv, CompletingStored, Stored
  <2>9. ReconcilingStored'
    BY <2>1, <2>2, <2>3, <2>4, <2>5, <2>6 DEF ObjectInv, ReconcilingStored, Stored, NoItem
  <2>10. BatchReserved'
    BY <2>1, <2>2, <2>3, <2>4, <2>5, <2>6 DEF ObjectInv, BatchReserved
  <2>11. BatchIsGone'
    BY <2>1, <2>2, <2>3, <2>4, <2>5, <2>6 DEF ObjectInv, BatchIsGone, Gone
  <2>12. ItemIsGone'
    BY <2>1, <2>2, <2>3, <2>4, <2>5, <2>6 DEF ObjectInv, ItemIsGone, NoItem
  <2>13. PurgedIsGone'
    BY <2>1, <2>2, <2>3, <2>4, <2>5, <2>6 DEF ObjectInv, PurgedIsGone, Gone
  <2>14. ReadyHasObject'
    BY <2>1, <2>2, <2>3, <2>4, <2>5, <2>6 DEF ObjectInv, ReadyHasObject
  <2> QED BY <2>7, <2>8, <2>9, <2>10, <2>11, <2>12, <2>13, <2>14 DEF ObjectInv
<1>6. ASSUME NEW p \in Requests, MarkUploaded(p) PROVE ObjectInv'
  <2>1. MarkingStored'
    BY <1>6, EndTyped, GotoTyped, StatusTyped
       DEF MarkingStored, UploadHolds, LockInv, ObjectInv, MarkUploaded
  <2>2. CompletingStored'
    BY <1>6, EndTyped, GotoTyped, StatusTyped
       DEF CompletingStored, Stored, UploadHolds, MarkingStored, LockInv, ObjectInv,
           MarkUploaded
  <2>3. ReconcilingStored'
    BY <1>6, EndTyped, GotoTyped, StatusTyped
       DEF ReconcilingStored, Stored, BatchReserved, ItemShape, NoItem, UploadHolds,
           MarkingStored, LockInv, ObjectInv, MarkUploaded
  <2>4. BatchReserved'
    BY <1>6, EndTyped, GotoTyped, StatusTyped
       DEF BatchReserved, UploadHolds, MarkingStored, LockInv, ObjectInv, MarkUploaded
  <2>5. BatchIsGone'
    <3>1. /\ req[p].file \in Files /\ status[req[p].file] = "pending_upload"
          /\ \A f \in Files : f # req[p].file => status'[f] = status[f]
      BY <1>6, StatusTyped DEF MarkUploaded, LockInv, UploadHolds
    <3> QED BY <1>6, <3>1 DEF MarkUploaded, ObjectInv, BatchIsGone, Gone
  <2>6. ItemIsGone'
    BY <1>6, EndTyped, GotoTyped, StatusTyped
       DEF ItemIsGone, BatchIsGone, Gone, ItemShape, NoItem, UploadHolds, MarkingStored,
           LockInv, ObjectInv, MarkUploaded
  <2>7. PurgedIsGone'
    BY <1>6, EndTyped, GotoTyped, StatusTyped
       DEF PurgedIsGone, Gone, UploadHolds, MarkingStored, LockInv, ObjectInv,
           MarkUploaded
  <2>8. ReadyHasObject'
    BY <1>6, EndTyped, GotoTyped, StatusTyped
       DEF ReadyHasObject, UploadHolds, MarkingStored, LockInv, ObjectInv, MarkUploaded
  <2> QED BY <2>1, <2>2, <2>3, <2>4, <2>5, <2>6, <2>7, <2>8 DEF ObjectInv
<1>7. ASSUME NEW p \in Requests, Undo(p) PROVE ObjectInv'
  <2>1. MarkingStored'
    BY <1>7, EndTyped, ObjectTyped
       DEF MarkingStored, UploadHolds, LockInv, ObjectInv, Undo
  <2>2. CompletingStored'
    BY <1>7, EndTyped, ObjectTyped
       DEF CompletingStored, Stored, Finishing, UploadHolds, LockInv, ObjectInv, Undo
  <2>3. ReconcilingStored'
    BY <1>7, EndTyped, ObjectTyped
       DEF ReconcilingStored, Stored, BatchReserved, Finishing, ItemShape, NoItem,
           UploadHolds, LockInv, ObjectInv, Undo
  <2>4. BatchReserved'
    BY <1>7, EndTyped, ObjectTyped
       DEF BatchReserved, UploadHolds, LockInv, ObjectInv, Undo
  <2>5. BatchIsGone'
    BY <1>7, EndTyped, ObjectTyped
       DEF BatchIsGone, Gone, UploadHolds, LockInv, ObjectInv, Undo
  <2>6. ItemIsGone'
    BY <1>7, EndTyped, ObjectTyped
       DEF ItemIsGone, BatchIsGone, Gone, ItemShape, NoItem, UploadHolds, LockInv,
           ObjectInv, Undo
  <2>7. PurgedIsGone'
    BY <1>7, EndTyped, ObjectTyped
       DEF PurgedIsGone, Gone, UploadHolds, LockInv, ObjectInv, Undo
  <2>8. ReadyHasObject'
    BY <1>7, EndTyped, ObjectTyped
       DEF ReadyHasObject, UploadHolds, LockInv, ObjectInv, Undo
  <2> QED BY <2>1, <2>2, <2>3, <2>4, <2>5, <2>6, <2>7, <2>8 DEF ObjectInv
<1>8. ASSUME NEW p \in Requests, NEW f \in Files, CompleteHead(p, f) PROVE ObjectInv'
  <2>1. MarkingStored'
    <3>1. About(f, None, None) \in Request
      BY DEF About, Request
    <3>2. /\ pc'[p] = "completing"
          /\ \A q \in Requests : q # p => pc'[q] = pc[q] /\ req'[q] = req[q]
      BY <1>8, <3>1, BeginTyped DEF CompleteHead
    <3>3. UNCHANGED <<object, bereft>>
      BY <1>8 DEF CompleteHead
    <3> QED BY <3>2, <3>3, MarkingStays DEF ObjectInv
  <2>2. CompletingStored'
    <3>1. About(f, None, None) \in Request
      BY DEF About, Request
    <3>2. /\ req'[p] = About(f, None, None)
          /\ \A q \in Requests : q # p => pc'[q] = pc[q] /\ req'[q] = req[q]
      BY <1>8, <3>1, BeginTyped DEF CompleteHead
    <3>3. status[f] = "pending_upload" /\ object[f] = "right"
      BY <1>8 DEF CompleteHead
    <3> QED BY <1>8, <3>2, <3>3
               DEF CompleteHead, About, ObjectInv, CompletingStored, Stored
  <2>3. ReconcilingStored'
    BY <1>8, BeginTyped
       DEF ReconcilingStored, Stored, BatchReserved, Finishing, ItemShape, NoItem,
           LockInv, ObjectInv, CompleteHead, About, Request
  <2>4. BatchReserved'
    BY <1>8, BeginTyped
       DEF BatchReserved, LockInv, ObjectInv, CompleteHead, About, Request
  <2>5. BatchIsGone'
    BY <1>8, BeginTyped
       DEF BatchIsGone, Gone, LockInv, ObjectInv, CompleteHead, About, Request
  <2>6. ItemIsGone'
    BY <1>8, BeginTyped
       DEF ItemIsGone, BatchIsGone, Gone, ItemShape, NoItem, LockInv, ObjectInv,
           CompleteHead, About, Request
  <2>7. PurgedIsGone'
    BY <1>8, BeginTyped
       DEF PurgedIsGone, Gone, LockInv, ObjectInv, CompleteHead, About, Request
  <2>8. ReadyHasObject'
    BY <1>8, BeginTyped
       DEF ReadyHasObject, LockInv, ObjectInv, CompleteHead, About, Request
  <2> QED BY <2>1, <2>2, <2>3, <2>4, <2>5, <2>6, <2>7, <2>8 DEF ObjectInv
<1>9. ASSUME NEW p \in Requests, CompleteMark(p) PROVE ObjectInv'
  <2>1. MarkingStored'
    BY <1>9, EndTyped, MarkingStays DEF ObjectInv, CompleteMark
  <2>2. CompletingStored'
    BY <1>9, EndTyped, StatusTyped
       DEF CompletingStored, Stored, LockInv, ObjectInv, CompleteMark, Writable
  <2>3. ReconcilingStored'
    BY <1>9, EndTyped, StatusTyped
       DEF ReconcilingStored, Stored, BatchReserved, ItemShape, NoItem,
           CompletingStored, LockInv, ObjectInv, CompleteMark, Writable
  <2>4. BatchReserved'
    BY <1>9, EndTyped, StatusTyped
       DEF BatchReserved, CompletingStored, Stored, LockInv, ObjectInv, CompleteMark,
           Writable
  <2>5. BatchIsGone'
    BY <1>9, EndTyped, StatusTyped
       DEF BatchIsGone, Gone, CompletingStored, Stored, LockInv, ObjectInv,
           CompleteMark, Writable
  <2>6. ItemIsGone'
    BY <1>9, EndTyped, StatusTyped
       DEF ItemIsGone, BatchIsGone, Gone, ItemShape, NoItem, CompletingStored, Stored,
           LockInv, ObjectInv, CompleteMark, Writable
  <2>7. PurgedIsGone'
    BY <1>9, EndTyped, StatusTyped
       DEF PurgedIsGone, Gone, CompletingStored, Stored, LockInv, ObjectInv,
           CompleteMark, Writable
  <2>8. ReadyHasObject'
    BY <1>9, EndTyped, StatusTyped
       DEF ReadyHasObject, CompletingStored, Stored, LockInv, ObjectInv, CompleteMark,
           Writable
  <2> QED BY <2>1, <2>2, <2>3, <2>4, <2>5, <2>6, <2>7, <2>8 DEF ObjectInv
<1>10. ASSUME NEW p \in Requests, NEW h \in Holders, NEW f \in Files, AttachRead(p, h, f) PROVE ObjectInv'
  <2>a. About(f, h, None) \in Request
    BY DEF About, Request
  <2>b. /\ pc'[p] = "attaching"
        /\ \A q \in Requests : q # p => pc'[q] = pc[q] /\ req'[q] = req[q]
    BY <1>10, <2>a, BeginTyped DEF AttachRead
  <2>c. UNCHANGED <<status, object, bereft>>
    BY <1>10 DEF AttachRead
  <2>1. MarkingStored'
    BY <2>b, <2>c, MarkingStays DEF ObjectInv
  <2>2. CompletingStored'
    BY <2>b, <2>c, CompletingStays DEF ObjectInv
  <2>3. ReconcilingStored'
    BY <1>10, BeginTyped
       DEF ReconcilingStored, Stored, BatchReserved, ItemShape, NoItem, LockInv,
           ObjectInv, AttachRead, About, Request
  <2>4. BatchReserved'
    BY <1>10, BeginTyped DEF BatchReserved, LockInv, ObjectInv, AttachRead, About, Request
  <2>5. BatchIsGone'
    BY <1>10, BeginTyped
       DEF BatchIsGone, Gone, LockInv, ObjectInv, AttachRead, About, Request
  <2>6. ItemIsGone'
    BY <1>10, BeginTyped
       DEF ItemIsGone, BatchIsGone, Gone, ItemShape, NoItem, LockInv, ObjectInv,
           AttachRead, About, Request
  <2>7. PurgedIsGone'
    BY <1>10, BeginTyped
       DEF PurgedIsGone, Gone, LockInv, ObjectInv, AttachRead, About, Request
  <2>8. ReadyHasObject'
    BY <1>10, BeginTyped
       DEF ReadyHasObject, LockInv, ObjectInv, AttachRead, About, Request
  <2> QED BY <2>1, <2>2, <2>3, <2>4, <2>5, <2>6, <2>7, <2>8 DEF ObjectInv
<1>11. ASSUME NEW p \in Requests, AttachWrite(p) PROVE ObjectInv'
  <2>1. /\ pc'[p] \in {"idle", "attached"}
        /\ \A q \in Requests : q # p => pc'[q] = pc[q] /\ req'[q] = req[q]
    <3>1. CASE <<req[p].holder, req[p].file>> \in refs
      BY <1>11, <3>1, EndTyped DEF AttachWrite
    <3>2. CASE <<req[p].holder, req[p].file>> \notin refs
      BY <1>11, <3>2, AttachWritten
    <3> QED BY <3>1, <3>2
  <2>2. UNCHANGED <<status, object, age, jpc, batch, item, bereft>>
    BY <1>11 DEF AttachWrite
  <2> QED
    BY <2>1, <2>2
       DEF ObjectInv, MarkingStored, CompletingStored, ReconcilingStored, Stored,
       BatchReserved, BatchIsGone, ItemIsGone, Gone, PurgedIsGone, ReadyHasObject
<1>12. ASSUME NEW p \in Requests, NEW h \in Holders, NEW f \in Files, Detach(p, h, f) PROVE ObjectInv'
  <2>a. About(None, h, f) \in Request
    BY DEF About, Request
  <2>b. /\ pc'[p] = "attached"
        /\ \A q \in Requests : q # p => pc'[q] = pc[q] /\ req'[q] = req[q]
    BY <1>12, <2>a, BeginTyped DEF Detach
  <2>c. UNCHANGED <<status, object, bereft>>
    BY <1>12 DEF Detach
  <2>1. MarkingStored'
    BY <2>b, <2>c, MarkingStays DEF ObjectInv
  <2>2. CompletingStored'
    BY <2>b, <2>c, CompletingStays DEF ObjectInv
  <2>3. ReconcilingStored'
    BY <1>12, BeginTyped
       DEF ReconcilingStored, Stored, BatchReserved, ItemShape, NoItem, LockInv,
           ObjectInv, Detach, About, Request
  <2>4. BatchReserved'
    BY <1>12, BeginTyped DEF BatchReserved, LockInv, ObjectInv, Detach, About, Request
  <2>5. BatchIsGone'
    BY <1>12, BeginTyped DEF BatchIsGone, Gone, LockInv, ObjectInv, Detach, About, Request
  <2>6. ItemIsGone'
    BY <1>12, BeginTyped
       DEF ItemIsGone, BatchIsGone, Gone, ItemShape, NoItem, LockInv, ObjectInv, Detach,
           About, Request
  <2>7. PurgedIsGone'
    BY <1>12, BeginTyped
       DEF PurgedIsGone, Gone, LockInv, ObjectInv, Detach, About, Request
  <2>8. ReadyHasObject'
    BY <1>12, BeginTyped DEF ReadyHasObject, LockInv, ObjectInv, Detach, About, Request
  <2> QED BY <2>1, <2>2, <2>3, <2>4, <2>5, <2>6, <2>7, <2>8 DEF ObjectInv
<1>13. ASSUME NEW p \in Requests, Cleanup(p) PROVE ObjectInv'
  <2>1. MarkingStored'
    BY <1>13, GotoTyped DEF MarkingStored, LockInv, ObjectInv, Cleanup
  <2>2. CompletingStored'
    BY <1>13, GotoTyped DEF CompletingStored, Stored, LockInv, ObjectInv, Cleanup
  <2>3. ReconcilingStored'
    BY <1>13, GotoTyped
       DEF ReconcilingStored, Stored, BatchReserved, ItemShape, NoItem, LockInv,
           ObjectInv, Cleanup
  <2>4. BatchReserved'
    BY <1>13, GotoTyped DEF BatchReserved, LockInv, ObjectInv, Cleanup
  <2>5. BatchIsGone'
    BY <1>13, GotoTyped DEF BatchIsGone, Gone, LockInv, ObjectInv, Cleanup
  <2>6. ItemIsGone'
    BY <1>13, GotoTyped
       DEF ItemIsGone, BatchIsGone, Gone, ItemShape, NoItem, LockInv, ObjectInv, Cleanup
  <2>7. PurgedIsGone'
    BY <1>13, GotoTyped DEF PurgedIsGone, Gone, LockInv, ObjectInv, Cleanup
  <2>8. ReadyHasObject'
    BY <1>13, GotoTyped DEF ReadyHasObject, LockInv, ObjectInv, Cleanup
  <2> QED BY <2>1, <2>2, <2>3, <2>4, <2>5, <2>6, <2>7, <2>8 DEF ObjectInv
<1>14. ASSUME NEW p \in Requests, NEW f \in Files, DeleteFile(p, f) PROVE ObjectInv'
  <2>a. About(None, None, f) \in Request
    BY DEF About, Request
  <2>b. /\ pc'[p] = "dropping"
        /\ \A q \in Requests : q # p => pc'[q] = pc[q] /\ req'[q] = req[q]
    BY <1>14, <2>a, BeginTyped DEF DeleteFile
  <2>c. UNCHANGED <<status, object, bereft>>
    BY <1>14 DEF DeleteFile
  <2>1. MarkingStored'
    BY <2>b, <2>c, MarkingStays DEF ObjectInv
  <2>2. CompletingStored'
    BY <2>b, <2>c, CompletingStays DEF ObjectInv
  <2>3. ReconcilingStored'
    BY <1>14, BeginTyped
       DEF ReconcilingStored, Stored, BatchReserved, ItemShape, NoItem, LockInv,
           ObjectInv, DeleteFile, About, Request
  <2>4. BatchReserved'
    BY <1>14, BeginTyped DEF BatchReserved, LockInv, ObjectInv, DeleteFile, About, Request
  <2>5. BatchIsGone'
    BY <1>14, BeginTyped
       DEF BatchIsGone, Gone, LockInv, ObjectInv, DeleteFile, About, Request
  <2>6. ItemIsGone'
    BY <1>14, BeginTyped
       DEF ItemIsGone, BatchIsGone, Gone, ItemShape, NoItem, LockInv, ObjectInv,
           DeleteFile, About, Request
  <2>7. PurgedIsGone'
    BY <1>14, BeginTyped
       DEF PurgedIsGone, Gone, LockInv, ObjectInv, DeleteFile, About, Request
  <2>8. ReadyHasObject'
    BY <1>14, BeginTyped
       DEF ReadyHasObject, LockInv, ObjectInv, DeleteFile, About, Request
  <2> QED BY <2>1, <2>2, <2>3, <2>4, <2>5, <2>6, <2>7, <2>8 DEF ObjectInv
<1>15. ASSUME NEW p \in Requests, Commit(p) PROVE ObjectInv'
  <2>1. MarkingStored'
    BY <1>15, EndTyped DEF MarkingStored, DropHolds, LockInv, ObjectInv, Commit, Request
  <2>2. CompletingStored'
    BY <1>15, EndTyped
       DEF CompletingStored, Stored, DropHolds, LockInv, ObjectInv, Commit, Request
  <2>3. ReconcilingStored'
    BY <1>15, EndTyped
       DEF ReconcilingStored, Stored, BatchReserved, ItemShape, NoItem, DropHolds,
           LockInv, ObjectInv, Commit, Request
  <2>4. BatchReserved'
    BY <1>15, EndTyped DEF BatchReserved, DropHolds, LockInv, ObjectInv, Commit, Request
  <2>5. BatchIsGone'
    BY <1>15, EndTyped
       DEF BatchIsGone, Gone, DropHolds, LockInv, ObjectInv, Commit, Request
  <2>6. ItemIsGone'
    BY <1>15, EndTyped
       DEF ItemIsGone, BatchIsGone, Gone, ItemShape, NoItem, DropHolds, LockInv,
           ObjectInv, Commit, Request
  <2>7. PurgedIsGone'
    BY <1>15, EndTyped
       DEF PurgedIsGone, Gone, DropHolds, LockInv, ObjectInv, Commit, Request
  <2>8. ReadyHasObject'
    BY <1>15, EndTyped DEF ReadyHasObject, DropHolds, LockInv, ObjectInv, Commit, Request
  <2> QED BY <2>1, <2>2, <2>3, <2>4, <2>5, <2>6, <2>7, <2>8 DEF ObjectInv
<1>16. ASSUME NEW p \in Requests, Rollback(p) PROVE ObjectInv'
  <2>1. MarkingStored'
    BY <1>16, EndTyped DEF MarkingStored, LockInv, ObjectInv, Rollback
  <2>2. CompletingStored'
    BY <1>16, EndTyped DEF CompletingStored, Stored, LockInv, ObjectInv, Rollback
  <2>3. ReconcilingStored'
    BY <1>16, EndTyped
       DEF ReconcilingStored, Stored, BatchReserved, ItemShape, NoItem, LockInv,
           ObjectInv, Rollback
  <2>4. BatchReserved'
    BY <1>16, EndTyped DEF BatchReserved, LockInv, ObjectInv, Rollback
  <2>5. BatchIsGone'
    BY <1>16, EndTyped DEF BatchIsGone, Gone, LockInv, ObjectInv, Rollback
  <2>6. ItemIsGone'
    BY <1>16, EndTyped
       DEF ItemIsGone, BatchIsGone, Gone, ItemShape, NoItem, LockInv, ObjectInv,
           Rollback
  <2>7. PurgedIsGone'
    BY <1>16, EndTyped DEF PurgedIsGone, Gone, LockInv, ObjectInv, Rollback
  <2>8. ReadyHasObject'
    BY <1>16, EndTyped DEF ReadyHasObject, LockInv, ObjectInv, Rollback
  <2> QED BY <2>1, <2>2, <2>3, <2>4, <2>5, <2>6, <2>7, <2>8 DEF ObjectInv
<1>17. ASSUME NEW p \in Requests, Crash(p) PROVE ObjectInv'
  <2>1. MarkingStored'
    BY <1>17, EndTyped DEF MarkingStored, LockInv, ObjectInv, Crash
  <2>2. CompletingStored'
    BY <1>17, EndTyped DEF CompletingStored, Stored, LockInv, ObjectInv, Crash
  <2>3. ReconcilingStored'
    BY <1>17, EndTyped
       DEF ReconcilingStored, Stored, BatchReserved, ItemShape, NoItem, LockInv,
           ObjectInv, Crash
  <2>4. BatchReserved'
    BY <1>17, EndTyped DEF BatchReserved, LockInv, ObjectInv, Crash
  <2>5. BatchIsGone'
    BY <1>17, EndTyped DEF BatchIsGone, Gone, LockInv, ObjectInv, Crash
  <2>6. ItemIsGone'
    BY <1>17, EndTyped
       DEF ItemIsGone, BatchIsGone, Gone, ItemShape, NoItem, LockInv, ObjectInv, Crash
  <2>7. PurgedIsGone'
    BY <1>17, EndTyped DEF PurgedIsGone, Gone, LockInv, ObjectInv, Crash
  <2>8. ReadyHasObject'
    BY <1>17, EndTyped DEF ReadyHasObject, LockInv, ObjectInv, Crash
  <2> QED BY <2>1, <2>2, <2>3, <2>4, <2>5, <2>6, <2>7, <2>8 DEF ObjectInv
<1>18. ASSUME NEW j \in Jobs, JobStart(j) PROVE ObjectInv'
  <2>1. MarkingStored'
    BY <1>18 DEF MarkingStored, LockInv, ObjectInv, JobStart, Due
  <2>2. CompletingStored'
    BY <1>18 DEF CompletingStored, Stored, LockInv, ObjectInv, JobStart, Due
  <2>3. ReconcilingStored'
    BY <1>18
       DEF ReconcilingStored, Stored, BatchReserved, ItemShape, NoItem, LockInv,
           ObjectInv, JobStart, Due
  <2>4. BatchReserved'
    BY <1>18 DEF BatchReserved, LockInv, ObjectInv, JobStart, Due
  <2>5. BatchIsGone'
    BY <1>18 DEF BatchIsGone, Gone, LockInv, ObjectInv, JobStart, Due
  <2>6. ItemIsGone'
    BY <1>18
       DEF ItemIsGone, BatchIsGone, Gone, ItemShape, NoItem, LockInv, ObjectInv,
           JobStart, Due
  <2>7. PurgedIsGone'
    BY <1>18 DEF PurgedIsGone, Gone, LockInv, ObjectInv, JobStart, Due
  <2>8. ReadyHasObject'
    BY <1>18 DEF ReadyHasObject, LockInv, ObjectInv, JobStart, Due
  <2> QED BY <2>1, <2>2, <2>3, <2>4, <2>5, <2>6, <2>7, <2>8 DEF ObjectInv
<1>19. ASSUME NEW j \in Jobs, NEW f \in Files, DeleteObject(j, f) PROVE ObjectInv'
  <2>1. Gone(f) /\ jpc[j] = "purging"
    BY <1>19 DEF DeleteObject, ObjectInv, BatchIsGone
  <2>2. /\ \A g \in Files : g # f => object'[g] = object[g]
        /\ object'[f] \in {object[f], "none"}
    BY <1>19 DEF DeleteObject, SetObject
  <2>3. [file |-> f, seen |-> "none"] \in Items
    BY DEF Items
  <2>4. /\ \/ item'[j] = NoItem
           \/ item'[j] = [file |-> f, seen |-> "none"] /\ object'[f] = "none"
        /\ batch'[j] \subseteq batch[j]
        /\ \A k \in Jobs : k # j => item'[k] = item[k] /\ batch'[k] = batch[k]
    <3>1. CASE SetObject(f, "none") /\ SetItem(j, [file |-> f, seen |-> "none"]) /\ UNCHANGED batch
      BY <2>3, <3>1, ItemTyped, ObjectTyped
    <3>2. CASE Done(j, f)
      BY <3>2, DoneTyped
    <3> QED BY <1>19, <3>1, <3>2 DEF DeleteObject
  <2>5. UNCHANGED <<status, age, pc, req, jpc, bereft>>
    BY <1>19 DEF DeleteObject
  <2>6. \A k \in Jobs : item[k] # NoItem => item[k].file \in Files
    BY DEF ItemShape
  <2>7. \A q \in Requests : pc[q] = "marking" => req[q].file # f
    BY <2>1 DEF LockInv, UploadHolds, Gone
  <2>8. \A g \in Files : status[g] = "pending_upload" => object'[g] = object[g]
    BY <2>1, <2>2 DEF Gone
  <2>9. MarkingStored'
    BY <2>1, <2>2, <2>3, <2>4, <2>5, <2>6, <2>7, <2>8 DEF ObjectInv, MarkingStored
  <2>10. CompletingStored'
    BY <2>1, <2>2, <2>3, <2>4, <2>5, <2>6, <2>7, <2>8
       DEF ObjectInv, CompletingStored, Stored
  <2>11. ReconcilingStored'
    BY <2>1, <2>2, <2>3, <2>4, <2>5, <2>6, <2>7, <2>8
       DEF ObjectInv, ReconcilingStored, Stored, NoItem
  <2>12. BatchReserved'
    BY <2>1, <2>2, <2>3, <2>4, <2>5, <2>6, <2>7, <2>8 DEF ObjectInv, BatchReserved
  <2>13. BatchIsGone'
    BY <2>1, <2>2, <2>3, <2>4, <2>5, <2>6, <2>7, <2>8 DEF ObjectInv, BatchIsGone, Gone
  <2>14. ItemIsGone'
    BY <2>1, <2>2, <2>3, <2>4, <2>5, <2>6, <2>7, <2>8 DEF ObjectInv, ItemIsGone, NoItem
  <2>15. PurgedIsGone'
    BY <2>1, <2>2, <2>3, <2>4, <2>5, <2>6, <2>7, <2>8 DEF ObjectInv, PurgedIsGone, Gone
  <2>16. ReadyHasObject'
    BY <2>1, <2>2, <2>3, <2>4, <2>5, <2>6, <2>7, <2>8 DEF ObjectInv, ReadyHasObject, Gone
  <2> QED BY <2>9, <2>10, <2>11, <2>12, <2>13, <2>14, <2>15, <2>16 DEF ObjectInv
<1>20. ASSUME NEW j \in Jobs, PurgeMark(j) PROVE ObjectInv'
  <2> DEFINE f == item[j].file
  <2>1. f \in batch[j] /\ f \in Files /\ jpc[j] = "purging"
    BY <1>20 DEF PurgeMark, ItemShape, NoItem
  <2>2. Gone(f) /\ object[f] = "none"
    BY <1>20, <2>1 DEF PurgeMark, ObjectInv, BatchIsGone, ItemIsGone, NoItem
  <2>3. /\ status'[f] \in {status[f], "deleted"}
        /\ \A g \in Files : g # f => status'[g] = status[g]
    BY <1>20, <2>1, StatusTyped DEF PurgeMark
  <2>4. /\ item'[j] = NoItem /\ batch'[j] \subseteq batch[j]
        /\ \A k \in Jobs : k # j => item'[k] = item[k] /\ batch'[k] = batch[k]
    BY <1>20, <2>1, DoneTyped DEF PurgeMark
  <2>5. UNCHANGED <<object, age, pc, req, jpc, bereft>>
    BY <1>20 DEF PurgeMark
  <2> HIDE DEF f
  <2>6. \A k \in Jobs : item[k] # NoItem => item[k].file \in Files
    BY DEF ItemShape
  <2>7. MarkingStored'
    BY <2>1, <2>2, <2>3, <2>4, <2>5, <2>6 DEF ObjectInv, MarkingStored
  <2>8. CompletingStored'
    BY <2>1, <2>2, <2>3, <2>4, <2>5, <2>6 DEF ObjectInv, CompletingStored, Stored, Gone
  <2>9. ReconcilingStored'
    BY <2>1, <2>2, <2>3, <2>4, <2>5, <2>6
       DEF ObjectInv, ReconcilingStored, Stored, NoItem, Gone
  <2>10. BatchReserved'
    BY <2>1, <2>2, <2>3, <2>4, <2>5, <2>6 DEF ObjectInv, BatchReserved, Gone
  <2>11. BatchIsGone'
    BY <2>1, <2>2, <2>3, <2>4, <2>5, <2>6, ZenonT(30) DEF ObjectInv, BatchIsGone, Gone
  <2>12. ItemIsGone'
    BY <2>1, <2>2, <2>3, <2>4, <2>5, <2>6 DEF ObjectInv, ItemIsGone, NoItem
  <2>13. PurgedIsGone'
    BY <2>1, <2>2, <2>3, <2>4, <2>5, <2>6 DEF ObjectInv, PurgedIsGone, Gone
  <2>14. ReadyHasObject'
    BY <2>1, <2>2, <2>3, <2>4, <2>5, <2>6 DEF ObjectInv, ReadyHasObject
  <2> QED BY <2>7, <2>8, <2>9, <2>10, <2>11, <2>12, <2>13, <2>14 DEF ObjectInv
<1>21. ASSUME NEW j \in Jobs, ReconcileStart(j) PROVE ObjectInv'
  <2>1. MarkingStored'
    BY <1>21 DEF MarkingStored, LockInv, ObjectInv, ReconcileStart, Due
  <2>2. CompletingStored'
    BY <1>21 DEF CompletingStored, Stored, LockInv, ObjectInv, ReconcileStart, Due
  <2>3. ReconcilingStored'
    BY <1>21
       DEF ReconcilingStored, Stored, BatchReserved, ItemShape, NoItem, LockInv,
           ObjectInv, ReconcileStart, Due
  <2>4. BatchReserved'
    BY <1>21 DEF BatchReserved, LockInv, ObjectInv, ReconcileStart, Due
  <2>5. BatchIsGone'
    BY <1>21 DEF BatchIsGone, Gone, LockInv, ObjectInv, ReconcileStart, Due
  <2>6. ItemIsGone'
    BY <1>21
       DEF ItemIsGone, BatchIsGone, Gone, ItemShape, NoItem, LockInv, ObjectInv,
           ReconcileStart, Due
  <2>7. PurgedIsGone'
    BY <1>21 DEF PurgedIsGone, Gone, LockInv, ObjectInv, ReconcileStart, Due
  <2>8. ReadyHasObject'
    BY <1>21 DEF ReadyHasObject, LockInv, ObjectInv, ReconcileStart, Due
  <2> QED BY <2>1, <2>2, <2>3, <2>4, <2>5, <2>6, <2>7, <2>8 DEF ObjectInv
<1>22. ASSUME NEW j \in Jobs, NEW f \in Files, HeadObject(j, f) PROVE ObjectInv'
  <2>1. jpc[j] = "reconciling" /\ f \in batch[j]
    BY <1>22 DEF HeadObject
  <2>2. status[f] # "none"
    BY <2>1 DEF ObjectInv, BatchReserved
  <2>3. [file |-> f, seen |-> object[f]] \in Items
    BY DEF Items
  <2>4. /\ item'[j] = NoItem \/ item'[j] = [file |-> f, seen |-> object[f]]
        /\ batch'[j] \subseteq batch[j]
        /\ \A k \in Jobs : k # j => item'[k] = item[k] /\ batch'[k] = batch[k]
    BY <1>22, <2>3, ItemTyped, DoneTyped DEF HeadObject
  <2>5. UNCHANGED <<status, object, age, pc, req, jpc, bereft>>
    BY <1>22 DEF HeadObject
  <2>6. MarkingStored'
    BY <2>1, <2>2, <2>3, <2>4, <2>5 DEF ObjectInv, MarkingStored
  <2>7. CompletingStored'
    BY <2>1, <2>2, <2>3, <2>4, <2>5 DEF ObjectInv, CompletingStored, Stored
  <2>8. ReconcilingStored'
    BY <2>1, <2>2, <2>3, <2>4, <2>5 DEF ObjectInv, ReconcilingStored, Stored, NoItem
  <2>9. BatchReserved'
    BY <2>1, <2>2, <2>3, <2>4, <2>5 DEF ObjectInv, BatchReserved
  <2>10. BatchIsGone'
    BY <2>1, <2>2, <2>3, <2>4, <2>5 DEF ObjectInv, BatchIsGone, Gone
  <2>11. ItemIsGone'
    BY <2>1, <2>2, <2>3, <2>4, <2>5 DEF ObjectInv, ItemIsGone, NoItem
  <2>12. PurgedIsGone'
    BY <2>1, <2>2, <2>3, <2>4, <2>5 DEF ObjectInv, PurgedIsGone, Gone
  <2>13. ReadyHasObject'
    BY <2>1, <2>2, <2>3, <2>4, <2>5 DEF ObjectInv, ReadyHasObject
  <2> QED BY <2>6, <2>7, <2>8, <2>9, <2>10, <2>11, <2>12, <2>13 DEF ObjectInv
<1>23. ASSUME NEW j \in Jobs, ReconcileMark(j) PROVE ObjectInv'
  <2> DEFINE f == item[j].file
  <2>1. f \in Files /\ jpc[j] = "reconciling"
    BY <1>23 DEF ReconcileMark, ItemShape, NoItem
  <2>2. item[j].seen = "right" => Stored(f)
    BY <2>1 DEF ObjectInv, ReconcilingStored
  <2>3. /\ \/ status'[f] = status[f]
           \/ status[f] = "pending_upload" /\ item[j].seen = "right" /\ status'[f] = "ready"
           \/ status[f] = "pending_upload" /\ status'[f] = "upload_failed"
        /\ \A g \in Files : g # f => status'[g] = status[g]
    BY <1>23, <2>1, StatusTyped DEF ReconcileMark
  <2>4. /\ item'[j] = NoItem /\ batch'[j] \subseteq batch[j]
        /\ \A k \in Jobs : k # j => item'[k] = item[k] /\ batch'[k] = batch[k]
    BY <1>23, <2>1, DoneTyped DEF ReconcileMark
  <2>5. UNCHANGED <<object, age, pc, req, jpc, bereft>>
    BY <1>23 DEF ReconcileMark
  <2> HIDE DEF f
  <2>6. \A k \in Jobs : item[k] # NoItem => item[k].file \in Files
    BY DEF ItemShape
  <2>7. \A g \in Files : Gone(g) => status'[g] = status[g]
    BY <2>1, <2>3 DEF Gone
  <2>8. MarkingStored'
    BY <2>1, <2>2, <2>3, <2>4, <2>5, <2>6, <2>7 DEF ObjectInv, MarkingStored
  <2>9. CompletingStored'
    BY <2>1, <2>2, <2>3, <2>4, <2>5, <2>6, <2>7 DEF ObjectInv, CompletingStored, Stored
  <2>10. ReconcilingStored'
    BY <2>1, <2>2, <2>3, <2>4, <2>5, <2>6, <2>7
       DEF ObjectInv, ReconcilingStored, Stored, NoItem
  <2>11. BatchReserved'
    BY <2>1, <2>2, <2>3, <2>4, <2>5, <2>6, <2>7 DEF ObjectInv, BatchReserved
  <2>12. BatchIsGone'
    BY <2>1, <2>2, <2>3, <2>4, <2>5, <2>6, <2>7 DEF ObjectInv, BatchIsGone, Gone
  <2>13. ItemIsGone'
    BY <2>1, <2>2, <2>3, <2>4, <2>5, <2>6, <2>7 DEF ObjectInv, ItemIsGone, NoItem
  <2>14. PurgedIsGone'
    BY <2>1, <2>2, <2>3, <2>4, <2>5, <2>6, <2>7 DEF ObjectInv, PurgedIsGone, Gone
  <2>15. ReadyHasObject'
    BY <2>1, <2>2, <2>3, <2>4, <2>5, <2>6, <2>7 DEF ObjectInv, ReadyHasObject, Stored
  <2> QED BY <2>8, <2>9, <2>10, <2>11, <2>12, <2>13, <2>14, <2>15 DEF ObjectInv
<1>24. ASSUME NEW j \in Jobs, JobEnd(j) PROVE ObjectInv'
  <2>1. MarkingStored'
    BY <1>24 DEF MarkingStored, LockInv, ObjectInv, JobEnd
  <2>2. CompletingStored'
    BY <1>24 DEF CompletingStored, Stored, LockInv, ObjectInv, JobEnd
  <2>3. ReconcilingStored'
    BY <1>24
       DEF ReconcilingStored, Stored, BatchReserved, ItemShape, NoItem, LockInv,
           ObjectInv, JobEnd
  <2>4. BatchReserved'
    BY <1>24 DEF BatchReserved, LockInv, ObjectInv, JobEnd
  <2>5. BatchIsGone'
    BY <1>24 DEF BatchIsGone, Gone, LockInv, ObjectInv, JobEnd
  <2>6. ItemIsGone'
    BY <1>24
       DEF ItemIsGone, BatchIsGone, Gone, ItemShape, NoItem, LockInv, ObjectInv, JobEnd
  <2>7. PurgedIsGone'
    BY <1>24 DEF PurgedIsGone, Gone, LockInv, ObjectInv, JobEnd
  <2>8. ReadyHasObject'
    BY <1>24 DEF ReadyHasObject, LockInv, ObjectInv, JobEnd
  <2> QED BY <2>1, <2>2, <2>3, <2>4, <2>5, <2>6, <2>7, <2>8 DEF ObjectInv
<1>25. ASSUME NEW j \in Jobs, JobCrash(j) PROVE ObjectInv'
  <2>1. NoItem \in Items
    BY DEF NoItem, Items
  <2>2. /\ \/ jpc'[j] = "idle" /\ batch'[j] = {} /\ item'[j] = NoItem
           \/ jpc'[j] = jpc[j] /\ batch'[j] = batch[j] /\ item'[j] = item[j]
        /\ \A k \in Jobs : k # j =>
              jpc'[k] = jpc[k] /\ item'[k] = item[k] /\ batch'[k] = batch[k]
    BY <1>25, <2>1, ItemTyped DEF JobCrash
  <2>3. UNCHANGED <<status, object, age, pc, req, bereft>>
    BY <1>25 DEF JobCrash
  <2>4. MarkingStored'
    BY <2>1, <2>2, <2>3 DEF ObjectInv, MarkingStored
  <2>5. CompletingStored'
    BY <2>1, <2>2, <2>3 DEF ObjectInv, CompletingStored, Stored
  <2>6. ReconcilingStored'
    BY <2>1, <2>2, <2>3 DEF ObjectInv, ReconcilingStored, Stored, NoItem
  <2>7. BatchReserved'
    BY <2>1, <2>2, <2>3 DEF ObjectInv, BatchReserved
  <2>8. BatchIsGone'
    BY <2>1, <2>2, <2>3 DEF ObjectInv, BatchIsGone, Gone
  <2>9. ItemIsGone'
    BY <2>1, <2>2, <2>3 DEF ObjectInv, ItemIsGone, NoItem
  <2>10. PurgedIsGone'
    BY <2>1, <2>2, <2>3 DEF ObjectInv, PurgedIsGone, Gone
  <2>11. ReadyHasObject'
    BY <2>1, <2>2, <2>3 DEF ObjectInv, ReadyHasObject
  <2> QED BY <2>4, <2>5, <2>6, <2>7, <2>8, <2>9, <2>10, <2>11 DEF ObjectInv
<1>26. CASE UNCHANGED vars
  BY <1>26
     DEF vars, ObjectInv, MarkingStored, CompletingStored, ReconcilingStored, Stored,
     BatchReserved, BatchIsGone, ItemIsGone, Gone, PurgedIsGone, ReadyHasObject
<1>27. ASSUME NEW p \in Requests, MarkFails(p) \/ LoseConnection(p) PROVE ObjectInv'
  <2>1. PICK s \in StraySteps : Stray(p, s)
    BY <1>27, ComesLoose
  <2>2. /\ pc'[p] \in StraySteps /\ req' = req
        /\ \A q \in Requests : q # p => pc'[q] = pc[q]
    BY <2>1, StrayTyped
  <2>3. UNCHANGED <<status, object, age, jpc, batch, item, bereft>>
    BY <1>27, ComesLoose
  <2> QED
    BY <2>2, <2>3
       DEF ObjectInv, MarkingStored, CompletingStored, ReconcilingStored, Stored,
       BatchReserved, BatchIsGone, ItemIsGone, Gone, PurgedIsGone, ReadyHasObject, StraySteps
<1>28. ASSUME NEW p \in Requests, StrayPut(p) PROVE ObjectInv'
  <2>1. /\ pc[p] = "straying" /\ req[p].file \in Files /\ req[p].file \in Loose
    BY <1>28 DEF StrayPut, Loose, StraySteps
  <2>2. /\ pc'[p] = "erasing" /\ req' = req
        /\ \A q \in Requests : q # p => pc'[q] = pc[q]
    BY <1>28, GotoTyped DEF StrayPut
  <2>3. /\ \A f \in Files : f # req[p].file => object'[f] = object[f]
        /\ \A f \in Files : object'[f] = "none" => object[f] = "none"
    BY <1>28, <2>1 DEF StrayPut, SetObject
  <2>4. UNCHANGED <<status, age, jpc, batch, item, bereft>>
    BY <1>28 DEF StrayPut
  <2>5. \A j \in Jobs : item[j] # NoItem => item[j].file \in batch[j] /\ item[j].file \in Files
    BY DEF ItemShape
  <2>6. \A j \in Jobs : jpc[j] = "purging" /\ item[j] # NoItem => item[j].file # req[p].file
    BY <2>1, <2>5 DEF TightInv
  <2>7. MarkingStored' /\ CompletingStored'
    BY <2>1, <2>2, <2>3, <2>4 DEF ObjectInv, MarkingStored, CompletingStored, Stored
  <2>8. ReconcilingStored'
    BY <2>1, <2>3, <2>4, <2>5 DEF ObjectInv, ReconcilingStored, Stored, NoItem
  <2>9. BatchReserved' /\ BatchIsGone'
    BY <2>4 DEF ObjectInv, BatchReserved, BatchIsGone, Gone
  <2>10. ItemIsGone'
    BY <2>3, <2>4, <2>5, <2>6 DEF ObjectInv, ItemIsGone, NoItem
  <2>11. PurgedIsGone'
    BY <2>1, <2>3, <2>4 DEF ObjectInv, PurgedIsGone, Gone, TightInv
  <2>12. ReadyHasObject'
    BY <2>3, <2>4 DEF ObjectInv, ReadyHasObject
  <2> QED BY <2>7, <2>8, <2>9, <2>10, <2>11, <2>12 DEF ObjectInv
<1>29. ASSUME NEW p \in Requests, StrayUndo(p) PROVE ObjectInv'
  <2>1. pc[p] = "erasing" /\ req[p].file \in Files
    BY <1>29 DEF StrayUndo
  <2>2. /\ pc'[p] = "idle"
        /\ \A q \in Requests : q # p => pc'[q] = pc[q] /\ req'[q] = req[q]
    BY <1>29, EndTyped DEF StrayUndo
  <2>3. UNCHANGED <<status, age, jpc, batch, item>>
    BY <1>29 DEF StrayUndo
  <2>4. /\ \A f \in Files : f # req[p].file => object'[f] = object[f]
        /\ bereft \subseteq bereft'
        /\ \/ object'[req[p].file] = object[req[p].file]
           \/ /\ object'[req[p].file] = "none"
              /\ Finishing(req[p].file) \/ status[req[p].file] = "ready"
                    => req[p].file \in bereft'
    BY <1>29, <2>1 DEF StrayUndo, SetObject
  <2>5. \A j \in Jobs : item[j] # NoItem => item[j].file \in batch[j] /\ item[j].file \in Files
    BY DEF ItemShape
  <2>6. \A q \in Requests : pc[q] \in {"marking", "completing"} => Finishing(req[q].file)
    BY DEF Finishing
  <2>7. ASSUME NEW j \in Jobs, jpc[j] = "reconciling", item[j].seen = "right"
        PROVE Finishing(item[j].file)
    BY <2>7 DEF Finishing
  <2>8. \A f \in Files : object[f] = "none" => object'[f] = "none"
    BY <2>1, <2>4
  <2>9. MarkingStored'
    BY <2>2, <2>3, <2>4, <2>6 DEF ObjectInv, MarkingStored
  <2>10. CompletingStored'
    BY <2>2, <2>3, <2>4, <2>6 DEF ObjectInv, CompletingStored, Stored
  <2>11. ReconcilingStored'
    BY <2>3, <2>4, <2>5, <2>7 DEF ObjectInv, ReconcilingStored, Stored, NoItem
  <2>12. BatchReserved' /\ BatchIsGone'
    BY <2>3 DEF ObjectInv, BatchReserved, BatchIsGone, Gone
  <2>13. ItemIsGone'
    BY <2>3, <2>5, <2>8 DEF ObjectInv, ItemIsGone, NoItem
  <2>14. PurgedIsGone'
    BY <2>3, <2>8 DEF ObjectInv, PurgedIsGone, Gone
  <2>15. ReadyHasObject'
    BY <2>1, <2>3, <2>4 DEF ObjectInv, ReadyHasObject
  <2> QED BY <2>9, <2>10, <2>11, <2>12, <2>13, <2>14, <2>15 DEF ObjectInv
<1> QED
  BY <1>1, <1>2, <1>3, <1>4, <1>5, <1>6, <1>7, <1>8, <1>9, <1>10, <1>11, <1>12, <1>13,
     <1>14, <1>15, <1>16, <1>17, <1>18, <1>19, <1>20, <1>21, <1>22, <1>23, <1>24, <1>25,
     <1>26, <1>27, <1>28, <1>29
     DEF Next, RequestStep, JobStep

-----------------------------------------------------------------------------
(* The theorems. *)

FilesInv == TypeInv /\ LockInv /\ ObjectInv /\ TightInv

LEMMA InitialFiles == Init => FilesInv
<1> SUFFICES ASSUME Init PROVE FilesInv
  OBVIOUS
<1>1. TypeInv
  <2>1. TypeOK
    BY StoredFilesAssumption
       DEF Init, TypeOK, Statuses, Steps, Request, NoRequest, About, NoItem, Plan
  <2> QED
    BY <2>1 DEF Init, TypeInv, RequestShape, ItemShape
<1>2. LockInv
  BY DEF Init, LockInv, UploadHolds, AttachShares, RowExcludes, DropHolds
<1>3. ObjectInv
  BY DEF Init, ObjectInv, MarkingStored, CompletingStored, ReconcilingStored,
         BatchReserved,
         BatchIsGone, ItemIsGone, PurgedIsGone, ReadyHasObject
<1>4. TightInv
  BY DEF Init, TightInv
<1> QED
  BY <1>1, <1>2, <1>3, <1>4 DEF FilesInv

LEMMA FilesInvariant == Spec => []FilesInv
<1>1. FilesInv /\ [Next]_vars => FilesInv'
  BY TypeStep, LockStep, ObjectStep, TightStep DEF FilesInv
<1> QED
  BY <1>1, InitialFiles, PTL DEF Spec

\* Every variable stays in its domain: the rows of storage-files.service.ts,
\* the store, the locks, the requests and the job.
THEOREM TypeCorrect == Spec => []TypeOK
<1>1. FilesInv => TypeOK
  BY DEF FilesInv, TypeInv
<1> QED
  BY <1>1, FilesInvariant, PTL

\* purgeDeletedFiles leaves no object behind that a later upload or request
\* could have written (PurgedLeavesNoObject).
THEOREM PurgesComplete == Spec => []PurgedLeavesNoObject
<1>1. FilesInv => PurgedLeavesNoObject
  BY DEF FilesInv, ObjectInv, PurgedIsGone, PurgedLeavesNoObject
<1> QED
  BY <1>1, FilesInvariant, PTL

\* A file that is ready has its object, whichever of uploadFileContent,
\* completeUpload and the reconciliation made it so: but for one an upload took
\* from under a completion that had seen it, or took back after its transaction
\* was over (ReadyHasObject).
THEOREM ReadyIsStored == Spec => []ReadyHasObject
<1>1. FilesInv => ReadyHasObject
  BY DEF FilesInv, ObjectInv
<1> QED
  BY <1>1, FilesInvariant, PTL

\* How the status of a file moves in one step.
StatusMoves(f) ==
    \/ status'[f] = status[f]
    \/ status[f] = "none" /\ status'[f] = "pending_upload"
    \/ status[f] = "pending_upload" /\ status'[f] \in {"ready", "upload_failed"}
    \/ status[f] = "ready" /\ status'[f] = "pending_delete"
         /\ \A h \in Holders : <<h, f>> \notin refs'
    \/ status[f] = "pending_delete" /\ status'[f] = "deleted"

LEMMA StatusSteps ==
    ASSUME FilesInv, [Next]_vars
    PROVE \A f \in Files : StatusMoves(f)
<1> USE DEF FilesInv, TypeInv, Statuses, StatusMoves
<1>1. ASSUME NEW f \in Files, Reserve(f) PROVE \A g \in Files : StatusMoves(g)
  BY <1>1, StatusTyped DEF Reserve
<1>2. ASSUME NEW p \in Requests, MarkUploaded(p) PROVE \A g \in Files : StatusMoves(g)
  BY <1>2, StatusTyped DEF MarkUploaded, LockInv, UploadHolds, RequestShape
<1>3. ASSUME NEW p \in Requests, CompleteMark(p) PROVE \A g \in Files : StatusMoves(g)
  BY <1>3, StatusTyped DEF CompleteMark, RequestShape
<1>4. ASSUME NEW p \in Requests, Commit(p) PROVE \A g \in Files : StatusMoves(g)
  <2>1. CASE pc[p] # "dropping"
    BY <1>4, <2>1 DEF Commit
  <2>2. CASE pc[p] = "dropping"
    <3>1. /\ req[p].old \in Files /\ status[req[p].old] = "ready"
          /\ \A h \in Holders : <<h, req[p].old>> \in refs => h = req[p].holder
      BY <2>2 DEF LockInv, DropHolds, RequestShape
    <3>2. /\ status'[req[p].old] = "pending_delete"
          /\ \A f \in Files : f # req[p].old => status'[f] = status[f]
      BY <1>4, <2>2, <3>1 DEF Commit, TypeOK
    <3>3. req[p].file # None => req[p].file # req[p].old
      BY <2>2 DEF RequestShape
    <3>4. refs' = (refs \ {<<req[p].holder, req[p].old>>})
                    \cup (IF req[p].file = None THEN {} ELSE {<<req[p].holder, req[p].file>>})
      BY <1>4 DEF Commit
    <3>5. \A h \in Holders : <<h, req[p].old>> \notin refs'
      BY <3>1, <3>3, <3>4
    <3> QED BY <3>1, <3>2, <3>5
  <2> QED BY <2>1, <2>2
<1>5. ASSUME NEW j \in Jobs, PurgeMark(j) PROVE \A g \in Files : StatusMoves(g)
  BY <1>5, StatusTyped DEF PurgeMark, TypeOK
<1>6. ASSUME NEW j \in Jobs, ReconcileMark(j) PROVE \A g \in Files : StatusMoves(g)
  BY <1>6, StatusTyped DEF ReconcileMark, TypeOK
<1>7. ASSUME UNCHANGED status PROVE \A g \in Files : StatusMoves(g)
  BY <1>7
<1> QED
  BY <1>1, <1>2, <1>3, <1>4, <1>5, <1>6, <1>7, WhoSetsStatus

\* An upload comes to one end, in whichever order the client, the API and the
\* job settle it (UploadSettledOnce).
THEOREM UploadsSettleOnce == Spec => UploadSettledOnce
<1>1. FilesInv /\ [Next]_vars =>
        \A f \in Files : status[f] \notin {"none", "pending_upload"}
            => status'[f] \in {status[f], "pending_delete", "deleted"}
  BY StatusSteps DEF StatusMoves
<1> QED
  BY <1>1, FilesInvariant, PTL DEF Spec, UploadSettledOnce

\* A file is deleted only when no committed avatar or attachment refers to it
\* (DeletedIsUnattached).
THEOREM DeletionsAreUnattached == Spec => DeletedIsUnattached
<1>1. FilesInv /\ [Next]_vars =>
        \A f \in Files : status[f] # "pending_delete" /\ status'[f] = "pending_delete"
            => \A h \in Holders : <<h, f>> \notin refs'
  BY StatusSteps DEF StatusMoves
<1> QED
  BY <1>1, FilesInvariant, PTL DEF Spec, DeletedIsUnattached

-----------------------------------------------------------------------------
(* The refinement of FileLifecycle. *)

\* Every step of a request that has to do with references.
RefSteps == {"attaching", "attached", "keeping", "dropping"}

\* What refers to a file, or is about to, refers to one that has been ready.
RefsCompleted ==
    /\ \A h \in Holders, f \in Files : <<h, f>> \in refs => Lifecycle!Completed(f)
    /\ \A p \in Requests :
          pc[p] \in RefSteps /\ req[p].file # None => Lifecycle!Completed(req[p].file)

\* An upload fails only when its URL has long expired.
FailedIsOld ==
    /\ \A f \in Files : status[f] = "upload_failed" => age[f] = "day"
    /\ \A j \in Jobs : jpc[j] = "reconciling" => \A f \in batch[j] : age[f] = "day"

OneAvatar ==
    \A h \in Users, f, g \in Files : <<h, f>> \in refs /\ <<h, g>> \in refs => f = g

\* Who exchanges an avatar has its user locked, and lets go of the one it has.
AvatarHeld ==
    \A p \in Requests :
        pc[p] \in {"attached", "keeping", "dropping"} /\ req[p].holder \in Users =>
            /\ busy[req[p].holder] = p
            /\ \A g \in Files : <<req[p].holder, g>> \in refs => g = req[p].old

LifeInv == RefsCompleted /\ FailedIsOld /\ OneAvatar /\ AvatarHeld

\* How a request goes on.
LEMMA Progress ==
    ASSUME TypeInv, [Next]_vars, NEW q \in Requests
    PROVE \/ pc'[q] = pc[q] /\ req'[q] = req[q]
          \/ pc'[q] \notin RefSteps
          \/ \E h \in Holders, f \in Files : AttachRead(q, h, f) \/ Detach(q, h, f)
          \/ \E f \in Files : DeleteFile(q, f)
          \/ AttachWrite(q) \/ Cleanup(q)
<1> DEFINE Goal == \/ pc'[q] = pc[q] /\ req'[q] = req[q]
                   \/ pc'[q] \notin RefSteps
                   \/ \E h \in Holders, f \in Files : AttachRead(q, h, f) \/ Detach(q, h, f)
                   \/ \E f \in Files : DeleteFile(q, f)
                   \/ AttachWrite(q) \/ Cleanup(q)
<1>0. TypeOK
  BY DEF TypeInv
<1>1. ASSUME UNCHANGED calls PROVE Goal
  BY <1>1 DEF calls
<1>2. ASSUME NEW p \in Requests, End(p) PROVE Goal
  BY <1>0, <1>2, EndTyped DEF RefSteps
<1>3. ASSUME NEW p \in Requests, NEW s \in Steps \ RefSteps, Goto(p, s) PROVE Goal
  BY <1>0, <1>3, GotoTyped
<1>4. ASSUME NEW p \in Requests, NEW s \in Steps, NEW r \in Request, Begin(p, s, r)
      PROVE pc'[p] = s /\ \A k \in Requests : k # p => pc'[k] = pc[k] /\ req'[k] = req[k]
  BY <1>0, <1>4, BeginTyped
<1>5. ASSUME NEW f \in Files PROVE About(f, None, None) \in Request
                                   /\ About(None, None, f) \in Request
  BY DEF About, Request
<1>6. ASSUME NEW p \in Requests, NEW f \in Files, UploadBegin(p, f) \/ CompleteHead(p, f)
      PROVE Goal
  <2>1. PICK s \in Steps \ RefSteps : Begin(p, s, About(f, None, None))
    BY <1>6 DEF UploadBegin, CompleteHead, Steps, RefSteps
  <2> QED
    BY <1>4, <1>5, <2>1
<1>7. ASSUME NEW p \in Requests,
             Put(p) \/ MarkUploaded(p) \/ MarkFails(p) \/ LoseConnection(p) \/ StrayPut(p)
      PROVE Goal
  <2>1. End(p) \/ \E s \in Steps \ RefSteps : Goto(p, s)
    BY <1>7 DEF Put, MarkUploaded, MarkFails, LoseConnection, StrayPut, Stray, Steps, RefSteps
  <2> QED
    BY <1>2, <1>3, <2>1
<1>8. ASSUME NEW p \in Requests,
             \/ Undo(p) \/ StrayUndo(p) \/ CompleteMark(p) \/ Commit(p) \/ Rollback(p)
             \/ Crash(p)
      PROVE Goal
  BY <1>2, <1>8 DEF Undo, StrayUndo, CompleteMark, Commit, Rollback, Crash
<1>9. ASSUME NEW p \in Requests, NEW h \in Holders, NEW f \in Files,
             AttachRead(p, h, f) \/ Detach(p, h, f)
      PROVE Goal
  <2>1. About(f, h, None) \in Request /\ About(None, h, f) \in Request
    BY DEF About, Request
  <2>2. \E s \in Steps, r \in Request : Begin(p, s, r)
    BY <1>9, <2>1 DEF AttachRead, Detach, Steps
  <2> QED
    BY <1>4, <1>9, <2>2
<1>10. ASSUME NEW p \in Requests, NEW f \in Files, DeleteFile(p, f) PROVE Goal
  <2>1. \E s \in Steps, r \in Request : Begin(p, s, r)
    BY <1>5, <1>10 DEF DeleteFile, Steps
  <2> QED
    BY <1>4, <1>10, <2>1
<1>11. ASSUME NEW p \in Requests, AttachWrite(p) PROVE Goal
  <2>1. CASE <<req[p].holder, req[p].file>> \in refs
    BY <1>2, <1>11, <2>1 DEF AttachWrite
  <2>2. CASE <<req[p].holder, req[p].file>> \notin refs
    BY <1>11, <2>2, AttachWritten
  <2> QED
    BY <2>1, <2>2
<1>12. ASSUME NEW p \in Requests, Cleanup(p) PROVE Goal
  <2>1. \E s \in Steps : Goto(p, s)
    BY <1>12 DEF Cleanup, Steps
  <2> QED
    BY <1>0, <1>12, <2>1, GotoTyped
<1>13. ASSUME NEW f \in Files, Reserve(f) \/ ClientPut(f) \/ Elapse(f) PROVE Goal
  BY <1>1, <1>13 DEF Reserve, ClientPut, Elapse
<1>14. ASSUME NEW j \in Jobs,
              \/ JobStart(j) \/ ReconcileStart(j) \/ JobEnd(j) \/ PurgeMark(j)
              \/ ReconcileMark(j) \/ JobCrash(j)
              \/ \E f \in Files : DeleteObject(j, f) \/ HeadObject(j, f)
       PROVE Goal
  BY <1>1, <1>14
     DEF JobStart, ReconcileStart, JobEnd, PurgeMark, ReconcileMark, JobCrash,
         DeleteObject, HeadObject
<1>15. ASSUME UNCHANGED vars PROVE Goal
  BY <1>1, <1>15 DEF vars
<1> HIDE DEF Goal
<1>16. Goal
  BY <1>6, <1>7, <1>8, <1>9, <1>10, <1>11, <1>12, <1>13, <1>14, <1>15
  DEF Next, RequestStep, JobStep
<1> QED
  BY <1>16 DEF Goal

\* A row of a holder is taken when it is free, and given back at the end.
LEMMA BusyMoves ==
    ASSUME TypeInv, [Next]_vars, NEW h \in Holders
    PROVE \/ busy'[h] = busy[h] \/ busy[h] = None
          \/ busy[h] \in Requests /\ pc'[busy[h]] = "idle"
<1> DEFINE Goal == \/ busy'[h] = busy[h] \/ busy[h] = None
                   \/ busy[h] \in Requests /\ pc'[busy[h]] = "idle"
<1>0. TypeOK
  BY DEF TypeInv
<1>1. ASSUME UNCHANGED busy PROVE Goal
  BY <1>1
<1>2. ASSUME NEW p \in Requests, End(p) PROVE Goal
  BY <1>0, <1>2, EndTyped DEF End, TypeOK
<1>3. ASSUME NEW p \in Requests, NEW g \in Holders, busy[g] = None,
             busy' = [busy EXCEPT ![g] = p]
      PROVE Goal
  <2>1. busy \in [Holders -> Requests \cup {None}]
    BY <1>0 DEF TypeOK
  <2>2. CASE h = g
    BY <1>3, <2>2
  <2>3. CASE h # g
    BY <1>3, <2>1, <2>3
  <2> QED
    BY <2>2, <2>3
<1>4. ASSUME NEW p \in Requests, NEW f \in Files,
             UploadBegin(p, f) \/ CompleteHead(p, f) \/ DeleteFile(p, f)
      PROVE Goal
  BY <1>1, <1>4 DEF UploadBegin, CompleteHead, DeleteFile, locks
<1>5. ASSUME NEW p \in Requests,
             \/ Put(p) \/ MarkUploaded(p) \/ Undo(p) \/ CompleteMark(p) \/ Commit(p)
             \/ Rollback(p) \/ Crash(p) \/ Cleanup(p)
             \/ MarkFails(p) \/ LoseConnection(p) \/ StrayPut(p) \/ StrayUndo(p)
      PROVE Goal
  <2>1. End(p) \/ UNCHANGED busy
    BY <1>5 DEF Put, MarkUploaded, Undo, CompleteMark, Commit, Rollback, Crash, Cleanup,
                MarkFails, LoseConnection, StrayPut, StrayUndo, Stray, locks
  <2> QED
    BY <1>1, <1>2, <2>1
<1>6. ASSUME NEW p \in Requests, NEW g \in Holders, NEW f \in Files,
             AttachRead(p, g, f) \/ Detach(p, g, f)
      PROVE Goal
  <2>1. \/ UNCHANGED busy
        \/ busy[g] = None /\ busy' = [busy EXCEPT ![g] = p]
    BY <1>0, <1>6 DEF AttachRead, Detach, TypeOK
  <2> QED
    BY <1>1, <1>3, <2>1
<1>7. ASSUME NEW p \in Requests, AttachWrite(p) PROVE Goal
  <2>1. CASE <<req[p].holder, req[p].file>> \in refs
    BY <1>2, <1>7, <2>1 DEF AttachWrite
  <2>2. CASE <<req[p].holder, req[p].file>> \notin refs
    <3>1. req[p].holder \in Holders
      BY <1>7, <2>2, AttachWritten
    <3>2. \/ UNCHANGED busy
          \/ busy[req[p].holder] = None /\ busy' = [busy EXCEPT ![req[p].holder] = p]
      BY <1>0, <1>7, <2>2, <3>1 DEF AttachWrite, TypeOK
    <3> QED
      BY <1>1, <1>3, <3>1, <3>2
  <2> QED
    BY <2>1, <2>2
<1>8. ASSUME NEW f \in Files, Reserve(f) \/ ClientPut(f) \/ Elapse(f) PROVE Goal
  BY <1>1, <1>8 DEF Reserve, ClientPut, Elapse, locks
<1>9. ASSUME NEW j \in Jobs,
             \/ JobStart(j) \/ ReconcileStart(j) \/ JobEnd(j) \/ PurgeMark(j)
             \/ ReconcileMark(j) \/ JobCrash(j)
             \/ \E f \in Files : DeleteObject(j, f) \/ HeadObject(j, f)
      PROVE Goal
  BY <1>1, <1>9
     DEF JobStart, ReconcileStart, JobEnd, PurgeMark, ReconcileMark, JobCrash,
         DeleteObject, HeadObject, locks
<1>10. ASSUME UNCHANGED vars PROVE Goal
  BY <1>1, <1>10 DEF vars, locks
<1> HIDE DEF Goal
<1>11. Goal
  BY <1>4, <1>5, <1>6, <1>7, <1>8, <1>9, <1>10 DEF Next, RequestStep, JobStep
<1> QED
  BY <1>11 DEF Goal

\* References change when a request commits.
LEMMA RefsMove ==
    ASSUME [Next]_vars
    PROVE refs' = refs \/ \E p \in Requests : Commit(p)
<1>1. ASSUME NEW f \in Files, Reserve(f) \/ ClientPut(f) \/ Elapse(f) PROVE refs' = refs
  BY <1>1 DEF Reserve, ClientPut, Elapse, rows
<1>2. ASSUME NEW p \in Requests,
             \/ Put(p) \/ MarkUploaded(p) \/ Undo(p) \/ CompleteMark(p) \/ AttachWrite(p)
             \/ Cleanup(p) \/ Rollback(p) \/ Crash(p)
             \/ MarkFails(p) \/ LoseConnection(p) \/ StrayPut(p) \/ StrayUndo(p)
      PROVE refs' = refs
  BY <1>2 DEF Put, MarkUploaded, Undo, CompleteMark, AttachWrite, Cleanup, Rollback,
              Crash, MarkFails, LoseConnection, StrayPut, StrayUndo, rows
<1>3. ASSUME NEW p \in Requests, NEW f \in Files,
             UploadBegin(p, f) \/ CompleteHead(p, f) \/ DeleteFile(p, f)
      PROVE refs' = refs
  BY <1>3 DEF UploadBegin, CompleteHead, DeleteFile, rows
<1>4. ASSUME NEW p \in Requests, NEW f \in Files, NEW h \in Holders,
             AttachRead(p, h, f) \/ Detach(p, h, f)
      PROVE refs' = refs
  BY <1>4 DEF AttachRead, Detach, rows
<1>5. ASSUME NEW j \in Jobs, JobStep(j) \/ JobCrash(j) PROVE refs' = refs
  BY <1>5 DEF JobStep, JobStart, ReconcileStart, JobEnd, PurgeMark, ReconcileMark, JobCrash,
              DeleteObject, HeadObject, rows
<1>6. CASE UNCHANGED vars
  BY <1>6 DEF vars, rows
<1> QED
  BY <1>1, <1>2, <1>3, <1>4, <1>5, <1>6 DEF Next, RequestStep

\* What a commit does to the references of each holder.
LEMMA Committed ==
    ASSUME TypeInv, NEW p \in Requests, Commit(p)
    PROVE /\ pc[p] \in {"attached", "keeping", "dropping"} /\ pc'[p] = "idle"
          /\ refs' = (refs \ {<<req[p].holder, req[p].old>>})
                       \cup (IF req[p].file = None THEN {} ELSE {<<req[p].holder, req[p].file>>})
          /\ req[p].file # None => req[p].file \in Files /\ req[p].holder \in Holders
          /\ \A h \in Holders, f \in Files :
                h # req[p].holder => (<<h, f>> \in refs' <=> <<h, f>> \in refs)
<1>1. /\ pc[p] \in {"attached", "keeping", "dropping"}
      /\ refs' = (refs \ {<<req[p].holder, req[p].old>>})
                   \cup (IF req[p].file = None THEN {} ELSE {<<req[p].holder, req[p].file>>})
  BY DEF Commit
<1>2. pc'[p] = "idle"
  BY EndTyped DEF Commit, TypeInv
<1>3. req[p].file # None => req[p].file \in Files /\ req[p].holder \in Holders
  BY <1>1 DEF TypeInv, TypeOK, Request, RequestShape
<1>4. ASSUME NEW h \in Holders, NEW f \in Files, h # req[p].holder
      PROVE <<h, f>> \in refs' <=> <<h, f>> \in refs
  <2>1. <<h, f>> # <<req[p].holder, req[p].old>> /\ <<h, f>> # <<req[p].holder, req[p].file>>
    BY <1>4
  <2> QED
    BY <1>1, <2>1
<1> QED
  BY <1>1, <1>2, <1>3, <1>4

LEMMA CompletedStays ==
    ASSUME FilesInv, [Next]_vars, NEW f \in Files, Lifecycle!Completed(f)
    PROVE Lifecycle!Completed(f)'
<1>1. StatusMoves(f)
  BY StatusSteps
<1>2. status[f] \in {"ready", "pending_delete", "deleted"}
  BY DEF Lifecycle!Completed
<1>3. status'[f] \in {"ready", "pending_delete", "deleted"}
  BY <1>1, <1>2 DEF StatusMoves
<1> QED
  BY <1>3 DEF Lifecycle!Completed

LEMMA RefsCompletedStep ==
    ASSUME FilesInv, RefsCompleted, [Next]_vars
    PROVE RefsCompleted'
<1>0. TypeInv
  BY DEF FilesInv
<1>1. ASSUME NEW h \in Holders, NEW f \in Files, <<h, f>> \in refs'
      PROVE Lifecycle!Completed(f)
  <2>1. CASE <<h, f>> \in refs
    BY <2>1 DEF RefsCompleted
  <2>2. CASE <<h, f>> \notin refs
    <3>1. PICK p \in Requests : Commit(p)
      BY <1>1, <2>2, RefsMove
    <3>2. f = req[p].file /\ f # None
      BY <1>0, <1>1, <2>2, <3>1, Committed, StoredFilesAssumption
    <3> QED
      BY <1>0, <3>1, <3>2, Committed DEF RefsCompleted, RefSteps
  <2> QED
    BY <2>1, <2>2
<1>2. ASSUME NEW q \in Requests, pc'[q] \in RefSteps, req'[q].file # None
      PROVE req'[q].file \in Files /\ Lifecycle!Completed(req'[q].file)
  <2>0. TypeOK /\ \A r \in Request : r.file # None => r.file \in Files
    BY <1>0 DEF TypeInv, Request
  <2>1. CASE pc'[q] = pc[q] /\ req'[q] = req[q]
    BY <1>2, <2>0, <2>1 DEF RefsCompleted, TypeOK
  <2>2. ASSUME NEW h \in Holders, NEW f \in Files, AttachRead(q, h, f)
        PROVE req'[q].file = f /\ Lifecycle!Completed(f)
    <3>1. About(f, h, None) \in Request
      BY DEF About, Request
    <3>2. req'[q] = About(f, h, None) /\ status[f] = "ready"
      BY <2>0, <2>2, <3>1, BeginTyped DEF AttachRead, Steps
    <3> QED
      BY <3>2 DEF About, Lifecycle!Completed
  <2>3. ASSUME NEW h \in Holders \cup {None}, NEW f \in Files, Detach(q, h, f) \/ DeleteFile(q, f)
        PROVE req'[q].file = None
    <3>1. About(None, h, f) \in Request /\ About(None, None, f) \in Request
      BY DEF About, Request
    <3>2. req'[q] = About(None, h, f) \/ req'[q] = About(None, None, f)
      BY <2>0, <2>3, <3>1, BeginTyped DEF Detach, DeleteFile, Steps
    <3> QED
      BY <3>2 DEF About
  <2>4. CASE AttachWrite(q)
    <3>1. pc[q] = "attaching"
      BY <2>4 DEF AttachWrite
    <3>2. <<req[q].holder, req[q].file>> \notin refs
      <4>1. ~End(q)
        BY <1>2, <2>0, EndTyped DEF RefSteps
      <4> QED
        BY <2>4, <4>1 DEF AttachWrite
    <3>3. req[q].file \in Files /\ req'[q].file = req[q].file
      BY <1>0, <2>4, <3>2, AttachWritten
    <3> QED
      BY <1>2, <3>1, <3>3 DEF RefsCompleted, RefSteps
  <2>5. CASE Cleanup(q)
    <3>1. pc[q] = "attached" /\ \E s \in Steps : Goto(q, s)
      BY <2>5 DEF Cleanup, Steps
    <3>2. req'[q] = req[q]
      BY <3>1 DEF Goto
    <3> QED
      BY <1>2, <2>0, <3>1, <3>2 DEF RefsCompleted, RefSteps, TypeOK
  <2> QED
    BY <1>0, <1>2, <2>1, <2>2, <2>3, <2>4, <2>5, Progress
<1>3. \A f \in Files : Lifecycle!Completed(f) => Lifecycle!Completed(f)'
  BY CompletedStays
<1> QED
  BY <1>1, <1>2, <1>3 DEF RefsCompleted, Lifecycle!Completed

LEMMA FailedIsOldStep ==
    ASSUME FilesInv, FailedIsOld, [Next]_vars
    PROVE FailedIsOld'
<1>0. TypeOK /\ ItemShape
  BY DEF FilesInv, TypeInv
\* Time passes in one direction.
<1>1. \A f \in Files : age[f] = "day" => age'[f] = "day"
  <2>1. ASSUME NEW f \in Files, Elapse(f) PROVE \A g \in Files : age[g] = "day" => age'[g] = "day"
    BY <1>0, <2>1 DEF Elapse, TypeOK
  <2>2. age' = age \/ \E f \in Files : Elapse(f)
    <3>1. ASSUME NEW f \in Files, Reserve(f) \/ ClientPut(f) PROVE age' = age
      BY <3>1 DEF Reserve, ClientPut
    <3>2. ASSUME NEW p \in Requests,
                 \/ Put(p) \/ MarkUploaded(p) \/ Undo(p) \/ CompleteMark(p)
                 \/ AttachWrite(p) \/ Cleanup(p) \/ Commit(p) \/ Rollback(p) \/ Crash(p)
                 \/ MarkFails(p) \/ LoseConnection(p) \/ StrayPut(p) \/ StrayUndo(p)
          PROVE age' = age
      BY <3>2 DEF Put, MarkUploaded, Undo, CompleteMark, AttachWrite, Cleanup, Commit,
                  Rollback, Crash, MarkFails, LoseConnection, StrayPut, StrayUndo
    <3>3. ASSUME NEW p \in Requests, NEW f \in Files,
                 UploadBegin(p, f) \/ CompleteHead(p, f) \/ DeleteFile(p, f)
          PROVE age' = age
      BY <3>3 DEF UploadBegin, CompleteHead, DeleteFile
    <3>4. ASSUME NEW p \in Requests, NEW f \in Files, NEW h \in Holders,
                 AttachRead(p, h, f) \/ Detach(p, h, f)
          PROVE age' = age
      BY <3>4 DEF AttachRead, Detach
    <3>5. ASSUME NEW j \in Jobs, JobStep(j) \/ JobCrash(j) PROVE age' = age
      BY <3>5 DEF JobStep, JobStart, ReconcileStart, JobEnd, PurgeMark, ReconcileMark,
                  JobCrash, DeleteObject, HeadObject
    <3>6. CASE UNCHANGED vars
      BY <3>6 DEF vars
    <3> QED
      BY <3>1, <3>2, <3>3, <3>4, <3>5, <3>6 DEF Next, RequestStep
  <2> QED
    BY <2>1, <2>2
\* Only the job's reconciliation fails an upload.
<1>2. ASSUME NEW f \in Files, status'[f] = "upload_failed", status[f] # "upload_failed"
      PROVE age[f] = "day"
  <2>1. PICK j \in Jobs : ReconcileMark(j)
    <3>1. status[f] = "pending_upload"
      BY <1>2, StatusSteps DEF StatusMoves
    <3>2. ASSUME NEW g \in Files, NEW s \in {"pending_upload", "ready", "deleted"},
                 SetStatus(g, s)
          PROVE FALSE
      BY <1>0, <1>2, <3>2, StatusTyped DEF Statuses
    <3>3. ASSUME NEW g \in Files, Reserve(g) PROVE FALSE
      BY <3>2, <3>3 DEF Reserve
    <3>4. ASSUME NEW p \in Requests, MarkUploaded(p) \/ CompleteMark(p) PROVE FALSE
      <4>1. req[p].file \in Files
        BY <3>4 DEF FilesInv, TypeInv, RequestShape, MarkUploaded, CompleteMark
      <4> QED
        BY <1>2, <3>2, <3>4, <4>1 DEF MarkUploaded, CompleteMark
    <3>5. ASSUME NEW p \in Requests, Commit(p) PROVE FALSE
      BY <1>0, <1>2, <3>5 DEF Commit, TypeOK
    <3>6. ASSUME NEW j \in Jobs, PurgeMark(j) PROVE FALSE
      <4>1. item[j].file \in Files
        BY <1>0, <3>6 DEF PurgeMark, TypeOK
      <4> QED
        BY <1>2, <3>2, <3>6, <4>1 DEF PurgeMark
    <3> QED
      BY <1>2, <3>3, <3>4, <3>5, <3>6, WhoSetsStatus
  <2>2. item[j].file \in Files /\ jpc[j] = "reconciling"
    BY <1>0, <2>1 DEF ReconcileMark, TypeOK
  <2>3. f = item[j].file
    <3>1. \E s \in Statuses : SetStatus(item[j].file, s)
      BY <1>2, <2>1, <2>2 DEF ReconcileMark, Statuses
    <3> QED
      BY <1>0, <1>2, <2>2, <3>1, StatusTyped
  <2>4. item[j].file \in batch[j]
    BY <1>0, <2>1, StoredFilesAssumption DEF ItemShape, ReconcileMark, NoItem
  <2> QED
    BY <2>2, <2>3, <2>4 DEF FailedIsOld
\* The batch of the reconciliation shrinks.
<1>3. ASSUME NEW j \in Jobs, jpc'[j] = "reconciling", NEW f \in batch'[j]
      PROVE f \in Files /\ age'[f] = "day"
  <2>1. CASE jpc'[j] = jpc[j] /\ batch'[j] \subseteq batch[j]
    <3>1. batch[j] \subseteq Files
      BY <1>0 DEF TypeOK
    <3> QED
      BY <1>1, <1>3, <2>1, <3>1 DEF FailedIsOld
  <2>2. CASE ReconcileStart(j)
    <3>1. batch'[j] = Due("pending_upload")
      BY <1>0, <2>2 DEF ReconcileStart, TypeOK
    <3> QED
      BY <1>1, <1>3, <3>1 DEF Due
  <2>3. CASE JobStart(j)
    BY <1>0, <1>3, <2>3 DEF JobStart, TypeOK
  <2> QED
    BY <1>0, <1>3, <2>1, <2>2, <2>3, BatchMoves
<1> QED
  BY <1>1, <1>2, <1>3 DEF FailedIsOld

LEMMA OneAvatarStep ==
    ASSUME FilesInv, OneAvatar, AvatarHeld, [Next]_vars
    PROVE OneAvatar'
<1> SUFFICES ASSUME NEW h \in Users, NEW f \in Files, NEW g \in Files,
                    <<h, f>> \in refs', <<h, g>> \in refs'
             PROVE f = g
  BY DEF OneAvatar
<1>1. CASE refs' = refs
  BY <1>1 DEF OneAvatar
<1>2. ASSUME NEW p \in Requests, Commit(p) PROVE f = g
  <2>1. TypeInv
    BY DEF FilesInv
  <2>2. CASE h # req[p].holder
    BY <1>2, <2>1, <2>2, Committed DEF OneAvatar, Holders
  <2>3. CASE h = req[p].holder
    <3>1. \A k \in Files : <<h, k>> \in refs => k = req[p].old
      BY <1>2, <2>1, <2>3, Committed DEF AvatarHeld
    <3>2. \A k \in Files : <<h, k>> \in refs' => k = req[p].file
      BY <1>2, <2>1, <2>3, <3>1, Committed
    <3> QED
      BY <3>2
  <2> QED
    BY <2>2, <2>3
<1> QED
  BY <1>1, <1>2, RefsMove

LEMMA AvatarHeldStep ==
    ASSUME FilesInv, OneAvatar, AvatarHeld, [Next]_vars
    PROVE AvatarHeld'
<1>0. TypeInv /\ TypeOK /\ None \notin Holders /\ None \notin Requests
  BY StoredFilesAssumption DEF FilesInv, TypeInv
<1> SUFFICES ASSUME NEW q \in Requests, pc'[q] \in {"attached", "keeping", "dropping"},
                    req'[q].holder \in Users
             PROVE /\ busy'[req'[q].holder] = q
                   /\ \A g \in Files : <<req'[q].holder, g>> \in refs' => g = req'[q].old
  BY DEF AvatarHeld
<1> DEFINE h == req'[q].holder
<1>1. h \in Holders /\ h \in Users
  BY DEF Holders
<1>2. ASSUME pc[q] \in {"attached", "keeping", "dropping"}, req'[q] = req[q]
      PROVE busy'[h] = q /\ \A g \in Files : <<h, g>> \in refs' => g = req'[q].old
  <2>1. busy[h] = q /\ \A g \in Files : <<h, g>> \in refs => g = req[q].old
    BY <1>2 DEF AvatarHeld
  <2>2. busy'[h] = q
    BY <1>0, <1>1, <2>1, BusyMoves
  <2>3. CASE refs' = refs
    BY <1>2, <2>1, <2>2, <2>3
  <2>4. ASSUME NEW p \in Requests, Commit(p)
        PROVE \A g \in Files : <<h, g>> \in refs' => g = req'[q].old
    <3>1. p # q
      BY <1>0, <2>4, Committed
    <3>2. req[p].holder # h
      BY <1>0, <1>1, <2>1, <2>4, <3>1, Committed DEF AvatarHeld
    <3> QED
      BY <1>0, <1>1, <1>2, <2>1, <2>4, <3>2, Committed
  <2> QED
    BY <2>2, <2>3, <2>4, <2>1, <1>2, RefsMove
<1>3. ASSUME NEW k \in Holders, NEW f \in Files, AttachRead(q, k, f) PROVE FALSE
  <2>1. About(f, k, None) \in Request
    BY DEF About, Request
  <2> QED
    BY <1>0, <1>3, <2>1, BeginTyped DEF AttachRead, Steps
<1>4. ASSUME NEW k \in Holders, NEW f \in Files, Detach(q, k, f)
      PROVE busy'[h] = q /\ \A g \in Files : <<h, g>> \in refs' => g = req'[q].old
  <2>1. About(None, k, f) \in Request
    BY DEF About, Request
  <2>2. req'[q] = About(None, k, f)
    BY <1>0, <1>4, <2>1, BeginTyped DEF Detach, Steps
  <2>3. h = k /\ req'[q].old = f
    BY <2>2 DEF About
  <2>4. busy' = [busy EXCEPT ![k] = q] /\ refs' = refs /\ <<k, f>> \in refs
    BY <1>1, <1>4, <2>3 DEF Detach, rows
  <2>5. busy'[k] = q
    BY <1>0, <2>4 DEF TypeOK
  <2> QED
    BY <1>1, <2>3, <2>4, <2>5 DEF OneAvatar
<1>5. ASSUME NEW f \in Files, DeleteFile(q, f) PROVE FALSE
  <2>1. About(None, None, f) \in Request
    BY DEF About, Request
  <2>2. req'[q] = About(None, None, f)
    BY <1>0, <1>5, <2>1, BeginTyped DEF DeleteFile, Steps
  <2> QED
    BY <1>0, <1>1, <2>2 DEF About
<1>6. ASSUME AttachWrite(q)
      PROVE busy'[h] = q /\ \A g \in Files : <<h, g>> \in refs' => g = req'[q].old
  <2>1. <<req[q].holder, req[q].file>> \notin refs
    <3>1. ~End(q)
      BY <1>0, EndTyped
    <3> QED
      BY <1>6, <3>1 DEF AttachWrite
  <2>2. h = req[q].holder /\ req[q].file \in Files /\ refs' = refs
    BY <1>0, <1>6, <2>1, AttachWritten
  <2>3. busy' = [busy EXCEPT ![h] = IF h \in Users THEN q ELSE @]
    BY <1>6, <2>1, <2>2 DEF AttachWrite
  <2>4. busy'[h] = q
    BY <1>0, <1>1, <2>3 DEF TypeOK
  <2>5. PICK old \in Files \cup {None} :
           /\ IF h \in Users /\ \E g \in Files : <<h, g>> \in refs
                THEN <<h, old>> \in refs
                ELSE old = None
           /\ req' = [req EXCEPT ![q] = About(req[q].file, h, old)]
    BY <1>6, <2>1, <2>2 DEF AttachWrite
  <2>6. req'[q].old = old
    BY <1>0, <2>5 DEF TypeOK, About
  <2>7. ASSUME NEW g \in Files, <<h, g>> \in refs PROVE g = old
    <3>1. <<h, old>> \in refs
      BY <1>1, <2>5, <2>7
    <3>2. old \in Files
      BY <1>0, <3>1, StoredFilesAssumption DEF TypeOK
    <3> QED
      BY <1>1, <2>7, <3>1, <3>2 DEF OneAvatar
  <2> QED
    BY <2>2, <2>4, <2>6, <2>7
<1>7. ASSUME Cleanup(q)
      PROVE busy'[h] = q /\ \A g \in Files : <<h, g>> \in refs' => g = req'[q].old
  <2>1. pc[q] = "attached" /\ req' = req
    BY <1>7 DEF Cleanup, Goto
  <2> QED
    BY <1>2, <2>1
<1> QED
  BY <1>0, <1>2, <1>3, <1>4, <1>5, <1>6, <1>7, Progress DEF RefSteps

LEMMA LifeStep ==
    ASSUME FilesInv, LifeInv, [Next]_vars
    PROVE LifeInv'
BY RefsCompletedStep, FailedIsOldStep, OneAvatarStep, AvatarHeldStep DEF LifeInv

\* A file made ready has its object, or lost it while that was decided.
LEMMA ReadyCompletes ==
    ASSUME TypeOK, NEW f \in Files, status[f] = "pending_upload", SetStatus(f, "ready"),
           Stored(f), UNCHANGED <<object, refs, bereft>>, Loose' = Loose
    PROVE Lifecycle!Complete(f)
BY DEF SetStatus, Stored, Lifecycle!Complete, Lifecycle!Move

\* A commit that deletes a file, or lets a holder refer to another.
LEMMA CommitExchanges ==
    ASSUME FilesInv, LifeInv, NEW p \in Requests, Commit(p), [Next]_vars, Loose' = Loose
    PROVE [Lifecycle!Next]_(Lifecycle!vars)
<1> DEFINE h == req[p].holder
           old == req[p].old
           new == req[p].file
<1>0. TypeInv /\ TypeOK /\ None \notin Holders /\ None \notin Files
  BY StoredFilesAssumption DEF FilesInv, TypeInv
<1>1. /\ pc[p] \in {"attached", "keeping", "dropping"}
      /\ refs' = (refs \ {<<h, old>>}) \cup (IF new = None THEN {} ELSE {<<h, new>>})
      /\ new # None => new \in Files /\ h \in Holders
  BY <1>0, Committed
<1>2. /\ h \in Holders \cup {None} /\ old \in Files \cup {None} /\ new \in Files \cup {None}
      /\ pc[p] \in {"keeping", "dropping"} => old \in Files
  BY <1>0, <1>1 DEF TypeInv, TypeOK, Request, RequestShape
<1>3. new # None => Lifecycle!Completed(new)
  BY <1>1 DEF LifeInv, RefsCompleted, RefSteps
<1>4. UNCHANGED <<object, bereft>>
  BY DEF Commit
<1>5. \/ UNCHANGED status
      \/ /\ Lifecycle!Move(old, "ready", "pending_delete") /\ old \in Files
         /\ \A k \in Holders : <<k, old>> \notin refs'
  <2>1. CASE pc[p] # "dropping"
    BY <2>1 DEF Commit
  <2>2. CASE pc[p] = "dropping"
    <3>1. status[old] = "ready" /\ status' = [status EXCEPT ![old] = "pending_delete"]
      BY <2>2 DEF Commit, FilesInv, LockInv, DropHolds
    <3>2. status'[old] = "pending_delete" /\ status[old] # status'[old]
      BY <1>0, <1>2, <2>2, <3>1 DEF TypeOK
    <3>3. \A k \in Holders : <<k, old>> \notin refs'
      BY <1>2, <2>2, <3>1, <3>2, StatusSteps DEF StatusMoves
    <3> QED
      BY <1>2, <2>2, <3>1, <3>3 DEF Lifecycle!Move
  <2> QED
    BY <2>1, <2>2
<1>6. CASE h \in Holders
  <2>1. h \in Users => \A f, g \in Files : <<h, f>> \in refs' /\ <<h, g>> \in refs' => f = g
    BY OneAvatarStep DEF LifeInv, OneAvatar
  <2>2. Lifecycle!Exchange(h, old, new)
    BY <1>1, <1>3, <1>4, <1>5, <2>1 DEF Lifecycle!Exchange, Lifecycle!Deleted
  <2> HIDE DEF h, old, new
  <2> QED
    BY <1>2, <1>6, <2>2 DEF Lifecycle!Next
<1>7. CASE h = None
  <2>1. refs' = refs
    BY <1>0, <1>1, <1>7 DEF TypeOK
  <2>2. (Lifecycle!Delete(old) /\ old \in Files) \/ UNCHANGED (Lifecycle!vars)
    BY <1>4, <1>5, <2>1 DEF Lifecycle!Delete, Lifecycle!Deleted, Lifecycle!vars
  <2> HIDE DEF h, old, new
  <2> QED
    BY <2>2 DEF Lifecycle!Next
<1> QED
  BY <1>2, <1>6, <1>7

\* A step that leaves the loose uploads as they are.
LEMMA TightLifecycleStep ==
    ASSUME FilesInv, LifeInv, [Next]_vars, Loose' = Loose
    PROVE [Lifecycle!Next]_(Lifecycle!vars) \/ \E p \in Requests : StrayUndo(p)
<1> DEFINE Goal == [Lifecycle!Next]_(Lifecycle!vars)
<1>0. TypeInv /\ TypeOK /\ None \notin Files
  BY StoredFilesAssumption DEF FilesInv, TypeInv
<1>1. ASSUME UNCHANGED <<status, object, refs, bereft>> PROVE Goal
  BY <1>1 DEF Lifecycle!vars
<1>2. ASSUME NEW f \in Files,
             \/ Lifecycle!Reserve(f) \/ Lifecycle!Write(f) \/ Lifecycle!Erase(f)
             \/ Lifecycle!Complete(f) \/ Lifecycle!Fail(f) \/ Lifecycle!Purge(f)
      PROVE Goal
  BY <1>2 DEF Lifecycle!Next
<1>3. ASSUME NEW f \in Files, Reserve(f) PROVE Goal
  <2>1. Lifecycle!Reserve(f)
    BY <1>3 DEF Reserve, SetStatus, Lifecycle!Reserve, Lifecycle!Move
  <2> QED
    BY <1>2, <2>1
\* An object that is replaced or stays as it is.
<1>4. ASSUME NEW f \in Files,
             status[f] \in {"pending_upload", "ready", "pending_delete"} \/ f \in Loose,
             NEW o \in {"none", "right", "wrong"}, SetObject(f, o), o # "none" \/ o = object[f],
             UNCHANGED <<status, refs, bereft>>
      PROVE Goal
  <2>1. CASE o # "none"
    <3>1. Lifecycle!Write(f)
      BY <1>4, <2>1 DEF SetObject, Lifecycle!Write
    <3> QED
      BY <1>2, <3>1
  <2>2. CASE o = object[f]
    <3>1. object' = object
      BY <1>0, <1>4, <2>2 DEF SetObject, TypeOK
    <3> QED
      BY <1>1, <1>4, <3>1
  <2> QED
    BY <1>4, <2>1, <2>2
<1>5. ASSUME NEW f \in Files, ClientPut(f) PROVE Goal
  <2>1. age[f] = "valid" /\ status[f] # "none" /\ UNCHANGED <<status, refs, bereft>>
        /\ \E o \in {"right", "wrong"} : SetObject(f, o)
    BY <1>5 DEF ClientPut, rows
  <2>2. status[f] \in {"pending_upload", "ready", "pending_delete"}
    BY <1>0, <2>1
       DEF TypeOK, Statuses, FilesInv, ObjectInv, PurgedIsGone, Gone, LifeInv, FailedIsOld
  <2> QED
    BY <1>4, <2>1, <2>2
<1>6. ASSUME NEW p \in Requests, Put(p) PROVE Goal
  <2>1. req[p].file \in Files /\ status[req[p].file] = "pending_upload"
        /\ UNCHANGED <<status, refs, bereft>>
    BY <1>0, <1>6 DEF Put, rows, FilesInv, LockInv, UploadHolds, TypeInv, RequestShape
  <2>2. \E o \in {"none", "right", "wrong"} :
           SetObject(req[p].file, o) /\ (o # "none" \/ o = object[req[p].file])
    <3>1. object[req[p].file] \in {"none", "right", "wrong"}
      BY <1>0, <2>1 DEF TypeOK
    <3>2. \E o \in {"right", "wrong", object[req[p].file]} : SetObject(req[p].file, o)
      BY <1>6 DEF Put
    <3> QED
      BY <3>1, <3>2
  <2> QED
    BY <1>4, <2>1, <2>2
<1>7. ASSUME NEW p \in Requests, MarkUploaded(p) PROVE Goal
  <2>1. /\ pc[p] = "marking"
        /\ SetStatus(req[p].file, "ready") \/ UNCHANGED status
        /\ UNCHANGED <<refs, object, bereft>>
    BY <1>7 DEF MarkUploaded
  <2>2. /\ req[p].file \in Files /\ status[req[p].file] = "pending_upload"
        /\ object[req[p].file] # "none" \/ req[p].file \in bereft
    BY <1>0, <2>1 DEF FilesInv, LockInv, UploadHolds, TypeInv, RequestShape,
                      ObjectInv, MarkingStored
  <2>3. Stored(req[p].file)
    BY <2>2 DEF Stored
  <2> QED
    BY <1>0, <1>1, <1>2, <2>1, <2>2, <2>3, ReadyCompletes
<1>8. ASSUME NEW p \in Requests, Undo(p) PROVE Goal
  <2>1. /\ req[p].file \in Files /\ status[req[p].file] = "pending_upload"
        /\ \/ SetObject(req[p].file, "none") /\ bereft' \in {bereft, bereft \cup {req[p].file}}
           \/ UNCHANGED <<object, bereft>>
        /\ UNCHANGED <<status, refs>>
    BY <1>0, <1>8 DEF Undo, rows, FilesInv, LockInv, UploadHolds, TypeInv, RequestShape
  <2>2. CASE UNCHANGED <<object, bereft>>
    BY <1>1, <2>1, <2>2
  <2>3. CASE SetObject(req[p].file, "none") /\ bereft' \in {bereft, bereft \cup {req[p].file}}
    <3>1. Lifecycle!Erase(req[p].file)
      BY <2>1, <2>3 DEF SetObject, Lifecycle!Erase
    <3> QED
      BY <1>2, <2>1, <3>1
  <2> QED
    BY <2>1, <2>2, <2>3
<1>9. ASSUME NEW p \in Requests, CompleteMark(p) PROVE Goal
  <2>1. /\ req[p].file \in Files
        /\ \/ status[req[p].file] = "pending_upload" /\ SetStatus(req[p].file, "ready")
           \/ UNCHANGED status
        /\ UNCHANGED <<refs, object, bereft>>
        /\ Stored(req[p].file)
    BY <1>0, <1>9 DEF CompleteMark, FilesInv, TypeInv, RequestShape, ObjectInv,
                      CompletingStored
  <2> QED
    BY <1>0, <1>1, <1>2, <2>1, ReadyCompletes
<1>10. ASSUME NEW p \in Requests, Commit(p) PROVE Goal
  BY <1>10, CommitExchanges
<1>11. ASSUME NEW p \in Requests,
              \/ AttachWrite(p) \/ Cleanup(p) \/ Rollback(p) \/ Crash(p)
              \/ MarkFails(p) \/ LoseConnection(p)
       PROVE Goal
  BY <1>1, <1>11
     DEF AttachWrite, Cleanup, Rollback, Crash, MarkFails, LoseConnection, rows, work
<1>12. ASSUME NEW p \in Requests, NEW f \in Files,
              UploadBegin(p, f) \/ CompleteHead(p, f) \/ DeleteFile(p, f)
       PROVE Goal
  BY <1>1, <1>12 DEF UploadBegin, CompleteHead, DeleteFile, rows
<1>13. ASSUME NEW p \in Requests, NEW f \in Files, NEW h \in Holders,
              AttachRead(p, h, f) \/ Detach(p, h, f)
       PROVE Goal
  BY <1>1, <1>13 DEF AttachRead, Detach, rows
<1>14. ASSUME NEW j \in Jobs, NEW f \in Files, DeleteObject(j, f) PROVE Goal
  <2>1. /\ Gone(f) /\ UNCHANGED <<status, refs, bereft>>
        /\ SetObject(f, "none") \/ UNCHANGED object
    BY <1>14 DEF DeleteObject, rows, FilesInv, ObjectInv, BatchIsGone
  <2>2. CASE UNCHANGED object
    BY <1>1, <2>1, <2>2
  <2>3. CASE SetObject(f, "none") /\ status[f] = "pending_delete"
    <3>1. Lifecycle!Erase(f)
      BY <2>1, <2>3 DEF SetObject, Lifecycle!Erase
    <3> QED
      BY <1>2, <3>1
  <2>4. CASE SetObject(f, "none") /\ status[f] = "deleted"
    <3>1. object' = object
      BY <1>0, <2>4 DEF SetObject, TypeOK, FilesInv, ObjectInv, PurgedIsGone
    <3> QED
      BY <1>1, <2>1, <3>1
  <2> QED
    BY <2>1, <2>2, <2>3, <2>4 DEF Gone
<1>15. ASSUME NEW j \in Jobs, PurgeMark(j) PROVE Goal
  <2>1. /\ item[j].file \in Files /\ UNCHANGED <<refs, object, bereft>>
        /\ \/ status[item[j].file] = "pending_delete" /\ SetStatus(item[j].file, "deleted")
           \/ UNCHANGED status
    BY <1>0, <1>15 DEF PurgeMark, TypeOK
  <2>2. object[item[j].file] = "none" /\ item[j].file \notin Loose
    <3>1. jpc[j] = "purging" /\ item[j] # NoItem /\ item[j].file \in batch[j]
      BY <1>0, <1>15, <2>1 DEF PurgeMark, NoItem, TypeInv, ItemShape
    <3> QED
      BY <3>1 DEF FilesInv, ObjectInv, ItemIsGone, TightInv
  <2>3. CASE UNCHANGED status
    BY <1>1, <2>1, <2>3
  <2>4. CASE status[item[j].file] = "pending_delete" /\ SetStatus(item[j].file, "deleted")
    <3>1. Lifecycle!Purge(item[j].file)
      BY <2>1, <2>2, <2>4 DEF SetStatus, Lifecycle!Purge, Lifecycle!Move
    <3> QED
      BY <1>2, <2>1, <3>1
  <2> QED
    BY <2>1, <2>3, <2>4
<1>16. ASSUME NEW j \in Jobs, ReconcileMark(j) PROVE Goal
  <2> DEFINE f == item[j].file
  <2>1. /\ f \in Files /\ UNCHANGED <<refs, object, bereft>>
        /\ \/ /\ status[f] = "pending_upload"
              /\ SetStatus(f, IF item[j].seen = "right" THEN "ready" ELSE "upload_failed")
           \/ UNCHANGED status
    BY <1>0, <1>16 DEF ReconcileMark, TypeOK
  <2>2. item[j].seen = "right" => Stored(f)
    BY <1>16 DEF ReconcileMark, FilesInv, ObjectInv, ReconcilingStored
  <2>3. CASE UNCHANGED status
    BY <1>1, <2>1, <2>3
  <2>4. CASE status[f] = "pending_upload" /\ SetStatus(f, "ready") /\ Stored(f)
    BY <1>0, <1>2, <2>1, <2>4, ReadyCompletes
  <2>5. CASE status[f] = "pending_upload" /\ SetStatus(f, "upload_failed")
    <3>1. Lifecycle!Fail(f)
      BY <2>1, <2>5 DEF SetStatus, Lifecycle!Fail, Lifecycle!Move
    <3> QED
      BY <1>2, <2>1, <3>1
  <2> QED
    BY <2>1, <2>2, <2>3, <2>4, <2>5
<1>17. ASSUME NEW j \in Jobs,
              \/ JobStart(j) \/ ReconcileStart(j) \/ JobEnd(j) \/ JobCrash(j)
              \/ \E f \in Files : HeadObject(j, f)
       PROVE Goal
  BY <1>1, <1>17 DEF JobStart, ReconcileStart, JobEnd, JobCrash, HeadObject, rows
<1>18. ASSUME NEW f \in Files, Elapse(f) PROVE Goal
  BY <1>1, <1>18 DEF Elapse, rows
<1>19. ASSUME UNCHANGED vars PROVE Goal
  BY <1>1, <1>19 DEF vars, rows
\* putObject without the lock.
<1>20. ASSUME NEW p \in Requests, StrayPut(p) PROVE Goal
  <2>1. req[p].file \in Loose /\ req[p].file \in Files /\ UNCHANGED <<status, refs, bereft>>
    BY <1>0, <1>20 DEF StrayPut, rows, TypeInv, RequestShape, Loose, StraySteps
  <2>2. CASE UNCHANGED object
    BY <1>1, <2>1, <2>2
  <2>3. CASE \E o \in {"right", "wrong"} : SetObject(req[p].file, o)
    BY <1>4, <2>1, <2>3
  <2> QED
    BY <1>20, <2>2, <2>3 DEF StrayPut
<1> HIDE DEF Goal
<1>21. Goal \/ \E p \in Requests : StrayUndo(p)
  BY <1>3, <1>5, <1>6, <1>7, <1>8, <1>9, <1>10, <1>11, <1>12, <1>13, <1>14, <1>15, <1>16,
     <1>17, <1>18, <1>19, <1>20
  DEF Next, RequestStep, JobStep
<1> QED
  BY <1>21 DEF Goal

\* A step with which an upload comes loose, or ends.
LEMMA LooseLifecycleStep ==
    ASSUME FilesInv, NEW p \in Requests,
           MarkFails(p) \/ LoseConnection(p) \/ StrayUndo(p) \/ Crash(p)
    PROVE [Lifecycle!Next]_(Lifecycle!vars)
<1> DEFINE Goal == [Lifecycle!Next]_(Lifecycle!vars)
           f == req[p].file
<1>0. TypeInv /\ TypeOK /\ None \notin Files
  BY StoredFilesAssumption DEF FilesInv, TypeInv
<1>1. ASSUME f \in Files, Lifecycle!Break(f) \/ Lifecycle!Tidy(f) \/ Lifecycle!Erase(f)
      PROVE Goal
  BY <1>1 DEF Lifecycle!Next
<1>2. ASSUME UNCHANGED <<status, object, refs, bereft>>, Loose' = Loose PROVE Goal
  BY <1>2 DEF Lifecycle!vars
<1>3. ASSUME UNCHANGED <<status, object, refs, bereft>>, Loose' \in {Loose, Loose \ {f}}
      PROVE Goal
  <2>1. CASE f \in Files /\ Loose' = Loose \ {f}
    BY <1>1, <1>3, <2>1 DEF Lifecycle!Tidy
  <2>2. CASE f \notin Files
    <3>1. Loose \ {f} = Loose
      BY <2>2 DEF Loose
    <3> QED
      BY <1>2, <1>3, <3>1
  <2> QED
    BY <1>2, <1>3, <2>1, <2>2
<1>4. CASE MarkFails(p) \/ LoseConnection(p)
  <2>1. /\ f \in Files /\ Loose' = Loose \cup {f} /\ UNCHANGED <<status, refs, object, bereft>>
        /\ pc[p] \in {"putting", "marking", "undoing"}
    BY <1>0, <1>4, ComesLoose, Loosened
  <2>2. status[f] = "pending_upload"
    BY <2>1 DEF FilesInv, LockInv, UploadHolds
  <2>3. Lifecycle!Break(f)
    BY <2>1, <2>2 DEF Lifecycle!Break
  <2> QED
    BY <1>1, <2>1, <2>3
<1>5. CASE Crash(p)
  <2>1. UNCHANGED <<status, object, refs, bereft>> /\ End(p)
    BY <1>5 DEF Crash, rows
  <2> QED
    BY <1>0, <1>3, <2>1, Tightened
<1>6. CASE StrayUndo(p)
  <2>1. /\ f \in Files /\ f \in Loose /\ UNCHANGED <<status, refs>>
        /\ \/ /\ SetObject(f, "none")
              /\ bereft' \in {bereft, bereft \cup {f}}
              /\ status[f] = "ready" => f \in bereft'
           \/ UNCHANGED <<object, bereft>>
        /\ End(p)
    BY <1>0, <1>6 DEF StrayUndo, rows, TypeInv, RequestShape, Loose, StraySteps
  <2>2. Loose' \in {Loose, Loose \ {f}}
    BY <1>0, <2>1, Tightened
  <2>3. CASE UNCHANGED <<object, bereft>>
    BY <1>3, <2>1, <2>2, <2>3
  <2>4. CASE /\ SetObject(f, "none") /\ bereft' \in {bereft, bereft \cup {f}}
             /\ status[f] = "ready" => f \in bereft'
    <3>1. Lifecycle!Erase(f)
      BY <2>1, <2>2, <2>4 DEF SetObject, Lifecycle!Erase
    <3> QED
      BY <1>1, <2>1, <3>1
  <2> QED
    BY <2>1, <2>3, <2>4
<1> QED
  BY <1>4, <1>5, <1>6

\* Every step is a step of FileLifecycle or a stutter.
LEMMA LifecycleStep ==
    ASSUME FilesInv, LifeInv, [Next]_vars
    PROVE [Lifecycle!Next]_(Lifecycle!vars)
<1>1. TypeInv
  BY DEF FilesInv
<1>2. CASE Loose' = Loose
  BY <1>2, TightLifecycleStep, LooseLifecycleStep
<1>3. CASE Loose' # Loose
  BY <1>1, <1>3, LooseMoves, LooseLifecycleStep
<1> QED
  BY <1>2, <1>3

\* Stored files keep what FileLifecycle promises, however many requests, uploads
\* and runs of the job overlap, fail and die.
THEOREM FilesImplementLifecycle == Spec => ImplementsLifecycle
<1>1. Init => LifeInv /\ Lifecycle!Init
  BY DEF Init, LifeInv, RefsCompleted, RefSteps, FailedIsOld, OneAvatar, AvatarHeld,
         Lifecycle!Init, Loose, StraySteps
<1>2. FilesInv /\ LifeInv /\ [Next]_vars => LifeInv'
  BY LifeStep
<1>3. FilesInv /\ LifeInv /\ [Next]_vars => [Lifecycle!Next]_(Lifecycle!vars)
  BY LifecycleStep
<1> QED
  BY <1>1, <1>2, <1>3, FilesInvariant, PTL DEF Spec, ImplementsLifecycle, Lifecycle!Spec
=============================================================================
