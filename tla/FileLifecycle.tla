--------------------------- MODULE FileLifecycle ---------------------------
(***************************************************************************)
(* The life of a stored file, with no requests, locks, jobs or clocks: it  *)
(* is reserved, completed once or failed, deleted once nothing refers to   *)
(* it, and purged once its object is gone.  Its object is written and      *)
(* erased only in the phases that allow it: one that is ready keeps an     *)
(* object it has, and one that is purged or failed is written no more.  An *)
(* upload that has come loose of its file's row keeps to no phase, but is  *)
(* over before the file is purged.                                         *)
(***************************************************************************)
CONSTANTS
    Files,
    Holders,  \* what refers to files
    Users,    \* holders that refer to one file at a time
    None

VARIABLES
    status,   \* the phase of each file
    object,   \* the store: nothing, an object of the reserved size, another
    refs,     \* which holder refers to which file
    bereft,   \* files whose object was erased under a completion, or after it
    loose     \* files of which an upload is loose

vars == <<status, object, refs, bereft, loose>>

Move(f, from, to) == status[f] = from /\ status' = [status EXCEPT ![f] = to]

\* It has been ready.
Completed(f) == status[f] \in {"ready", "pending_delete", "deleted"}

Reserve(f) == Move(f, "none", "pending_upload") /\ UNCHANGED <<object, refs, bereft, loose>>

Write(f) ==
    /\ status[f] \in {"pending_upload", "ready", "pending_delete"} \/ f \in loose
    /\ \E o \in {"right", "wrong"} : object' = [object EXCEPT ![f] = o]
    /\ UNCHANGED <<status, refs, bereft, loose>>

Erase(f) ==
    /\ status[f] \in {"pending_upload", "pending_delete"} \/ f \in loose
    /\ bereft' \in {bereft, bereft \cup {f}}
    /\ status[f] = "ready" => f \in bereft'
    /\ loose' \in {loose, loose \ {f}}
    /\ object' = [object EXCEPT ![f] = "none"]
    /\ UNCHANGED <<status, refs>>

\* An upload of f comes loose.
Break(f) ==
    /\ status[f] = "pending_upload"
    /\ loose' = loose \cup {f}
    /\ UNCHANGED <<status, object, refs, bereft>>

\* The last loose upload of f is over.
Tidy(f) ==
    /\ loose' = loose \ {f}
    /\ UNCHANGED <<status, object, refs, bereft>>

Complete(f) ==
    /\ Move(f, "pending_upload", "ready")
    /\ object[f] # "none" \/ f \in bereft
    /\ UNCHANGED <<object, refs, bereft, loose>>

Fail(f) == Move(f, "pending_upload", "upload_failed") /\ UNCHANGED <<object, refs, bereft, loose>>

\* f is deleted, and no reference to it is left.
Deleted(f) ==
    /\ Move(f, "ready", "pending_delete")
    /\ \A h \in Holders : <<h, f>> \notin refs'

Delete(f) == Deleted(f) /\ UNCHANGED <<object, refs, bereft, loose>>

\* A holder lets go of a file, refers to another, or both at once; the file it
\* lets go of is deleted with it or not.
Exchange(h, old, new) ==
    /\ refs' = (refs \ {<<h, old>>}) \cup (IF new = None THEN {} ELSE {<<h, new>>})
    /\ new # None => Completed(new)
    /\ h \in Users => \A f, g \in Files : <<h, f>> \in refs' /\ <<h, g>> \in refs' => f = g
    /\ UNCHANGED status \/ (old \in Files /\ Deleted(old))
    /\ UNCHANGED <<object, bereft, loose>>

Purge(f) ==
    /\ Move(f, "pending_delete", "deleted")
    /\ object[f] = "none" /\ f \notin loose
    /\ UNCHANGED <<object, refs, bereft, loose>>

Init ==
    /\ status = [f \in Files |-> "none"]
    /\ object = [f \in Files |-> "none"]
    /\ refs = {} /\ bereft = {} /\ loose = {}

Next ==
    \/ \E f \in Files :
          \/ Reserve(f) \/ Write(f) \/ Erase(f) \/ Complete(f) \/ Fail(f)
          \/ Delete(f) \/ Purge(f) \/ Break(f) \/ Tidy(f)
    \/ \E h \in Holders, old, new \in Files \cup {None} : Exchange(h, old, new)

Spec == Init /\ [][Next]_vars
=============================================================================
