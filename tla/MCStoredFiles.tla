--------------------------- MODULE MCStoredFiles ---------------------------
(***************************************************************************)
(* An instance of StoredFiles for TLC.                                       *)
(***************************************************************************)
EXTENDS StoredFiles, TLC

CONSTANTS f1, f2, u1, i1, e1, p1, p2, j1, j2

Bounds(fs, u, a, p, j, r, f, c) ==
    [files |-> fs, presigned |-> u, admits |-> a, callers |-> p, jobs |-> j,
     requests |-> r, faults |-> f, crashes |-> c]

Avatars == f1 :> {u1} @@ f2 :> {u1}
Attachments == f1 :> {i1} @@ f2 :> {e1}

\* Two avatars of a user change while requests overlap; one file is uploaded
\* and completed at once while the job settles it, with two failures and a
\* death; an attachment of an issue and one of an entry; two workers, one of
\* which loses the lock; two files in one batch.
MCPlans == {
    Bounds({f1, f2}, {}, Avatars, {p1, p2}, {j1}, 4, 0, 0),
    Bounds({f1}, {f1}, Avatars, {p1, p2}, {j1}, 3, 2, 1),
    Bounds({f1}, {f1}, Attachments, {p1, p2}, {j1}, 4, 1, 0),
    Bounds({f2}, {f2}, Attachments, {p1, p2}, {j1}, 3, 1, 0),
    Bounds({f1}, {f1}, Avatars, {p1}, {j1, j2}, 3, 1, 1),
    Bounds({f1, f2}, {f1}, Avatars, {p1}, {j1}, 2, 1, 0)}
=============================================================================
