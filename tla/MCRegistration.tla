--------------------------- MODULE MCRegistration ---------------------------
(***************************************************************************)
(* Instances of Registration for TLC: three requests that compete for an    *)
(* e-mail, a slug or the first system owner.                                *)
(***************************************************************************)
EXTENDS Registration, TLC

CONSTANTS r1, r2, r3, anna, bob, acme, other

MCRequests == {r1, r2, r3}

Ask(k, e, s) == [kind |-> k, email |-> e, slug |-> s]
Three(a, b, c) == r1 :> a @@ r2 :> b @@ r3 :> c

\* Two installers and a join with the e-mail of one; one person who founds
\* twice and joins; two who join and install; two founders of one
\* slug, or a founder and an installer, and a join with the founder's e-mail.
MCForms == {
    Three(Ask("install", anna, acme), Ask("install", bob, other),
          Ask("join", anna, other)),
    Three(Ask("found", anna, acme), Ask("found", anna, other),
          Ask("join", anna, other)),
    Three(Ask("join", anna, acme), Ask("join", anna, acme),
          Ask("install", anna, acme)),
    Three(Ask("found", anna, acme), Ask("found", bob, acme),
          Ask("join", bob, acme)),
    Three(Ask("install", anna, acme), Ask("found", bob, acme),
          Ask("join", bob, acme))}
=============================================================================
