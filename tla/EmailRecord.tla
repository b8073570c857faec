---------------------------- MODULE EmailRecord ----------------------------
(***************************************************************************)
(* What is on record of e-mails and of the webhook events about them, with  *)
(* no statements, locks, transactions or deaths: an event is stored once,   *)
(* and whenever it is applied, its receipt, the e-mail's status and its own *)
(* status change in one step, in which only an event that is no older than  *)
(* the last one is the provider row's news.                                 *)
(***************************************************************************)
EXTENDS Naturals

CONSTANTS Messages, Events, MessageOf, KindOf, OccurredAt

VARIABLES
    message,   \* the status of each e-mail
    provided,  \* the newest webhook of each e-mail the provider has answered
    stored,    \* the processing status of each event
    receipts,  \* events that have been applied
    finished   \* e-mails whose sender has nothing more to write

vars == <<message, provided, stored, receipts, finished>>

Outcomes == {"accepted", "failed"}

\* The status an event stands for.
Shows(kind) == CASE kind = "sent" -> "accepted"
                 [] kind = "opened" -> "none"
                 [] OTHER -> kind

Create(m) ==
    /\ m \notin finished /\ message[m] = "none"
    /\ message' = [message EXCEPT ![m] = "pending"]
    /\ UNCHANGED <<provided, stored, receipts, finished>>

\* The provider's answer, before any of its webhooks can be applied.
Provide(m, outcome) ==
    /\ m \notin finished /\ ~provided[m].exists
    /\ provided' = [provided EXCEPT ![m] =
                      [exists |-> TRUE, last |-> 0, status |-> outcome]]
    /\ UNCHANGED <<message, stored, receipts, finished>>

\* The sender ends, having written its outcome or not.
Finish(m) ==
    /\ m \notin finished
    /\ finished' = finished \cup {m}
    /\ \/ UNCHANGED message
       \/ \E outcome \in Outcomes :
             /\ outcome = "accepted" => provided[m].exists
             /\ message' = [message EXCEPT ![m] = outcome]
    /\ UNCHANGED <<provided, stored, receipts>>

Store(e) ==
    /\ stored[e] = "none"
    /\ stored' = [stored EXCEPT ![e] = "persisted"]
    /\ UNCHANGED <<message, provided, receipts, finished>>

Claim(e) ==
    /\ stored[e] \in {"failed", "persisted", "unmatched"}
    /\ stored' = [stored EXCEPT ![e] = "received"]
    /\ UNCHANGED <<message, provided, receipts, finished>>

\* A processing of the event ends without a trace in either row.
SetAside(e) ==
    /\ stored[e] # "none"
    /\ \E s \in {"unmatched", "failed"} : stored' = [stored EXCEPT ![e] = s]
    /\ UNCHANGED <<message, provided, receipts, finished>>

Apply(e) ==
    LET m == MessageOf[e]
    IN  /\ stored[e] # "none" /\ provided[m].exists
        /\ provided' = IF provided[m].last > OccurredAt[e] THEN provided
                       ELSE [provided EXCEPT ![m] =
                               [exists |-> TRUE, last |-> OccurredAt[e],
                                status |-> KindOf[e]]]
        /\ \/ UNCHANGED message
           \/ /\ Shows(KindOf[e]) # "none"
              /\ message' = [message EXCEPT ![m] = Shows(KindOf[e])]
        /\ stored' = [stored EXCEPT ![e] = "applied"]
        /\ receipts' = receipts \cup {e}
        /\ UNCHANGED finished

Init ==
    /\ message = [m \in Messages |-> "none"]
    /\ provided = [m \in Messages |-> [exists |-> FALSE, last |-> 0, status |-> "none"]]
    /\ stored = [e \in Events |-> "none"]
    /\ receipts = {} /\ finished = {}

Next ==
    \/ \E m \in Messages :
          \/ Create(m) \/ Finish(m)
          \/ \E outcome \in Outcomes : Provide(m, outcome)
    \/ \E e \in Events : Store(e) \/ Claim(e) \/ SetAside(e) \/ Apply(e)

Spec == Init /\ [][Next]_vars
=============================================================================
