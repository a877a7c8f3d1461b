------------------------ MODULE NotificationLifecycle ------------------------
(***************************************************************************)
(* What the delayed notifier promises of a notification, without workers,  *)
(* caches, queues or messages.  A notification is recorded, perhaps        *)
(* accepted, perhaps announced to its client, attempted once it is         *)
(* accepted, and settled with an outcome that has been earned: by an       *)
(* attempt, or by a client who knows of it.  An outcome may give way to    *)
(* another one, which has been earned as well, and never to "scheduled".   *)
(*                                                                         *)
(* DelayedNotifier implements this with the table's status column as       *)
(* status, the ids of published messages as accepted, the ids answered     *)
(* with 201 as announced, and the calls of Send as attempts.               *)
(***************************************************************************)
EXTENDS Naturals

CONSTANTS
    Ids,
    MaxRetries

VARIABLES
    status,      \* status[id]: what the table says
    accepted,    \* ids that the system has undertaken to handle
    announced,   \* ids that a client has been told
    attempts,    \* attempts[id]: calls of Send
    deliveries   \* deliveries[id]: those that succeeded

lifecycleVars == <<status, accepted, announced, attempts, deliveries>>

LifecycleInit ==
    /\ status = [id \in Ids |-> "absent"]
    /\ accepted = {}
    /\ announced = {}
    /\ attempts = [id \in Ids |-> 0]
    /\ deliveries = [id \in Ids |-> 0]

Record(id) ==
    /\ status[id] = "absent"
    /\ status' = [status EXCEPT ![id] = "scheduled"]
    /\ UNCHANGED <<accepted, announced, attempts, deliveries>>

Accept(id) ==
    /\ status[id] # "absent"
    /\ accepted' = accepted \cup {id}
    /\ UNCHANGED <<status, announced, attempts, deliveries>>

(* The client may be told late, when all is over, or never.                *)
Announce(id) ==
    /\ id \in accepted
    /\ announced' = announced \cup {id}
    /\ UNCHANGED <<status, accepted, attempts, deliveries>>

(* An attempt may come after the notification is settled: of a duplicate,  *)
(* or of a worker that looked before someone else settled it.              *)
Attempt(id) ==
    /\ id \in accepted
    /\ attempts' = [attempts EXCEPT ![id] = @ + 1]
    /\ deliveries' \in {deliveries, [deliveries EXCEPT ![id] = @ + 1]}
    /\ UNCHANGED <<status, accepted, announced>>

Justified(id, outcome) ==
    \/ outcome = "sent" /\ deliveries[id] > 0
    \/ outcome = "failed" /\ attempts[id] >= deliveries[id] + MaxRetries
    \/ outcome = "cancelled" /\ id \in announced

SettleAs(id, outcome) ==
    /\ id \in accepted
    /\ status[id] # "absent"
    /\ Justified(id, outcome)
    /\ status' = [status EXCEPT ![id] = outcome]
    /\ UNCHANGED <<accepted, announced, attempts, deliveries>>

LifecycleNext ==
    \E id \in Ids :
        \/ Record(id)
        \/ Accept(id)
        \/ Announce(id)
        \/ Attempt(id)
        \/ \E outcome \in {"sent", "failed", "cancelled"} : SettleAs(id, outcome)

LifecycleSpec == LifecycleInit /\ [][LifecycleNext]_lifecycleVars
=============================================================================
