---------------------------- MODULE Notification ----------------------------
(***************************************************************************)
(* The domain model of the delayed notifier: the mutable columns of a      *)
(* notification row and the body of a queue message.  Subject, message,    *)
(* author and recipient never change after creation and no step modelled   *)
(* here branches on them, so a notification is its id, its status, its     *)
(* attempt count and whether sent_at is set.                               *)
(***************************************************************************)
EXTENDS Naturals

CONSTANTS
    Ids,         \* the ids gen_random_uuid() hands out during a run
    NoId,        \* the id of no notification
    MaxRetries   \* maxRetries of the consumer: send attempts before "failed"

ASSUME NoIdAssumption == NoId \notin Ids
ASSUME MaxRetriesAssumption == MaxRetries \in Nat \ {0}

(* A status that ends the life of a notification, and all statuses.        *)
Outcomes == {"sent", "failed", "cancelled"}
Statuses == {"scheduled"} \cup Outcomes

(* The columns that UPDATE statements change, and the row INSERT writes.   *)
Rows == [status : Statuses, attempts : 0 .. MaxRetries, sentAt : BOOLEAN]
NewRow == [status |-> "scheduled", attempts |-> 0, sentAt |-> FALSE]

(* What a lookup that finds nothing yields: pgx.ErrNoRows, redis.Nil.      *)
NoRow == [status |-> "absent", attempts |-> 0, sentAt |-> FALSE]

Settled(row) == row.status \in Outcomes

(* The rows the consumer writes: "sent" after attempts earlier failures,   *)
(* "failed" once the attempts are used up.                                 *)
SentRow(attempts) ==
    [status |-> "sent", attempts |-> attempts, sentAt |-> TRUE]
FailedRow(attempts) ==
    [status |-> "failed", attempts |-> attempts, sentAt |-> FALSE]
ConsumerRows ==
    {SentRow(a) : a \in 0 .. MaxRetries - 1} \cup {FailedRow(MaxRetries)}

(* A message body is the JSON of the notification when it was published.   *)
(* It is published with status scheduled and no sent_at, so the attempt    *)
(* count is all that differs between two bodies of one notification.       *)
Messages == [id : Ids, attempts : 0 .. MaxRetries - 1]
NoMessage == [id |-> NoId, attempts |-> 0]
=============================================================================
