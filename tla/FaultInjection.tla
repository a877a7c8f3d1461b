---- MODULE FaultInjection ----
(* What can fail around the two programs.  A behaviour takes its faults
   from one budget, and FaultKinds selects those a model contains:

     "storage"    a Redis or PostgreSQL call returns an error
     "lost"       a publish without confirm returns nil, nothing arrives
     "publisher"  the broker closes a publisher channel
     "channel"    the broker closes the channel a worker consumes from
     "connection" the worker process loses its AMQP connection
     "crash"      the API or the worker process ends and starts again
     "stop"       the worker process is told to stop, closes its clients
                  under the workers, ends and starts again
     "client"     a client disconnects, and the context of its request ends
     "timeout"    the start timeout passes, which ends the context of the
                  workers: it does so in every run, so it is not taken from
                  the budget; a model without it looks at the time before *)
EXTENDS Naturals

CONSTANTS FaultKinds,  \* the faults this model contains
          MaxFaults    \* bound: how many of them a behaviour contains

ASSUME MaxFaultsAssumption == MaxFaults \in Nat

VARIABLE faults        \* how many faults have happened

Fault(kind) ==
    kind \in FaultKinds /\ faults < MaxFaults /\ faults' = faults + 1
====
