----------------------------- MODULE FxLifecycle -----------------------------
(***************************************************************************)
(* The life of the two programs under go.uber.org/fx, as app/fx.go and the *)
(* client constructors set it up.  fx.New calls the constructors; Run      *)
(* calls the OnStart hooks in the order in which they were appended, under *)
(* a context that ends with the start timeout, and after a signal the      *)
(* OnStop hooks in reverse, under one that ends with the stop timeout.     *)
(* When a hook fails, or the start timeout comes first, the hooks that     *)
(* were started are stopped in the same way.                               *)
(*                                                                         *)
(* fx.go hands the start context to consumer.Start, so it is the context   *)
(* every worker runs under.                                                *)
(***************************************************************************)
EXTENDS Naturals, Sequences

VARIABLES
    phase,      \* phase[p]: where program p is in its life
    started,    \* started[p]: hooks that are started and not stopped
    startCtx    \* startCtx[p]: the context of the OnStart hooks

lifecycleVars == <<phase, started, startCtx>>

Programs == {"api", "worker"}
Phases == {"new", "starting", "running", "stopping", "exited"}

(* The order in which the constructors of the hooks' owners are called:    *)
(* the pool before the cache, and both before what uses them.              *)
Hooks == [api |-> <<"postgres", "redis", "server">>,
          worker |-> <<"postgres", "redis", "pool">>]
NextHook(p) == Hooks[p][started[p] + 1]
LastHook(p) == Hooks[p][started[p]]

(* A client can be used from its construction until it is closed.          *)
Open(p, client) ==
    phase[p] = "stopping" =>
        \E i \in 1 .. started[p] : Hooks[p][i] = client

LifecycleInit ==
    /\ phase = [p \in Programs |-> "new"]
    /\ started = [p \in Programs |-> 0]
    /\ startCtx = [p \in Programs |-> "live"]

Enters(p, next) == phase' = [phase EXCEPT ![p] = next]

-----------------------------------------------------------------------------
(* fx.New: amqp.Dial, the topology and the dispatcher may fail.            *)
Construct(p) ==
    /\ phase[p] = "new"
    /\ \/ Enters(p, "starting")
       \/ Enters(p, "exited")
    /\ UNCHANGED <<started, startCtx>>

(* The clients' hooks ping; the last hook starts goroutines.               *)
StartHook(p) ==
    /\ phase[p] = "starting"
    /\ startCtx[p] = "live"
    /\ started' = [started EXCEPT ![p] = @ + 1]
    /\ IF started[p] + 1 = Len(Hooks[p]) THEN Enters(p, "running")
       ELSE UNCHANGED phase
    /\ UNCHANGED startCtx

PingFails(p) ==
    /\ phase[p] = "starting"
    /\ NextHook(p) \in {"postgres", "redis"}
    /\ Enters(p, "stopping")
    /\ UNCHANGED <<started, startCtx>>

(* The start timeout passes, whether the program is still starting or not. *)
StartTimeout(p) ==
    /\ phase[p] \in {"starting", "running", "stopping"}
    /\ startCtx[p] = "live"
    /\ startCtx' = [startCtx EXCEPT ![p] = "done"]
    /\ IF phase[p] = "starting" THEN Enters(p, "stopping") ELSE UNCHANGED phase
    /\ UNCHANGED started

Signal(p) ==
    /\ phase[p] = "running"
    /\ Enters(p, "stopping")
    /\ UNCHANGED <<started, startCtx>>

(* The OnStop hook of whatever was started last.                           *)
StopHook(p, hook) ==
    /\ phase[p] = "stopping"
    /\ started[p] > 0 /\ LastHook(p) = hook
    /\ started' = [started EXCEPT ![p] = @ - 1]
    /\ UNCHANGED <<phase, startCtx>>

(* All hooks are stopped, or the stop timeout skips those that are not.    *)
Exits(p) ==
    /\ phase[p] = "stopping"
    /\ Enters(p, "exited")
    /\ UNCHANGED <<started, startCtx>>

(* ListenAndServe returns an error, and the goroutine panics.              *)
Panics(p) ==
    /\ phase[p] = "running"
    /\ Enters(p, "exited")
    /\ UNCHANGED <<started, startCtx>>

LifecycleTypeOK ==
    /\ phase \in [Programs -> Phases]
    /\ started \in [Programs -> 0 .. 3]
    /\ startCtx \in [Programs -> {"live", "done"}]
=============================================================================
