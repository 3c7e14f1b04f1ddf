--------------------------- MODULE LifecycleState ---------------------------
(***************************************************************************)
(* The pure part of src/lib/stream/lifecycle: the record an actor owns,    *)
(* the methods of LifecycleState as functions from a record to a record,   *)
(* and the retry backoff.  Modules that hold a lifecycle (the actor, the   *)
(* stream watcher, the WebRTC sessions) apply these operators.             *)
(*                                                                         *)
(* In every module of the project, a definition named X_Y is the plausible *)
(* mistake Y in the code of X; no specification uses it.  Replacing X by   *)
(* it must break a property (PROJECT.json says which).                     *)
(***************************************************************************)
EXTENDS Naturals

CONSTANTS
  MaxU32,     \* largest value of the u32 counters, where saturating_add stops
  BackoffCap  \* BACKOFF_CAP_SECS, in the model's time unit

ASSUME LifecycleStateAssumption == MaxU32 \in Nat \ {0} /\ BackoffCap \in Nat

Modes  == {"Lazy", "Eager"}
Phases == {"Idle", "Waking", "Running", "Draining"}

LifecycleStates == [mode        : Modes,
                    phase       : Phases,
                    consumers   : 0..MaxU32,
                    error_count : 0..MaxU32]

SaturatingInc(n) == IF n < MaxU32 THEN n + 1 ELSE n
SaturatingDec(n) == IF n > 0 THEN n - 1 ELSE 0

Lazy  == [mode |-> "Lazy", phase |-> "Idle", consumers |-> 0, error_count |-> 0]
Eager == [mode |-> "Eager", phase |-> "Waking", consumers |-> 1, error_count |-> 0]

InitialState(mode) == IF mode = "Lazy" THEN Lazy ELSE Eager

\* The consumer an eager lifecycle starts with and never gives up.
Phantom(mode) == IF mode = "Eager" THEN 1 ELSE 0

-----------------------------------------------------------------------------
(* add_consumer *)

AddConsumer_IdleKeepsCount(s) ==
  CASE s.phase = "Idle"     -> [s EXCEPT !.phase = "Waking", !.error_count = 0]
    [] s.phase = "Draining" -> [s EXCEPT !.phase = "Running", !.consumers = 1]
    [] OTHER                -> [s EXCEPT !.consumers = SaturatingInc(@)]

AddConsumer_Wrapping(s) ==
  CASE s.phase = "Idle"     -> [s EXCEPT !.phase = "Waking", !.consumers = 1,
                                         !.error_count = 0]
    [] s.phase = "Draining" -> [s EXCEPT !.phase = "Running", !.consumers = 1]
    [] OTHER                -> [s EXCEPT !.consumers = @ + 1]

AddConsumer(s) ==
  CASE s.phase = "Idle"     -> [s EXCEPT !.phase = "Waking", !.consumers = 1,
                                         !.error_count = 0]
    [] s.phase = "Draining" -> [s EXCEPT !.phase = "Running", !.consumers = 1]
    [] OTHER                -> [s EXCEPT !.consumers = SaturatingInc(@)]

-----------------------------------------------------------------------------
(* remove_consumer *)

RemoveConsumer_NoFloor(s) ==
  LET left == SaturatingDec(s.consumers)
  IN  CASE s.phase \in {"Idle", "Draining"}        -> s
        [] s.phase = "Running" /\ left = 0         -> [s EXCEPT !.phase = "Draining",
                                                                !.consumers = 0]
        [] OTHER                                   -> [s EXCEPT !.consumers = left]

RemoveConsumer(s) ==
  LET floor == Phantom(s.mode)
      left  == IF SaturatingDec(s.consumers) < floor THEN floor
                                                     ELSE SaturatingDec(s.consumers)
  IN  CASE s.phase \in {"Idle", "Draining"}  -> s
        [] s.phase = "Running" /\ left = 0   -> [s EXCEPT !.phase = "Draining",
                                                          !.consumers = 0]
        [] OTHER                             -> [s EXCEPT !.consumers = left]

-----------------------------------------------------------------------------
(* pipeline_ready, pipeline_error, drain_expired, reset_error_backoff *)

\* What pipeline_ready returns: did this call reach Running?
ReachesRunning(s) == s.phase = "Waking" /\ s.consumers > 0

PipelineReady_IgnoresCount(s) ==
  IF s.phase = "Waking" THEN [s EXCEPT !.phase = "Running"] ELSE s

PipelineReady(s) ==
  IF s.phase = "Waking"
    THEN [s EXCEPT !.phase = IF ReachesRunning(s) THEN "Running" ELSE "Draining"]
    ELSE s

PipelineError_ForgetsConsumers(s) ==
  IF s.phase = "Idle" THEN s
  ELSE [s EXCEPT !.phase = IF @ = "Draining" THEN "Idle" ELSE "Waking",
                 !.consumers = 0,
                 !.error_count = SaturatingInc(@)]

PipelineError(s) ==
  IF s.phase = "Idle" THEN s
  ELSE [s EXCEPT !.phase = IF @ = "Draining" THEN "Idle" ELSE "Waking",
                 !.error_count = SaturatingInc(@)]

\* What drain_expired returns: was the lifecycle still draining?
DrainExpires(s) == s.phase = "Draining"

DrainExpired_Unconditional(s) == [s EXCEPT !.phase = "Idle"]

DrainExpired(s) == IF DrainExpires(s) THEN [s EXCEPT !.phase = "Idle"] ELSE s

ResetErrorBackoff(s) == [s EXCEPT !.error_count = 0]

\* 1 << (n - 1) seconds, capped; no shift at all for the first attempt.  A
\* shift of 64 or more does not fit a u64 and also ends at the cap.
ComputeBackoff(n) ==
  IF n = 0 THEN 0
  ELSE IF n - 1 < 64 /\ 2 ^ (n - 1) < BackoffCap THEN 2 ^ (n - 1) ELSE BackoffCap

\* The consumers the published snapshot shows.
VisibleConsumers(s) == IF s.phase \in {"Idle", "Draining"} THEN 0 ELSE s.consumers
=============================================================================
