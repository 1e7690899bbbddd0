---------------------------- MODULE SlewedClock ----------------------------
(***************************************************************************)
(* SlewedNetworkClock of src/src/timesync.rs: a clock that is never        *)
(* stepped.  It runs with the monotonic clock from an anchor and works off *)
(* `pending', the correction still to be applied, at a bounded rate.       *)
(* One unit of time stands for the nanoseconds of the code as well as for  *)
(* the milliseconds of its samples; the saturating operations of the code  *)
(* do not saturate in the range of times a device meets.                   *)
(***************************************************************************)
EXTENDS Integers, FiniteSetsExt

CONSTANTS SlewNum, SlewDen   \* max_slew_ppm / 1_000_000

\* SlewedNetworkClock::new caps max_slew_ppm at 999_999: the rate is below one.
ASSUME SlewAssumption == /\ SlewNum \in Nat
                         /\ SlewDen \in Nat \ {0}
                         /\ SlewNum < SlewDen

\* SlewedNetworkClock
Clocks == [initialized : BOOLEAN, mono : Nat, unix : Int, pending : Int]

\* The clock before its first sample.
Unset == [initialized |-> FALSE, mono |-> 0, unix |-> 0, pending |-> 0]

\* The part of the pending correction that has been worked off at time t.
Applied(c, t) ==
  LET most == ((t - c.mono) * SlewNum) \div SlewDen IN
  IF c.pending >= 0 THEN Min({c.pending, most}) ELSE -Min({-c.pending, most})

\* read_unix_ns
ReadUnix(c, t) == c.unix + (t - c.mono) + Applied(c, t)

\* A steer that steps to the target.
SteerSteps(c, t, target) ==
  [initialized |-> TRUE, mono |-> t, unix |-> target, pending |-> 0]

\* steer_unix_ms.  The first sample sets the clock.  A later one keeps the
\* reading and adds the whole distance to the target to what was pending.
Steer(c, t, target) ==
  IF ~c.initialized
    THEN [initialized |-> TRUE, mono |-> t, unix |-> target, pending |-> 0]
    ELSE [initialized |-> TRUE, mono |-> t, unix |-> ReadUnix(c, t),
          pending |-> (c.pending - Applied(c, t)) + (target - ReadUnix(c, t))]
=============================================================================
