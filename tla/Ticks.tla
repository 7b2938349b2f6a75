-------------------------------- MODULE Ticks --------------------------------
(***************************************************************************)
(* Times of HAL_GetTick: a counter of milliseconds that wraps around, and  *)
(* the comparisons and deadlines the firmware computes with it.            *)
(***************************************************************************)
EXTENDS Integers

CONSTANT Half   \* half the range of the counter: 2^31

ASSUME HalfAssumption == Half \in Nat /\ Half > 1

Word == 0..(2 * Half - 1)

Plus(a, b)  == IF a + b < 2 * Half THEN a + b ELSE a + b - 2 * Half
Minus(a, b) == IF a >= b THEN a - b ELSE a - b + 2 * Half

\* Mutant: the plain comparison.
TimeAfterPlain(a, b) == a > b

\* time_after: (int)(b - a) < 0.
TimeAfter(a, b) == Minus(b, a) >= Half

\* Mutant: the plain comparison.
PassedPlain(now, target) == now >= target

\* SEQ_ISPASSED: (int32_t)(now - target) >= 0.
Passed(now, target) == Minus(now, target) < Half

\* can_schedule_bus_off_recovery: 0 means that none is scheduled.
Schedule(now, delay) == IF Plus(now, delay) = 0 THEN 1 ELSE Plus(now, delay)

\* can_bus_off_recovery_pending.
Pending(restart, now) == restart # 0 /\ TimeAfter(now, restart)

\* Scheduled at now, looked at when elapsed ticks have passed.
DueInTime(now, delay, elapsed) ==
  LET restart == Schedule(now, delay)
      later   == Plus(now, elapsed)
  IN  /\ restart # 0
      /\ elapsed <= delay => ~Pending(restart, later)
      /\ elapsed >= delay + 2 => Pending(restart, later)

\* A recovery that was scheduled is pending when its delay has passed, within two
\* ticks and not before, wherever the counter wraps around, and stays so for half
\* the range of the counter: between two rounds of the main loop.
RestartInTime ==
  \A now \in Word, delay \in 0..(Half - 2), elapsed \in 0..Half : DueInTime(now, delay, elapsed)
=============================================================================
