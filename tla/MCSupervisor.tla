---------------------------- MODULE MCSupervisor ----------------------------
(***************************************************************************)
(* A small device for Supervisor: one reading for each thing a reading can  *)
(* say, on either side of the truncation and of the width of capacities.    *)
(***************************************************************************)
EXTENDS Supervisor

Nominal ==
    [temp |-> 250, capacity |-> 58, current |-> -180, full |-> 3600, design |-> 4000]

MCReadings ==
    { Nominal,
      [Nominal EXCEPT !.temp = 399],                    \* just outside the margin
      [Nominal EXCEPT !.temp = 450],                    \* the warning threshold
      [Nominal EXCEPT !.temp = 599],                    \* 59 degrees: critical
      [Nominal EXCEPT !.temp = 600],                    \* the hard stop
      [Nominal EXCEPT !.full = 3100],                   \* 77%: degraded
      [Nominal EXCEPT !.full = 2000],                   \* 50%: retired
      [Nominal EXCEPT !.full = 20000, !.current = 1],   \* too wide to be a percentage
      [Nominal EXCEPT !.capacity = 10] }                \* at the reserve

MCReadbacks == {NoReadback, 60, 61}
=============================================================================
