------------------------------ MODULE Backoff ------------------------------
(***************************************************************************)
(* src/ethernet-study/binary_exp.c: n devices share a medium; each has one *)
(* frame, devices that send in the same slot collide and each draws a      *)
(* later slot from a range that grows with its collisions. One action is   *)
(* one turn of the while loop of simulation.                               *)
(***************************************************************************)
EXTENDS Naturals, FiniteSets

CONSTANTS
    IntBits,    \* bits of an int: 32
    MaxT        \* bound: slots of a simulation

ASSUME IntBitsAssumption == IntBits \in Nat \ {0}

VARIABLES
    devices,            \* one record for each device
    t,                  \* the slot
    number_completed

backoffVars == <<devices, t, number_completed>>

Device == [max_range : Nat, next_attempt : Nat, completed : BOOLEAN, curr_max : Nat]

BackoffInit(n) ==
    /\ devices = [i \in 1 .. n |-> [max_range |-> 1, next_attempt |-> 0,
                                    completed |-> FALSE, curr_max |-> 1]]
    /\ t = 0
    /\ number_completed = 0

Transmitting == {i \in DOMAIN devices : devices[i].next_attempt = t /\ ~devices[i].completed}

\* Mutant of Collided: three devices make a collision.
CollidedThree == IF Cardinality(Transmitting) >= 3 THEN Transmitting ELSE {}

\* col_det: it is all who transmit, or none.
Collided == IF Cardinality(Transmitting) >= 2 THEN Transmitting ELSE {}

\* (1 << count) - 1: the processor takes the count modulo the width of an int.
RangeOf(count) == 2 ^ (count % IntBits) - 1

\* Mutant of Retry: the draw counts from this slot instead of the next.
RetrySameSlot(device, rand_n) ==
    [device EXCEPT !.next_attempt = t + rand_n,
                   !.curr_max = @ + 1,
                   !.max_range = RangeOf(device.curr_max + 1)]

Retry(device, rand_n) ==
    [device EXCEPT !.next_attempt = t + rand_n + 1,
                   !.curr_max = @ + 1,
                   !.max_range = RangeOf(device.curr_max + 1)]

\* What rand_generator may return to each device.
Draws == {draw \in [Collided -> 0 .. 2 ^ IntBits] :
             \A i \in Collided : draw[i] <= devices[i].max_range}

Collision ==
    /\ Collided # {}
    /\ \E draw \in Draws :
          devices' = [i \in DOMAIN devices |->
                         IF i \in Collided THEN Retry(devices[i], draw[i]) ELSE devices[i]]
    /\ UNCHANGED number_completed

\* Nobody sends, or a single device does and is done.
NoCollision ==
    /\ Collided = {}
    /\ devices' = [i \in DOMAIN devices |->
                      IF i \in Transmitting THEN [devices[i] EXCEPT !.completed = TRUE]
                                            ELSE devices[i]]
    /\ number_completed' = number_completed + Cardinality(Transmitting)

Slot ==
    /\ number_completed < Cardinality(DOMAIN devices)
    /\ t < MaxT
    /\ Collision \/ NoCollision
    /\ t' = t + 1

BackoffSpec(n) == BackoffInit(n) /\ [][Slot]_backoffVars

-----------------------------------------------------------------------------
(* Properties.                                                             *)

BackoffTypeOK ==
    /\ devices \in [DOMAIN devices -> Device]
    /\ t \in Nat
    /\ number_completed \in Nat

\* A device that still has its frame waits for a slot that is to come: next_attempt
\* is compared with t for equality, so one that lags behind would never send, and
\* the simulation would never end.
NoDeviceLost == \A i \in DOMAIN devices :
                    devices[i].completed \/ devices[i].next_attempt >= t

\* The medium carries one frame in a slot: the loop's end, a count, means that
\* all devices are done, and it takes at least as many slots as devices.
Completed == {i \in DOMAIN devices : devices[i].completed}

OneFramePerSlot == /\ number_completed = Cardinality(Completed)
                   /\ number_completed <= t
=============================================================================
