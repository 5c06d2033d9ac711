--------------------------- MODULE ProgramProofs ---------------------------
(***************************************************************************)
(* Proofs about the stand-alone programs and the checksum.                 *)
(*                                                                         *)
(* The simulations of src/ethernet-study (Backoff and EthernetStudy), for  *)
(* every number of devices and slots. The checksum, for headers of every   *)
(* length and octets of any number of values: the sum tells a header of    *)
(* which one octet changed from one that arrives as it was sent. The frame *)
(* programs (FrameTools), for both of them and every bound. hexdump and    *)
(* hexread (HexTools), for every input, length of a line and way to read.  *)
(***************************************************************************)
EXTENDS Backoff, EthernetStudy, Checksum, FrameTools, HexTools, Integers, FiniteSetTheorems,
        SequenceTheorems, WellFoundedInduction, TLAPS

-----------------------------------------------------------------------------
(* Binary exponential backoff.                                             *)

\* The array of devices is as long as the command line says.
BackoffShape(n) == BackoffTypeOK /\ DOMAIN devices = 1 .. n

\* The invariant is inductive: col_det lists all who transmit or none, so a
\* device that is neither listed nor done does not wait for this slot.
BackoffInv(n) == BackoffShape(n) /\ NoDeviceLost

LEMMA BackoffInvInit == ASSUME NEW n \in Nat, BackoffInit(n) PROVE BackoffInv(n)
  BY DEF BackoffInit, BackoffInv, BackoffShape, BackoffTypeOK, Device, NoDeviceLost

\* The range of a draw is the number of proper subsets of as many elements as
\* the shift counts, and so a natural number for every count.
LEMMA RangeType == ASSUME NEW n \in Nat PROVE RangeOf(n) \in Nat
  <1> DEFINE m == n % IntBits
  <1>1. m \in Nat
    BY IntBitsAssumption
  <1>2. IsFiniteSet(1 .. m) /\ Cardinality(1 .. m) = m
    BY <1>1, FS_Interval
  <1>3. /\ IsFiniteSet(SUBSET (1 .. m))
        /\ Cardinality(SUBSET (1 .. m)) = 2 ^ m
    BY <1>2, FS_SUBSET
  <1>4. Cardinality(SUBSET (1 .. m)) \in Nat /\ Cardinality(SUBSET (1 .. m)) # 0
    BY <1>3, FS_CardinalityType, FS_EmptySet
  <1>5. 2 ^ m \in Nat /\ 2 ^ m # 0
    BY <1>3, <1>4
  <1>6. 2 ^ m - 1 \in Nat
    BY <1>5
  <1>7. QED
    BY <1>6 DEF RangeOf

\* One device of a collision: the next attempt is in a later slot.
LEMMA RetryLater ==
  ASSUME NEW d \in Device, NEW r \in Nat, t \in Nat
  PROVE  /\ Retry(d, r) \in Device
         /\ Retry(d, r).next_attempt >= t + 1
         /\ Retry(d, r).completed = d.completed
  <1>1. d.curr_max + 1 \in Nat /\ t + r + 1 \in Nat
    BY DEF Device
  <1>2. RangeOf(d.curr_max + 1) \in Nat
    BY <1>1, RangeType
  <1>3. PICK a \in Nat, b \in Nat, c \in Nat :
           /\ a = t + r + 1
           /\ Retry(d, r) = [d EXCEPT !.next_attempt = a, !.curr_max = b, !.max_range = c]
    BY <1>1, <1>2 DEF Retry
  <1>4. [d EXCEPT !.next_attempt = a, !.curr_max = b, !.max_range = c] \in Device
    BY DEF Device
  <1>5. [d EXCEPT !.next_attempt = a, !.curr_max = b, !.max_range = c].completed = d.completed
    BY DEF Device
  <1>6. [d EXCEPT !.next_attempt = a, !.curr_max = b, !.max_range = c].next_attempt = a
    BY DEF Device
  <1>7. QED
    BY <1>3, <1>4, <1>5, <1>6

\* A collision: the devices in it retry, and no other device waits for this slot.
LEMMA CollisionStep ==
  ASSUME NEW n \in Nat, BackoffInv(n), Collision, t' = t + 1
  PROVE  BackoffInv(n)'
  <1>1. PICK draw \in Draws :
           devices' = [i \in DOMAIN devices |->
                          IF i \in Collided THEN Retry(devices[i], draw[i]) ELSE devices[i]]
    BY DEF Collision
  <1>2. \A i \in Collided : draw[i] \in Nat
    BY DEF Draws
  <1>3. Collided = Transmitting
    BY DEF Collision, Collided
  <1>4. \A i \in DOMAIN devices : devices[i] \in Device
    BY DEF BackoffInv, BackoffShape, BackoffTypeOK
  <1>5. t \in Nat /\ number_completed' \in Nat /\ DOMAIN devices = 1 .. n
    BY DEF Collision, BackoffInv, BackoffShape, BackoffTypeOK
  <1>6. DOMAIN devices' = 1 .. n
    BY <1>1, <1>5
  <1>7. ASSUME NEW i \in 1 .. n
        PROVE  /\ devices'[i] \in Device
               /\ devices'[i].completed \/ devices'[i].next_attempt >= t + 1
    <2>1. CASE i \in Collided
      <3>1. devices'[i] = Retry(devices[i], draw[i])
        BY <1>1, <1>5, <2>1
      <3>2. QED
        BY <1>2, <1>4, <1>5, <2>1, <3>1, RetryLater
    <2>2. CASE i \notin Collided
      <3>1. devices'[i] = devices[i] /\ devices[i] \in Device
        BY <1>1, <1>4, <1>5, <2>2
      <3>2. devices[i].completed \/ devices[i].next_attempt # t
        BY <1>3, <1>5, <2>2 DEF Transmitting
      <3>3. devices[i].completed \/ devices[i].next_attempt >= t
        BY <1>5 DEF BackoffInv, NoDeviceLost
      <3>4. QED
        BY <1>5, <3>1, <3>2, <3>3 DEF Device
    <2>3. QED
      BY <2>1, <2>2
  <1>8. devices' \in [1 .. n -> Device]
    <2>1. devices' = [i \in DOMAIN devices' |-> devices'[i]]
      BY <1>1
    <2>2. QED
      BY <1>6, <1>7, <2>1
  <1>9. QED
    BY <1>5, <1>6, <1>7, <1>8
       DEF BackoffInv, BackoffShape, BackoffTypeOK, NoDeviceLost

\* A slot without a collision: the device that sends is done.
LEMMA NoCollisionStep ==
  ASSUME NEW n \in Nat, BackoffInv(n), NoCollision, t' = t + 1
  PROVE  BackoffInv(n)'
  <1>1. /\ t \in Nat /\ number_completed \in Nat
        /\ DOMAIN devices = 1 .. n
        /\ \A i \in 1 .. n : devices[i] \in Device
    BY DEF BackoffInv, BackoffShape, BackoffTypeOK
  <1>2. devices' = [i \in 1 .. n |->
                      IF i \in Transmitting THEN [devices[i] EXCEPT !.completed = TRUE]
                                            ELSE devices[i]]
    BY <1>1 DEF NoCollision
  <1>3. IsFiniteSet(Transmitting)
    <2>1. Transmitting \in SUBSET (1 .. n) /\ IsFiniteSet(1 .. n)
      BY <1>1, FS_Interval DEF Transmitting
    <2>2. QED
      BY <2>1, FS_Subset
  <1>4. number_completed' \in Nat
    <2>1. Cardinality(Transmitting) \in Nat
      BY <1>3, FS_CardinalityType
    <2>2. QED
      BY <1>1, <2>1 DEF NoCollision
  <1>5. ASSUME NEW i \in 1 .. n
        PROVE  /\ devices'[i] \in Device
               /\ devices'[i].completed \/ devices'[i].next_attempt >= t + 1
    <2>1. CASE i \in Transmitting
      BY <1>1, <1>2, <2>1 DEF Device
    <2>2. CASE i \notin Transmitting
      <3>1. devices'[i] = devices[i]
        BY <1>2, <2>2
      <3>2. devices[i].completed \/ devices[i].next_attempt # t
        BY <1>1, <2>2 DEF Transmitting
      <3>3. devices[i].completed \/ devices[i].next_attempt >= t
        BY <1>1 DEF BackoffInv, NoDeviceLost
      <3>4. QED
        BY <1>1, <3>1, <3>2, <3>3 DEF Device
    <2>3. QED
      BY <2>1, <2>2
  <1>6. devices' \in [1 .. n -> Device] /\ DOMAIN devices' = 1 .. n
    <2>1. devices' = [i \in 1 .. n |-> devices'[i]]
      BY <1>2
    <2>2. QED
      BY <1>5, <2>1
  <1>7. QED
    BY <1>1, <1>4, <1>5, <1>6 DEF BackoffInv, BackoffShape, BackoffTypeOK, NoDeviceLost

LEMMA BackoffInvStep ==
  ASSUME NEW n \in Nat, BackoffInv(n), [Slot]_backoffVars
  PROVE  BackoffInv(n)'
  <1>1. CASE Slot
    BY <1>1, CollisionStep, NoCollisionStep DEF Slot
  <1>2. CASE UNCHANGED backoffVars
    BY <1>2 DEF backoffVars, BackoffInv, BackoffShape, BackoffTypeOK, NoDeviceLost
  <1>3. QED
    BY <1>1, <1>2

LEMMA BackoffInvariant == ASSUME NEW n \in Nat PROVE BackoffSpec(n) => []BackoffInv(n)
  <1>1. BackoffInit(n) => BackoffInv(n)
    BY BackoffInvInit
  <1>2. BackoffInv(n) /\ [Slot]_backoffVars => BackoffInv(n)'
    BY BackoffInvStep
  <1>3. QED
    BY <1>1, <1>2, PTL DEF BackoffSpec

\* No device ever waits for a slot that is over, however many collide and
\* whatever each draws.
THEOREM NoDeviceLostHolds == ASSUME NEW n \in Nat PROVE BackoffSpec(n) => []NoDeviceLost
  <1>1. BackoffInv(n) => NoDeviceLost
    BY DEF BackoffInv
  <1>2. QED
    BY <1>1, BackoffInvariant, PTL

\* What a slot adds to the completed devices is what it adds to their count:
\* nothing in a collision, and otherwise all who transmit, one at most.
LEMMA CompletedStep ==
  ASSUME NEW n \in Nat, BackoffInv(n), OneFramePerSlot, [Slot]_backoffVars
  PROVE  OneFramePerSlot'
  <1>1. /\ t \in Nat /\ number_completed \in Nat
        /\ DOMAIN devices = 1 .. n
        /\ \A i \in 1 .. n : devices[i] \in Device
    BY DEF BackoffInv, BackoffShape, BackoffTypeOK
  <1>2. CASE UNCHANGED backoffVars
    BY <1>2 DEF backoffVars, OneFramePerSlot, Completed
  <1>3. CASE Collision /\ t' = t + 1
    <2>1. PICK draw \in Draws :
             devices' = [i \in 1 .. n |->
                            IF i \in Collided THEN Retry(devices[i], draw[i]) ELSE devices[i]]
      BY <1>1, <1>3 DEF Collision
    <2>2. \A i \in Collided : draw[i] \in Nat
      BY DEF Draws
    <2>3. \A i \in 1 .. n : devices'[i].completed = devices[i].completed
      BY <1>1, <2>1, <2>2, RetryLater
    <2>4. DOMAIN devices' = 1 .. n
      BY <2>1
    <2>5. Completed' = Completed
      BY <1>1, <2>3, <2>4 DEF Completed
    <2>6. QED
      BY <1>1, <1>3, <2>5 DEF Collision, OneFramePerSlot
  <1>4. CASE NoCollision /\ t' = t + 1
    <2>1. devices' = [i \in 1 .. n |->
                        IF i \in Transmitting THEN [devices[i] EXCEPT !.completed = TRUE]
                                              ELSE devices[i]]
      BY <1>1, <1>4 DEF NoCollision
    <2>2. Completed' = Completed \cup Transmitting
      BY <1>1, <2>1 DEF Completed, Transmitting, Device
    <2>3. Completed \cap Transmitting = {}
      BY DEF Completed, Transmitting
    <2>4. IsFiniteSet(Completed) /\ IsFiniteSet(Transmitting)
      <3>1. /\ Completed \in SUBSET (1 .. n) /\ Transmitting \in SUBSET (1 .. n)
            /\ IsFiniteSet(1 .. n)
        BY <1>1, FS_Interval DEF Completed, Transmitting
      <3>2. QED
        BY <3>1, FS_Subset
    <2>5. Cardinality(Completed') = Cardinality(Completed) + Cardinality(Transmitting)
      <3>1. Cardinality(Completed) \in Nat /\ Cardinality(Transmitting) \in Nat
        BY <2>4, FS_CardinalityType
      <3>2. Cardinality({}) = 0
        BY FS_EmptySet
      <3>3. QED
        BY <2>2, <2>3, <2>4, <3>1, <3>2, FS_Union
    <2>6. Cardinality(Transmitting) \in {0, 1}
      <3>1. Cardinality(Transmitting) \in Nat
        BY <2>4, FS_CardinalityType
      <3>2. Transmitting = {} => Cardinality(Transmitting) = 0
        BY FS_EmptySet
      <3>3. QED
        BY <1>4, <3>1, <3>2 DEF NoCollision, Collided
    <2>7. QED
      BY <1>1, <1>4, <2>5, <2>6 DEF NoCollision, OneFramePerSlot
  <1>5. QED
    BY <1>2, <1>3, <1>4 DEF Slot

\* The count that ends the loop is the number of completed devices, and it never
\* runs ahead of the slots: two devices never complete in one slot.
THEOREM OneFramePerSlotHolds == ASSUME NEW n \in Nat PROVE BackoffSpec(n) => []OneFramePerSlot
  <1>1. BackoffInit(n) => OneFramePerSlot
    <2>1. BackoffInit(n) => Completed = {} /\ number_completed = 0 /\ t = 0
      BY DEF BackoffInit, Completed
    <2>2. QED
      BY <2>1, FS_EmptySet DEF OneFramePerSlot
  <1>2. BackoffInv(n) /\ OneFramePerSlot /\ [Slot]_backoffVars => OneFramePerSlot'
    BY CompletedStep
  <1>3. QED
    BY <1>1, <1>2, BackoffInvariant, PTL DEF BackoffSpec

-----------------------------------------------------------------------------
(* Hub and switch.                                                         *)

\* What the programs' loops keep: the devices, and counts of frames.
StudyInv(n) ==
    /\ network \in {"hub", "switch"}
    /\ src_ports = 0 .. (n - 1)
    /\ attempted_transmission \in Nat
    /\ successful_transmission \in Nat
    /\ failed_transmission \in Nat

LEMMA PortsFinite == ASSUME NEW n \in Nat PROVE IsFiniteSet(0 .. (n - 1))
  BY FS_Interval

\* On a hub the collision list holds all senders, or none when one or none sends.
LEMMA HubCollidedIs ==
  ASSUME NEW S, IsFiniteSet(S)
  PROVE  /\ HubCollided(S) = {} => S = {} \/ \E x : S = {x}
         /\ HubCollided(S) # {} => HubCollided(S) = S /\ Cardinality(S) # 1
  <1>1. HubCollided(S) # {} => \E x, y \in S : x # y
    BY DEF HubCollided
  <1>2. (\E x, y \in S : x # y) => Cardinality(S) # 1
    BY FS_Singleton
  <1>3. QED
    BY <1>1, <1>2 DEF HubCollided

\* The frames a slot adds to the three counts: with a collision list C out of the
\* senders S, and the others counted as T.
LEMMA CountEffect ==
  ASSUME NEW n \in Nat, StudyInv(n), NEW S, NEW C \in SUBSET S, NEW T \in SUBSET S,
         IsFiniteSet(S), Count(S, C, T),
         C # {} => Cardinality(T) + Cardinality(C) = Cardinality(S)
  PROVE  /\ attempted_transmission' = attempted_transmission + Cardinality(S)
         /\ attempted_transmission' \in Nat
         /\ successful_transmission' \in Nat
         /\ failed_transmission' \in Nat
         /\ successful_transmission' - successful_transmission
              = Cardinality(IF C = {} THEN S ELSE T)
         /\ (successful_transmission' - successful_transmission)
            + (failed_transmission' - failed_transmission) = Cardinality(S)
  <1>1. S \cap C = C
    OBVIOUS
  <1>2. IsFiniteSet(C) /\ IsFiniteSet(T)
    BY FS_Subset
  <1>3. Cardinality(S) \in Nat /\ Cardinality(C) \in Nat /\ Cardinality(T) \in Nat
    BY <1>2, FS_CardinalityType
  <1>4. C = {} => Cardinality(C) = 0
    BY FS_EmptySet
  <1>5. /\ failed_transmission' = failed_transmission + Cardinality(C)
        /\ attempted_transmission' = attempted_transmission + Cardinality(S)
        /\ C = {} => successful_transmission' = successful_transmission + Cardinality(S)
        /\ C # {} => successful_transmission' = successful_transmission + Cardinality(T)
    BY <1>1 DEF Count
  <1> DEFINE good == IF C = {} THEN S ELSE T
  <1>6. /\ good = IF C = {} THEN S ELSE T
        /\ Cardinality(good) \in Nat
        /\ Cardinality(good) + Cardinality(C) = Cardinality(S)
        /\ successful_transmission' = successful_transmission + Cardinality(good)
    <2>1. CASE C = {}
      BY <1>3, <1>4, <1>5, <2>1
    <2>2. CASE C # {}
      BY <1>3, <1>5, <2>2
    <2>3. QED
      BY <2>1, <2>2
  <1> HIDE DEF good
  <1>7. Cardinality(IF C = {} THEN S ELSE T) = Cardinality(good)
    BY <1>6
  <1>8. /\ attempted_transmission \in Nat
        /\ successful_transmission \in Nat
        /\ failed_transmission \in Nat
    BY DEF StudyInv
  <1>9. /\ successful_transmission' - successful_transmission = Cardinality(good)
        /\ failed_transmission' - failed_transmission = Cardinality(C)
        /\ attempted_transmission' \in Nat
        /\ successful_transmission' \in Nat
        /\ failed_transmission' \in Nat
    BY <1>3, <1>5, <1>6, <1>8
  <1>10. QED
    BY <1>5, <1>6, <1>7, <1>9

\* The lists of col_det, and the others, split the senders.
LEMMA HubSplit ==
  ASSUME NEW S, IsFiniteSet(S), HubCollided(S) # {}
  PROVE  Cardinality({}) + Cardinality(HubCollided(S)) = Cardinality(S)
  <1>1. Cardinality(S) \in Nat /\ Cardinality({}) = 0
    BY FS_CardinalityType, FS_EmptySet
  <1>2. QED
    BY <1>1, HubCollidedIs

LEMMA SwitchSplit ==
  ASSUME NEW S, NEW dst, IsFiniteSet(S)
  PROVE  Cardinality(S \ SwitchCollided(S, dst)) + Cardinality(SwitchCollided(S, dst))
            = Cardinality(S)
  <1> DEFINE C == SwitchCollided(S, dst)
  <1>1. C \in SUBSET S
    BY DEF SwitchCollided
  <1>2. S \cap C = C
    BY <1>1
  <1>3. IsFiniteSet(C)
    BY <1>1, FS_Subset
  <1>4. Cardinality(S) \in Nat /\ Cardinality(C) \in Nat
    BY <1>3, FS_CardinalityType
  <1>5. Cardinality(S \ C) = Cardinality(S) - Cardinality(S \cap C)
    BY FS_Difference
  <1>6. QED
    BY <1>2, <1>4, <1>5

\* A turn of either loop, as one use of Count.
LEMMA StudySlotCounts ==
  ASSUME NEW n \in Nat, StudyInv(n), StudySlot
  PROVE  \E S, C, T :
            /\ S \in SUBSET src_ports /\ C \in SUBSET S /\ T \in SUBSET S
            /\ Count(S, C, T)
            /\ C # {} => Cardinality(T) + Cardinality(C) = Cardinality(S)
            /\ \/ network = "hub" /\ C = HubCollided(S) /\ T = {}
               \/ /\ network = "switch" /\ C = SwitchCollided(S, dst_port') /\ T = S \ C
                  /\ \A i \in S : dst_port'[i] \in src_ports
  <1>1. \A S \in SUBSET src_ports : IsFiniteSet(S)
    BY PortsFinite, FS_Subset DEF StudyInv
  <1>2. CASE HubSlot
    <2>1. PICK S \in SUBSET src_ports : Count(S, HubCollided(S), {})
      BY <1>2 DEF HubSlot
    <2>2. HubCollided(S) \in SUBSET S
      BY DEF HubCollided
    <2>3. HubCollided(S) # {} => Cardinality({}) + Cardinality(HubCollided(S)) = Cardinality(S)
      BY <1>1, HubSplit
    <2>4. network = "hub"
      BY <1>2 DEF HubSlot
    <2>5. QED
      BY <2>1, <2>2, <2>3, <2>4
  <1>3. CASE SwitchSlot
    <2>1. PICK S \in SUBSET src_ports,
               dst \in [src_ports -> src_ports \cup {Cardinality(src_ports)}] :
            /\ \A i \in src_ports : IF i \in S THEN dst[i] \in src_ports \ {i}
                                               ELSE dst[i] = dst_port[i]
            /\ dst_port' = dst
            /\ Count(S, SwitchCollided(S, dst), S \ SwitchCollided(S, dst))
      BY <1>3 DEF SwitchSlot
    <2>2. SwitchCollided(S, dst) \in SUBSET S
      BY DEF SwitchCollided
    <2>3. Cardinality(S \ SwitchCollided(S, dst)) + Cardinality(SwitchCollided(S, dst))
            = Cardinality(S)
      BY <1>1, SwitchSplit
    <2>4. network = "switch" /\ \A i \in S : dst_port'[i] \in src_ports
      BY <1>3, <2>1 DEF SwitchSlot
    <2>5. QED
      BY <2>1, <2>2, <2>3, <2>4
  <1>4. QED
    BY <1>2, <1>3 DEF StudySlot

LEMMA StudyInvariant ==
  ASSUME NEW n \in Nat, NEW kind \in {"hub", "switch"}
  PROVE  StudySpec(kind, n) => []StudyInv(n)
  <1>1. StudyInit(kind, n) => StudyInv(n)
    BY DEF StudyInit, StudyInv
  <1>2. ASSUME StudyInv(n), [StudySlot]_studyVars PROVE StudyInv(n)'
    <2>1. CASE StudySlot
      <3>1. PICK S, C, T :
               /\ S \in SUBSET src_ports /\ C \in SUBSET S /\ T \in SUBSET S
               /\ Count(S, C, T)
               /\ C # {} => Cardinality(T) + Cardinality(C) = Cardinality(S)
        BY <1>2, <2>1, StudySlotCounts
      <3>2. IsFiniteSet(S)
        BY <1>2, <3>1, PortsFinite, FS_Subset DEF StudyInv
      <3>3. /\ attempted_transmission' \in Nat
            /\ successful_transmission' \in Nat
            /\ failed_transmission' \in Nat
        BY <1>2, <3>1, <3>2, CountEffect
      <3>4. QED
        BY <1>2, <2>1, <3>3 DEF StudySlot, StudyInv
    <2>2. CASE UNCHANGED studyVars
      BY <1>2, <2>2 DEF studyVars, counters, StudyInv
    <2>3. QED
      BY <1>2, <2>1, <2>2
  <1>3. StudyInv(n) /\ [StudySlot]_studyVars => StudyInv(n)'
    BY <1>2
  <1>4. QED
    BY <1>1, <1>3, PTL DEF StudySpec

\* No transmission is counted twice or not at all, on hubs and switches of every
\* size: the senders a slot leaves out of the collision list are the ones it counts
\* as successful.
THEOREM AttemptsAccountedHolds ==
  ASSUME NEW n \in Nat, NEW kind \in {"hub", "switch"}
  PROVE  StudySpec(kind, n) => []AttemptsAccounted
  <1>1. StudyInit(kind, n) => AttemptsAccounted
    BY DEF StudyInit, AttemptsAccounted
  <1>2. ASSUME StudyInv(n), AttemptsAccounted, [StudySlot]_studyVars
        PROVE  AttemptsAccounted'
    <2>1. CASE StudySlot
      <3>1. PICK S, C, T :
               /\ S \in SUBSET src_ports /\ C \in SUBSET S /\ T \in SUBSET S
               /\ Count(S, C, T)
               /\ C # {} => Cardinality(T) + Cardinality(C) = Cardinality(S)
        BY <1>2, <2>1, StudySlotCounts
      <3>2. IsFiniteSet(S)
        BY <1>2, <3>1, PortsFinite, FS_Subset DEF StudyInv
      <3>3. Cardinality(S) \in Nat
        BY <3>2, FS_CardinalityType
      <3>4. /\ attempted_transmission' = attempted_transmission + Cardinality(S)
            /\ successful_transmission' \in Nat
            /\ failed_transmission' \in Nat
            /\ (successful_transmission' - successful_transmission)
               + (failed_transmission' - failed_transmission) = Cardinality(S)
        BY <1>2, <3>1, <3>2, CountEffect
      <3>5. QED
        BY <1>2, <3>3, <3>4 DEF AttemptsAccounted, StudyInv
    <2>2. CASE UNCHANGED studyVars
      BY <1>2, <2>2 DEF studyVars, counters, AttemptsAccounted
    <2>3. QED
      BY <1>2, <2>1, <2>2
  <1>3. StudyInv(n) /\ AttemptsAccounted /\ [StudySlot]_studyVars => AttemptsAccounted'
    BY <1>2
  <1>4. QED
    BY <1>1, <1>3, StudyInvariant, PTL DEF StudySpec

\* The senders S whose place is no other sender's, and the places of P that hear
\* one sender.
Alone(S, to) == {i \in S : \A j \in S \ {i} : to[i] # to[j]}
Heard(S, P, to) == {p \in P : Cardinality({i \in S : to[i] = p}) = 1}

\* There are as many of the ones as of the others.
LEMMA PlacesHeard ==
  ASSUME NEW S, IsFiniteSet(S), NEW P, NEW to \in [S -> P]
  PROVE  Cardinality(Heard(S, P, to)) = Cardinality(Alone(S, to))
  <1> DEFINE A == Alone(S, to)
             H == Heard(S, P, to)
             f == [i \in A |-> to[i]]
  <1>1. \A p \in P : IsFiniteSet({i \in S : to[i] = p})
    <2> SUFFICES ASSUME NEW p \in P PROVE IsFiniteSet({i \in S : to[i] = p})
      OBVIOUS
    <2>1. {i \in S : to[i] = p} \in SUBSET S
      OBVIOUS
    <2>2. QED
      BY <2>1, FS_Subset
  <1>2. \A p \in P : p \in H <=> \E x : {i \in S : to[i] = p} = {x}
    BY <1>1, FS_Singleton DEF Heard
  <1>3. ASSUME NEW i \in A PROVE to[i] \in H
    <2>1. {j \in S : to[j] = to[i]} = {i}
      BY DEF Alone
    <2>2. to[i] \in P
      BY DEF Alone
    <2>3. QED
      BY <1>2, <2>1, <2>2
  <1>4. ASSUME NEW p \in H PROVE \E i \in A : to[i] = p
    <2>1. PICK x : {i \in S : to[i] = p} = {x}
      BY <1>2 DEF Heard
    <2>2. x \in A /\ to[x] = p
      BY <2>1 DEF Alone
    <2>3. QED
      BY <2>2
  <1>5. \A i, j \in A : to[i] = to[j] => i = j
    BY DEF Alone
  <1>6. A \in SUBSET S
    BY DEF Alone
  <1> HIDE DEF H, A
  <1>7. f \in Bijection(A, H)
    BY <1>3, <1>4, <1>5 DEF Bijection, Injection, Surjection, IsInjective
  <1>8. IsFiniteSet(A)
    BY <1>6, FS_Subset
  <1>9. Cardinality(H) = Cardinality(A)
    BY <1>7, <1>8, FS_Bijection DEF ExistsBijection
  <1>10. QED
    BY <1>9 DEF H, A

\* One turn of the loop: the successes it adds are the places that hear one sender.
LEMMA SlotCarriesOne ==
  ASSUME NEW n \in Nat, StudyInv(n), StudySlot
  PROVE  successful_transmission' - successful_transmission =
            Cardinality({p \in src_ports :
                            Cardinality({i \in transmitting' : To(i) = p}) = 1})
  <1>1. PICK S, C, T :
           /\ S \in SUBSET src_ports /\ C \in SUBSET S /\ T \in SUBSET S
           /\ Count(S, C, T)
           /\ C # {} => Cardinality(T) + Cardinality(C) = Cardinality(S)
           /\ \/ network = "hub" /\ C = HubCollided(S) /\ T = {}
              \/ /\ network = "switch" /\ C = SwitchCollided(S, dst_port') /\ T = S \ C
                 /\ \A i \in S : dst_port'[i] \in src_ports
    BY StudySlotCounts
  <1>2. IsFiniteSet(S)
    BY <1>1, PortsFinite, FS_Subset DEF StudyInv
  <1>3. successful_transmission' - successful_transmission
           = Cardinality(IF C = {} THEN S ELSE T)
    BY <1>1, <1>2, CountEffect
  <1>4. transmitting' = S
    BY <1>1 DEF Count
  <1>5. \A i \in S : To(i) \in src_ports
    <2> SUFFICES ASSUME NEW i \in S PROVE To(i) \in src_ports
      OBVIOUS
    <2>1. network = "hub" => To(i) = 0
      BY DEF To
    <2>2. i \in 0 .. (n - 1) => 0 \in 0 .. (n - 1)
      OBVIOUS
    <2>3. network # "hub" => To(i) = dst_port'[i]
      BY DEF To
    <2>4. QED
      BY <1>1, <2>1, <2>2, <2>3 DEF StudyInv
  <1>6. PICK to \in [S -> src_ports] : \A i \in S : to[i] = To(i)
    <2>1. [i \in S |-> To(i)] \in [S -> src_ports]
      BY <1>5
    <2>2. QED
      BY <2>1
  <1>7. (IF C = {} THEN S ELSE T) = Alone(S, to)
    <2>1. CASE network = "hub"
      <3>1. \A i \in S : to[i] = 0
        BY <1>6, <2>1 DEF To
      <3>2. C = HubCollided(S) /\ T = {}
        BY <1>1, <2>1
      <3>3. QED
        BY <3>1, <3>2 DEF HubCollided, Alone
    <2>2. CASE network = "switch"
      <3>1. \A i \in S : to[i] = dst_port'[i]
        BY <1>6, <2>2 DEF To
      <3>2. C = {i \in S : \E j \in S \ {i} : to[i] = to[j]} /\ T = S \ C
        BY <1>1, <2>2, <3>1 DEF SwitchCollided
      <3>3. QED
        BY <3>2 DEF Alone
    <2>3. QED
      BY <1>1, <2>1, <2>2
  <1>8. Cardinality(Heard(S, src_ports, to)) = Cardinality(Alone(S, to))
    BY <1>2, PlacesHeard
  <1>9. \A p : {i \in S : to[i] = p} = {i \in S : To(i) = p}
    BY <1>6
  <1>10. Heard(S, src_ports, to)
          = {p \in src_ports : Cardinality({i \in S : To(i) = p}) = 1}
    BY <1>9 DEF Heard
  <1>11. QED
    BY <1>3, <1>4, <1>7, <1>8, <1>10

\* A hub carries one frame in a slot and a switch one for each port: the transmissions
\* that succeed are as many as the places to which exactly one is made, for every
\* number of devices and whatever the silent ones sent before.
THEOREM PortCarriesOneHolds ==
  ASSUME NEW n \in Nat, NEW kind \in {"hub", "switch"}
  PROVE  StudySpec(kind, n) => PortCarriesOne
  <1>1. StudyInv(n) /\ [StudySlot]_studyVars =>
           [successful_transmission' - successful_transmission =
               Cardinality({p \in src_ports :
                               Cardinality({i \in transmitting' : To(i) = p}) = 1})]_studyVars
    BY SlotCarriesOne
  <1>2. QED
    BY <1>1, StudyInvariant, PTL DEF StudySpec, PortCarriesOne

-----------------------------------------------------------------------------
(* Checksum.                                                               *)

\* Induction over the natural numbers: a set of them that is not empty has a
\* least element.
LEMMA LeastLength ==
  ASSUME NEW T \in SUBSET Nat, T # {}
  PROVE  \E m \in T : \A k \in T : m <= k
  <1> DEFINE R == OpToRel(<, Nat)
  <1>1. IsWellFoundedOn(R, Nat)
    BY NatLessThanWellFounded
  <1>2. \E x \in T : \A y \in T : <<y, x>> \notin R
    BY <1>1, WFMin
  <1>3. \A x, y \in Nat : <<y, x>> \notin R => x <= y
    BY DEF OpToRel
  <1>4. QED
    BY <1>2, <1>3

-----------------------------------------------------------------------------
(* The sum of a header: its octets, those at odd places times Octet.       *)

Octets == 0 .. (Octet - 1)

Weight(n) == IF n % 2 = 1 THEN Octet ELSE 1

\* f[n] is the sum of the first n octets of h, for n up to m.
Sums(f, h, m) ==
    /\ f \in [0 .. m -> Nat]
    /\ f[0] = 0
    /\ \A n \in 1 .. m : f[n] = f[n - 1] + Weight(n) * h[n]

Part(h) == CHOOSE f : Sums(f, h, Len(h))
Total(h) == Part(h)[Len(h)]

\* Two numbers between which the fold of a sum does not tell.
Congruent(a, b) == \E k \in Int : a = b + k * (Word - 1)

\* An octet times its weight is a number.
LEMMA WeightType ==
  ASSUME NEW n \in Nat, NEW x \in Octets
  PROVE  /\ Weight(n) \in {1, Octet} /\ Weight(n) * x \in Nat
         /\ n % 2 = 0 => Weight(n + 1) = Octet /\ Weight(n + 2) = 1
  <1>1. x \in Nat /\ Octet \in Nat
    BY OctetAssumption DEF Octets
  <1>2. Octet * x \in Nat
    BY <1>1
  <1>3. n % 2 = 0 => (n + 1) % 2 = 1 /\ (n + 2) % 2 # 1
    OBVIOUS
  <1>4. QED
    BY <1>1, <1>2, <1>3 DEF Weight

\* Every header has its sums.
LEMMA SumsExist ==
  ASSUME NEW h \in Seq(Octets)
  PROVE  Sums(Part(h), h, Len(h)) /\ Total(h) \in Nat
  <1> DEFINE Bad == {m \in 0 .. Len(h) : ~ \E f : Sums(f, h, m)}
  <1>0. Len(h) \in Nat /\ \A n \in 1 .. Len(h) : h[n] \in Octets
    OBVIOUS
  <1>1. Bad = {}
    <2>. SUFFICES ASSUME Bad # {} PROVE FALSE
      OBVIOUS
    <2>1. PICK m \in Bad : \A k \in Bad : m <= k
      <3>1. Bad \in SUBSET Nat
        BY <1>0
      <3>2. QED
        BY <3>1, LeastLength
    <2>2. Sums([n \in 0 .. 0 |-> 0], h, 0)
      BY DEF Sums
    <2>3. m \in 1 .. Len(h) /\ m - 1 \in 0 .. Len(h)
      BY <1>0, <2>1, <2>2
    <2>4. PICK f : Sums(f, h, m - 1)
      BY <2>1, <2>3
    <2> DEFINE here == f[m - 1] + Weight(m) * h[m]
               g == [n \in 0 .. m |-> IF n = m THEN here ELSE f[n]]
    <2>5. here \in Nat
      <3>1. f[m - 1] \in Nat
        BY <2>3, <2>4 DEF Sums
      <3>2. Weight(m) * h[m] \in Nat
        BY <1>0, <2>3, WeightType
      <3>3. QED
        BY <3>1, <3>2
    <2>6. g \in [0 .. m -> Nat] /\ g[0] = 0
      BY <2>3, <2>4, <2>5 DEF Sums
    <2>7. ASSUME NEW n \in 1 .. m PROVE g[n] = g[n - 1] + Weight(n) * h[n]
      <3>1. g[n - 1] = f[n - 1]
        BY <2>3
      <3>2. CASE n = m
        BY <2>3, <3>1, <3>2
      <3>3. CASE n # m
        <4>1. n \in 1 .. (m - 1) /\ g[n] = f[n]
          BY <2>3, <3>3
        <4>2. QED
          BY <2>4, <3>1, <4>1 DEF Sums
      <3>4. QED
        BY <3>2, <3>3
    <2>8. Sums(g, h, m)
      BY <2>6, <2>7 DEF Sums
    <2>9. QED
      BY <2>1, <2>8
  <1>2. \E f : Sums(f, h, Len(h))
    BY <1>0, <1>1
  <1>3. Sums(Part(h), h, Len(h))
    BY <1>2 DEF Part
  <1>4. QED
    BY <1>0, <1>3 DEF Sums, Total

\* A change of one octet changes the total by as much, times the octet's weight.
LEMMA TotalOfChange ==
  ASSUME NEW h \in Seq(Octets), NEW g \in Seq(Octets), Len(g) = Len(h),
         NEW place \in 1 .. Len(h), \A n \in 1 .. Len(h) : n # place => g[n] = h[n]
  PROVE  Total(g) = Total(h) + (Weight(place) * g[place] - Weight(place) * h[place])
  <1> DEFINE L == Len(h)
             a == Part(h)
             b == Part(g)
             d == Weight(place) * g[place] - Weight(place) * h[place]
             Moved(n) == b[n] = a[n] + (IF n >= place THEN d ELSE 0)
             Bad == {n \in 0 .. L : ~Moved(n)}
  <1>1. L \in Nat /\ Sums(a, h, L) /\ Sums(b, g, L)
    BY SumsExist
  <1>2. \A n \in 1 .. L : Weight(n) * h[n] \in Nat /\ Weight(n) * g[n] \in Nat
    <2>1. \A n \in 1 .. L : h[n] \in Octets /\ g[n] \in Octets /\ n \in Nat
      OBVIOUS
    <2>2. QED
      BY <2>1, WeightType
  <1>3. d \in Int
    BY <1>2
  <1>. HIDE DEF a, b
  <1>4. Bad = {}
    <2>. SUFFICES ASSUME Bad # {} PROVE FALSE
      OBVIOUS
    <2>1. PICK m \in Bad : \A k \in Bad : m <= k
      <3>1. Bad \in SUBSET Nat
        BY <1>1
      <3>2. QED
        BY <3>1, LeastLength
    <2>2. Moved(0)
      BY <1>1 DEF Sums
    <2>3. m \in 1 .. L /\ m - 1 \in 0 .. L /\ m - 1 \notin Bad
      BY <1>1, <2>1, <2>2
    <2>4. /\ a[m] = a[m - 1] + Weight(m) * h[m] /\ b[m] = b[m - 1] + Weight(m) * g[m]
          /\ a[m - 1] \in Nat /\ b[m - 1] \in Nat
          /\ b[m - 1] = a[m - 1] + (IF m - 1 >= place THEN d ELSE 0)
      BY <1>1, <2>3 DEF Sums
    <2>5. CASE m = place
      <3>1. Weight(m) * g[m] = Weight(m) * h[m] + d
        BY <1>2, <2>3, <2>5
      <3>2. b[m - 1] = a[m - 1]
        BY <2>3, <2>4, <2>5
      <3>. HIDE DEF d
      <3>3. b[m] = a[m] + d
        BY <1>2, <1>3, <2>3, <2>4, <3>1, <3>2
      <3>4. QED
        BY <2>1, <2>5, <3>3
    <2>6. CASE m # place
      <3>1. Weight(m) * g[m] = Weight(m) * h[m]
        BY <2>3, <2>6
      <3>2. m - 1 >= place <=> m >= place
        BY <2>3, <2>6
      <3>. HIDE DEF d
      <3>3. b[m] = a[m] + (IF m >= place THEN d ELSE 0)
        BY <1>2, <1>3, <2>3, <2>4, <3>1, <3>2
      <3>4. QED
        BY <2>1, <3>3
    <2>7. QED
      BY <2>5, <2>6
  <1>5. Moved(L)
    BY <1>1, <1>4
  <1>6. QED
    BY <1>1, <1>5 DEF a, b, Total

-----------------------------------------------------------------------------
(* Arithmetic of words.                                                    *)

\* A word holds more than the largest change of an octet, and any number is words and a
\* rest.
LEMMA WordFacts ==
  /\ Octet \in Nat /\ Word \in Nat /\ Word > 3
  /\ Octet * (Octet - 1) < Word - 1
  <1>1. Octet \in Nat /\ Octet >= 2
    BY OctetAssumption
  <1>2. Octet * Octet >= 2 * Octet /\ Octet * (Octet - 1) = Octet * Octet - Octet
    BY <1>1
  <1>3. QED
    BY <1>1, <1>2 DEF Word

LEMMA Divided ==
  ASSUME NEW n \in Nat, NEW w \in Nat, w > 0
  PROVE  /\ n \div w \in Nat /\ n % w \in Nat /\ n % w < w
         /\ n = w * (n \div w) + (n % w)
  OBVIOUS

\* Of numbers that differ by words less one.
LEMMA CongruentLaws ==
  ASSUME NEW a \in Int, NEW b \in Int, NEW c \in Int
  PROVE  /\ Congruent(a, a)
         /\ Congruent(a, b) => Congruent(b, a)
         /\ Congruent(a, b) /\ Congruent(b, c) => Congruent(a, c)
  <1> DEFINE w == Word - 1
  <1>1. w \in Int
    BY WordFacts
  <1>. HIDE DEF w
  <1>2. Congruent(a, a)
    <2>1. a = a + 0 * w
      BY <1>1
    <2>2. QED
      BY <2>1 DEF Congruent, w
  <1>3. ASSUME Congruent(a, b) PROVE Congruent(b, a)
    <2>1. PICK k \in Int : a = b + k * w
      BY <1>3 DEF Congruent, w
    <2>2. b = a + (-k) * w /\ -k \in Int
      BY <1>1, <2>1
    <2>3. QED
      BY <2>2 DEF Congruent, w
  <1>4. ASSUME Congruent(a, b), Congruent(b, c) PROVE Congruent(a, c)
    <2>1. PICK k \in Int : a = b + k * w
      BY <1>4 DEF Congruent, w
    <2>2. PICK j \in Int : b = c + j * w
      BY <1>4 DEF Congruent, w
    <2>3. a = c + (j + k) * w /\ j + k \in Int
      BY <1>1, <2>1, <2>2
    <2>4. QED
      BY <2>3 DEF Congruent, w
  <1>5. QED
    BY <1>2, <1>3, <1>4

\* Only 0 is a multiple of w and smaller than w.
LEMMA SmallMultiple ==
  ASSUME NEW a \in Int, NEW k \in Int, NEW w \in Nat, w > 0, a = k * w, -w < a, a < w
  PROVE  a = 0
  <1>1. CASE k >= 1
    <2>1. k * w >= w
      BY <1>1
    <2>2. QED
      BY <2>1
  <1>2. CASE k <= -1
    <2>1. k * w <= -w
      BY <1>2
    <2>2. QED
      BY <2>1
  <1>3. CASE k = 0
    BY <1>3
  <1>4. QED
    BY <1>1, <1>2, <1>3

\* A turn of the fold leaves a sum that is not 0, and does not tell.
LEMMA FoldKeeps ==
  ASSUME NEW n \in Nat, n >= Word
  PROVE  /\ (n % Word) + (n \div Word) \in Nat
         /\ (n % Word) + (n \div Word) # 0
         /\ Congruent((n % Word) + (n \div Word), n)
  <1> DEFINE q == n \div Word
             r == n % Word
             w == Word
  <1>1. w \in Nat /\ w > 3
    BY WordFacts
  <1>2. q \in Nat /\ r \in Nat /\ r < w /\ n = w * q + r
    BY <1>1, Divided
  <1>. HIDE DEF q, r, w
  <1>3. q # 0
    <2>1. SUFFICES ASSUME q = 0 PROVE FALSE
      OBVIOUS
    <2>2. n = r
      BY <1>1, <1>2, <2>1
    <2>3. n >= w
      BY DEF w
    <2>4. QED
      BY <1>1, <1>2, <2>2, <2>3
  <1>4. r + q = n + (-q) * (w - 1) /\ -q \in Int
    BY <1>1, <1>2
  <1>5. QED
    BY <1>2, <1>3, <1>4 DEF Congruent, q, r, w

-----------------------------------------------------------------------------
(* The invariant.                                                          *)

\* The octets added so far.
Added == Len(header) - count

\* The sum is that of the octets added, and folded once they all are.
SumInv ==
    \/ count > 0 /\ Added % 2 = 0 /\ sum = Part(header)[Added]
    \/ count = 0 /\ Congruent(sum, Total(header)) /\ (sum = 0 <=> Total(header) = 0)

ChecksumType ==
    /\ header \in Seq(Octets) /\ Len(header) >= 2
    /\ count \in Nat /\ count <= Len(header)
    /\ sum \in Nat
    /\ stage \in {"insert", "transit", "examine", "over"}
    /\ altered \in BOOLEAN

\* A header with its checksum.
Whole(h) == Congruent(Total(h), 0) /\ Total(h) > 0

ChecksumInv ==
    /\ ChecksumType
    /\ Summing => SumInv
    /\ stage = "insert" => header[1] = 0 /\ header[2] = 0 /\ ~altered
    /\ stage = "transit" => ~altered /\ Whole(header)
    /\ stage = "examine" => IF altered THEN ~Congruent(Total(header), 0) ELSE Whole(header)
    /\ ChecksumTells

\* A sum that has just begun.
LEMMA SumBegins ==
  ASSUME NEW h \in Seq(Octets)
  PROVE  Part(h)[0] = 0
  BY SumsExist DEF Sums

LEMMA ChecksumInvInit ==
  ASSUME NEW data \in Seq(Octets), ChecksumInit(data)
  PROVE  ChecksumInv
  <1>1. 0 \in Octets /\ <<0, 0>> \in Seq(Octets)
    <2>1. 0 \in Octets
      BY WordFacts, OctetAssumption DEF Octets
    <2>2. QED
      BY <2>1
  <1>2. /\ header \in Seq(Octets) /\ Len(header) = 2 + Len(data)
        /\ header[1] = 0 /\ header[2] = 0 /\ Len(data) \in Nat
    BY <1>1 DEF ChecksumInit
  <1>3. Part(header)[0] = 0
    BY <1>2, SumBegins
  <1>4. count = Len(header) /\ sum = 0 /\ stage = "insert" /\ altered = FALSE
    BY DEF ChecksumInit
  <1>5. Added = 0 /\ count > 0
    BY <1>2, <1>4 DEF Added
  <1>6. SumInv
    BY <1>3, <1>4, <1>5 DEF SumInv
  <1>7. ChecksumType
    <2>1. Len(header) \in Nat /\ Len(header) >= 2
      BY <1>2
    <2>2. QED
      <3>1. altered \in BOOLEAN
        BY <1>4
      <3>2. stage \in {"insert", "transit", "examine", "over"}
        BY <1>4
      <3>3. count \in Nat /\ count <= Len(header) /\ sum \in Nat
        BY <1>4, <2>1
      <3>4. QED
        BY <1>2, <2>1, <3>1, <3>2, <3>3 DEF ChecksumType
  <1>8. QED
    BY <1>2, <1>4, <1>6, <1>7 DEF ChecksumInv, ChecksumTells

\* A turn of the first loop adds the octets to which it has come.
LEMMA AddStep ==
  ASSUME ChecksumInv, AddWord \/ AddLeftOver
  PROVE  ChecksumInv'
  <1> DEFINE L == Len(header)
             n == L - count
             a == Part(header)
  <1>1. /\ header \in Seq(Octets) /\ L \in Nat /\ count \in Nat /\ count <= L
        /\ Sums(a, header, L) /\ Total(header) = a[L]
    BY SumsExist DEF ChecksumInv, ChecksumType, Total
  <1>2. n \in Nat /\ n % 2 = 0 /\ sum = a[n] /\ count > 0
    BY <1>1 DEF ChecksumInv, SumInv, Added, AddWord, AddLeftOver
  <1>3. /\ UNCHANGED <<header, stage, altered, ip_checksum>>
        /\ Summing
    BY DEF AddWord, AddLeftOver
  <1>4. ASSUME NEW m \in 1 .. L PROVE header[m] \in Octets /\ header[m] \in Nat
    BY <1>1, OctetAssumption DEF Octets
  <1>5. Weight(n + 1) = Octet /\ Weight(n + 2) = 1
    <2>1. 0 \in Octets
      BY OctetAssumption DEF Octets
    <2>2. QED
      BY <1>2, <2>1, WeightType
  <1>. HIDE DEF a
  <1>6. CASE AddWord
    <2>1. count > 1 /\ count' = count - 2 /\ sum' = sum + header[n + 1] * Octet + header[n + 2]
      <3>1. At = n + 1 /\ At + 1 = n + 2
        BY <1>1 DEF At
      <3>2. QED
        BY <1>6, <3>1 DEF AddWord
    <2>2. n + 1 \in 1 .. L /\ n + 2 \in 1 .. L /\ (n + 1) - 1 = n /\ (n + 2) - 1 = n + 1
      BY <1>1, <1>2, <2>1
    <2>3. a[n + 1] = a[n] + Octet * header[n + 1] /\ a[n + 2] = a[n + 1] + 1 * header[n + 2]
      BY <1>1, <1>5, <2>2 DEF Sums
    <2>4. sum' = a[n + 2] /\ sum' \in Nat
      <3>1. header[n + 1] \in Nat /\ header[n + 2] \in Nat /\ Octet \in Nat
        BY <1>4, <2>2, OctetAssumption
      <3>2. a[n] \in Nat /\ a[n + 2] \in Nat
        <4>1. n \in 0 .. L /\ n + 2 \in 0 .. L
          BY <1>1, <1>2, <2>2
        <4>2. QED
          BY <1>1, <4>1 DEF Sums
      <3>3. Octet * header[n + 1] = header[n + 1] * Octet
        BY <3>1
      <3>4. QED
        BY <1>2, <2>1, <2>3, <3>1, <3>2, <3>3
    <2>5. Added' = n + 2 /\ (n + 2) % 2 = 0 /\ count' \in Nat /\ count' <= L
      BY <1>1, <1>2, <1>3, <2>1 DEF Added
    <2>6. SumInv'
      <3>1. CASE count' > 0
        BY <1>3, <2>4, <2>5, <3>1 DEF SumInv, a
      <3>2. CASE count' = 0
        <4>1. sum' = Total(header)' /\ Total(header)' \in Int
          BY <1>1, <1>2, <1>3, <2>1, <2>4, <3>2
        <4>2. Congruent(sum', Total(header)')
          BY <4>1, CongruentLaws
        <4>3. QED
          BY <3>2, <4>1, <4>2 DEF SumInv
      <3>3. QED
        BY <2>5, <3>1, <3>2
    <2>7. QED
      BY <1>3, <2>4, <2>5, <2>6 DEF ChecksumInv, ChecksumType, Summing, ChecksumTells
  <1>7. CASE AddLeftOver
    <2>1. count = 1 /\ count' = 0 /\ sum' = sum + header[n + 1] * Octet
      <3>1. At = n + 1
        BY <1>1 DEF At
      <3>2. QED
        BY <1>7, <3>1 DEF AddLeftOver
    <2>2. n + 1 \in 1 .. L /\ (n + 1) - 1 = n /\ n + 1 = L
      BY <1>1, <1>2, <2>1
    <2>3. a[n + 1] = a[n] + Octet * header[n + 1]
      BY <1>1, <1>5, <2>2 DEF Sums
    <2>4. sum' = a[L] /\ sum' \in Nat
      <3>1. header[n + 1] \in Nat /\ Octet \in Nat
        BY <1>4, <2>2, OctetAssumption
      <3>2. a[L] \in Nat
        BY <1>1, <2>2 DEF Sums
      <3>3. Octet * header[n + 1] = header[n + 1] * Octet
        BY <3>1
      <3>4. QED
        BY <1>2, <2>1, <2>2, <2>3, <3>2, <3>3
    <2>5. SumInv'
      <3>1. sum' = Total(header)' /\ Total(header)' \in Int
        BY <1>1, <1>3, <2>4
      <3>2. Congruent(sum', Total(header)')
        BY <3>1, CongruentLaws
      <3>3. QED
        BY <2>1, <3>1, <3>2 DEF SumInv
    <2>6. QED
      BY <1>1, <1>3, <2>1, <2>4, <2>5 DEF ChecksumInv, ChecksumType, Summing, ChecksumTells
  <1>8. QED
    BY <1>6, <1>7

LEMMA FoldStep ==
  ASSUME ChecksumInv, Fold
  PROVE  ChecksumInv'
  <1>1. /\ sum \in Nat /\ sum >= Word /\ sum' = (sum % Word) + (sum \div Word)
        /\ count = 0 /\ Summing /\ UNCHANGED <<header, count, stage, altered, ip_checksum>>
    BY DEF Fold, ChecksumInv, ChecksumType
  <1>2. sum' \in Nat /\ sum' # 0 /\ Congruent(sum', sum)
    BY <1>1, FoldKeeps
  <1>3. Congruent(sum, Total(header)) /\ Total(header) # 0 /\ Total(header) \in Nat
    <2>1. header \in Seq(Octets)
      BY DEF ChecksumInv, ChecksumType
    <2>2. sum # 0
      BY <1>1, WordFacts
    <2>3. QED
      BY <1>1, <2>1, <2>2, SumsExist DEF ChecksumInv, SumInv
  <1>4. Congruent(sum', Total(header))
    BY <1>1, <1>2, <1>3, CongruentLaws
  <1>5. SumInv'
    BY <1>1, <1>2, <1>3, <1>4 DEF SumInv
  <1>6. QED
    BY <1>1, <1>2, <1>5 DEF ChecksumInv, ChecksumType, Summing, ChecksumTells

\* The complement of the sum makes a header whole.
LEMMA InsertStep ==
  ASSUME ChecksumInv, Insert
  PROVE  ChecksumInv'
  <1> DEFINE h == header
             C == Word - 1 - sum
             hi == C \div Octet
             lo == C % Octet
             mid == [h EXCEPT ![1] = hi]
             T == Total(h)
  <1>1. /\ h \in Seq(Octets) /\ Len(h) >= 2 /\ sum \in Nat /\ sum < Word /\ count = 0
        /\ h[1] = 0 /\ h[2] = 0 /\ altered = FALSE
        /\ Congruent(sum, T) /\ (sum = 0 <=> T = 0)
    BY DEF ChecksumInv, ChecksumType, Insert, Summing, SumInv
  <1>2. /\ h' = [mid EXCEPT ![2] = lo]
        /\ stage' = "transit" /\ UNCHANGED <<count, sum, altered, ip_checksum>>
    BY DEF Insert, Complement
  <1>3. C \in Nat /\ C < Word /\ Octet \in Nat /\ Octet > 1
    BY <1>1, WordFacts, OctetAssumption
  <1>4. C = Octet * hi + lo /\ hi \in Nat /\ lo \in Nat /\ lo < Octet
    <2>1. Octet \in Nat /\ Octet > 0 /\ C \in Nat
      BY <1>3
    <2>. HIDE DEF C
    <2>2. QED
      BY <2>1, Divided
  <1>5. hi < Octet
    <2>1. SUFFICES ASSUME hi >= Octet PROVE FALSE
      BY <1>3, <1>4
    <2>. HIDE DEF hi, lo, C
    <2>2. Octet * hi >= Octet * Octet
      BY <1>3, <1>4, <2>1
    <2>3. QED
      BY <1>3, <1>4, <2>2 DEF Word
  <1>. HIDE DEF hi, lo, C
  <1>6. hi \in Octets /\ lo \in Octets
    BY <1>3, <1>4, <1>5 DEF Octets
  <1>7. /\ mid \in Seq(Octets) /\ Len(mid) = Len(h) /\ h' \in Seq(Octets) /\ Len(h') = Len(h)
        /\ mid[1] = hi /\ mid[2] = 0 /\ h'[2] = lo
        /\ \A n \in 1 .. Len(h) : n # 1 => mid[n] = h[n]
        /\ \A n \in 1 .. Len(h) : n # 2 => h'[n] = mid[n]
        /\ 1 \in 1 .. Len(h) /\ 2 \in 1 .. Len(h)
    BY <1>1, <1>2, <1>6
  <1>8. Weight(1) = Octet /\ Weight(2) = 1
    BY DEF Weight
  <1>9. Total(mid) = T + Octet * hi /\ T \in Nat
    <2>1. Total(mid) = Total(h) + (Weight(1) * mid[1] - Weight(1) * h[1])
      BY <1>1, <1>7, TotalOfChange
    <2>2. T \in Nat
      BY <1>1, SumsExist
    <2>3. Octet * hi \in Nat /\ Octet * 0 = 0
      BY <1>3, <1>4
    <2>. HIDE DEF mid, T
    <2>4. QED
      BY <1>1, <1>7, <1>8, <2>1, <2>2, <2>3 DEF T
  <1>10. Total(h') = T + C
    <2>1. Total(h') = Total(mid) + (Weight(2) * h'[2] - Weight(2) * mid[2])
      <3>1. Len(h') = Len(mid) /\ 2 \in 1 .. Len(mid)
            /\ \A n \in 1 .. Len(mid) : n # 2 => h'[n] = mid[n]
        BY <1>7
      <3>. HIDE DEF mid
      <3>2. mid \in Seq(Octets) /\ h' \in Seq(Octets)
        BY <1>7
      <3>3. QED
        BY <3>1, <3>2, TotalOfChange
    <2>2. Octet * hi \in Nat
      BY <1>3, <1>4
    <2>3. QED
      BY <1>4, <1>7, <1>8, <1>9, <2>1, <2>2
  <1>11. Total(h') > 0
    BY <1>1, <1>3, <1>9, <1>10, WordFacts DEF C
  <1>12. Congruent(Total(h'), 0)
    <2> DEFINE w == Word - 1
    <2>1. w \in Int
      BY WordFacts
    <2>2. PICK k \in Int : sum = T + k * w
      BY <1>1 DEF Congruent
    <2>3. Total(h') = T + (w - sum)
      BY <1>10, <2>1 DEF C
    <2>. HIDE DEF w, T
    <2>4. T \in Nat
      BY <1>9
    <2>5. Total(h') = 0 + (1 - k) * w /\ 1 - k \in Int
      BY <1>1, <2>1, <2>2, <2>3, <2>4
    <2>6. QED
      BY <2>5 DEF Congruent, w
  <1>13. Whole(header)'
    BY <1>11, <1>12 DEF Whole
  <1>14. ChecksumType'
    BY <1>1, <1>2, <1>7 DEF ChecksumInv, ChecksumType
  <1>15. QED
    BY <1>1, <1>2, <1>13, <1>14 DEF ChecksumInv, Summing, ChecksumTells

\* The change of one octet is too small to be one between which the sum does not tell.
LEMMA TransitStep ==
  ASSUME ChecksumInv, Transit
  PROVE  ChecksumInv'
  <1> DEFINE h == header
             w == Word - 1
  <1>1. /\ h \in Seq(Octets) /\ Len(h) >= 2 /\ altered = FALSE
        /\ Congruent(Total(h), 0) /\ Total(h) > 0
    BY DEF ChecksumInv, ChecksumType, Transit, Whole
  <1>2. /\ count' = Len(h) /\ sum' = 0 /\ stage' = "examine"
    BY DEF Transit
  <1>3. /\ h' \in Seq(Octets) /\ Len(h') = Len(h) /\ altered' \in BOOLEAN
        /\ IF altered' THEN ~Congruent(Total(h'), 0) ELSE Whole(h')
    <2>1. CASE UNCHANGED <<header, altered>>
      BY <1>1, <2>1 DEF Whole
    <2>2. CASE \E n \in DOMAIN header, octet \in 0 .. (Octet - 1) :
                  /\ octet # header[n]
                  /\ header' = [header EXCEPT ![n] = octet]
                  /\ altered' = TRUE
      <3>1. PICK n \in DOMAIN header, octet \in Octets :
                  /\ octet # header[n]
                  /\ header' = [header EXCEPT ![n] = octet]
                  /\ altered' = TRUE
        BY <2>2 DEF Octets
      <3>2. /\ n \in 1 .. Len(h) /\ n \in Nat /\ h[n] \in Octets
            /\ h' \in Seq(Octets) /\ Len(h') = Len(h) /\ h'[n] = octet
            /\ \A k \in 1 .. Len(h) : k # n => h'[k] = h[k]
        BY <1>1, <3>1
      <3> DEFINE d == Weight(n) * octet - Weight(n) * h[n]
      <3>3. Total(h') = Total(h) + d
        BY <1>1, <3>2, TotalOfChange
      <3>4. d \in Int /\ d # 0 /\ -w < d /\ d < w
        <4>1. Octet \in Nat /\ Octet > 1 /\ Octet * (Octet - 1) < w
          BY WordFacts, OctetAssumption
        <4>2. octet \in Nat /\ octet <= Octet - 1 /\ h[n] \in Nat /\ h[n] <= Octet - 1
          BY <3>1, <3>2, <4>1 DEF Octets
        <4> DEFINE x == octet
                   y == h[n]
        <4>. HIDE DEF x, y
        <4>3. /\ x \in Nat /\ x <= Octet - 1 /\ y \in Nat /\ y <= Octet - 1 /\ x # y
              /\ w \in Nat
          BY <3>1, <4>2, WordFacts DEF x, y
        <4>4. d = Weight(n) * x - Weight(n) * y
          BY DEF x, y
        <4>5. CASE Weight(n) = 1
          <5>1. d = x - y /\ Octet - 1 < w
            BY <4>1, <4>3, <4>4, <4>5, WordFacts DEF Word
          <5>2. QED
            BY <4>1, <4>3, <5>1
        <4>6. CASE Weight(n) = Octet
          <5>1. Octet * x <= Octet * (Octet - 1) /\ Octet * y <= Octet * (Octet - 1)
                /\ Octet * x \in Nat /\ Octet * y \in Nat /\ Octet * (Octet - 1) \in Nat
            BY <4>1, <4>3
          <5>2. Octet * x # Octet * y
            <6>1. CASE x < y
              <7>1. Octet * x < Octet * y
                BY <4>1, <4>3, <6>1
              <7>2. QED
                BY <5>1, <7>1
            <6>2. CASE x > y
              <7>1. Octet * x > Octet * y
                BY <4>1, <4>3, <6>2
              <7>2. QED
                BY <5>1, <7>1
            <6>3. QED
              BY <4>3, <6>1, <6>2
          <5>3. d = Octet * x - Octet * y
            BY <4>4, <4>6
          <5>. HIDE DEF d, w
          <5>4. QED
            BY <4>1, <4>3, <5>1, <5>2, <5>3
        <4>7. QED
          BY <3>2, <4>5, <4>6, WeightType
      <3>5. ~Congruent(Total(h'), 0)
        <4>1. SUFFICES ASSUME Congruent(Total(h'), 0) PROVE FALSE
          OBVIOUS
        <4>2. PICK k \in Int : Total(h') = 0 + k * w
          BY <4>1 DEF Congruent
        <4>3. PICK j \in Int : Total(h) = 0 + j * w
          BY <1>1 DEF Congruent
        <4>4. w \in Nat /\ w > 0
          BY WordFacts
        <4>5. Total(h) \in Nat
          BY <1>1, SumsExist
        <4>6. d \in Int /\ d # 0 /\ -w < d /\ d < w
          BY <3>4
        <4>. HIDE DEF d, w
        <4>7. d = (k - j) * w /\ k - j \in Int
          BY <3>3, <4>2, <4>3, <4>4, <4>5, <4>6
        <4>8. d = 0
          BY <4>4, <4>6, <4>7, SmallMultiple
        <4>9. QED
          BY <4>6, <4>8
      <3>6. QED
        BY <3>1, <3>2, <3>5
    <2>3. QED
      BY <2>1, <2>2 DEF Transit
  <1>4. Added' = 0 /\ 0 % 2 = 0 /\ count' > 0 /\ count' \in Nat /\ count' <= Len(h')
    BY <1>1, <1>2, <1>3 DEF Added
  <1>5. Part(h')[0] = 0
    BY <1>3, SumBegins
  <1>6. SumInv'
    BY <1>2, <1>4, <1>5 DEF SumInv
  <1>7. ChecksumType'
    BY <1>1, <1>2, <1>3, <1>4 DEF ChecksumType
  <1>8. QED
    BY <1>2, <1>3, <1>6, <1>7 DEF ChecksumInv, ChecksumTells, Whole

LEMMA ExamineStep ==
  ASSUME ChecksumInv, Examine
  PROVE  ChecksumInv'
  <1> DEFINE T == Total(header)
             w == Word - 1
  <1>1. /\ sum \in Nat /\ sum < Word /\ altered \in BOOLEAN /\ header \in Seq(Octets)
        /\ Congruent(sum, T) /\ (sum = 0 <=> T = 0)
        /\ IF altered THEN ~Congruent(T, 0) ELSE Whole(header)
    BY DEF ChecksumInv, ChecksumType, Examine, Summing, SumInv
  <1>2. /\ ip_checksum' = w - sum /\ stage' = "over"
        /\ UNCHANGED <<header, count, sum, altered>>
    BY DEF Examine, Complement
  <1>3. T \in Nat /\ w \in Nat /\ w > 0 /\ sum <= w
    BY <1>1, SumsExist, WordFacts
  <1>. HIDE DEF T, w
  <1>4. ASSUME altered = FALSE PROVE ip_checksum' = 0
    <2>1. Congruent(T, 0) /\ T > 0
      BY <1>1, <1>4 DEF Whole, T
    <2>2. Congruent(sum, 0)
      <3>1. sum \in Int /\ T \in Int /\ 0 \in Int
        BY <1>1, <1>3
      <3>2. Congruent(sum, T) /\ Congruent(T, 0)
        BY <1>1, <2>1
      <3>3. QED
        BY <3>1, <3>2, CongruentLaws
    <2>3. PICK k \in Int : sum = 0 + k * w
      BY <2>2 DEF Congruent, w
    <2>4. CASE sum < w
      <3>1. sum = k * w /\ -w < sum
        BY <1>1, <1>3, <2>3
      <3>2. sum = 0
        BY <1>1, <1>3, <2>4, <3>1, SmallMultiple
      <3>3. QED
        BY <1>1, <2>1, <3>2
    <2>5. CASE sum = w
      BY <1>2, <1>3, <2>5
    <2>6. QED
      BY <1>1, <1>3, <2>4, <2>5
  <1>5. ASSUME altered = TRUE, ip_checksum' = 0 PROVE FALSE
    <2>1. sum = w
      BY <1>1, <1>2, <1>3, <1>5
    <2>2. sum = 0 + 1 * w
      BY <1>3, <2>1
    <2>3. Congruent(sum, 0)
      BY <2>2 DEF Congruent, w
    <2>4. Congruent(T, sum)
      BY <1>1, <1>3, CongruentLaws
    <2>5. Congruent(T, 0)
      BY <1>1, <1>3, <2>3, <2>4, CongruentLaws
    <2>6. QED
      BY <1>1, <1>5, <2>5 DEF T
  <1>6. ChecksumTells'
    BY <1>1, <1>2, <1>4, <1>5 DEF ChecksumTells
  <1>7. ChecksumType'
    BY <1>2 DEF ChecksumInv, ChecksumType
  <1>8. QED
    BY <1>2, <1>6, <1>7 DEF ChecksumInv, Summing

LEMMA ChecksumInvStep ==
  ASSUME ChecksumInv, [ChecksumStep]_checksumVars
  PROVE  ChecksumInv'
  <1>1. CASE AddWord \/ AddLeftOver
    BY <1>1, AddStep
  <1>2. CASE Fold
    BY <1>2, FoldStep
  <1>3. CASE Insert
    BY <1>3, InsertStep
  <1>4. CASE Transit
    BY <1>4, TransitStep
  <1>5. CASE Examine
    BY <1>5, ExamineStep
  <1>6. CASE UNCHANGED checksumVars
    BY <1>6 DEF checksumVars, ChecksumInv, ChecksumType, Summing, SumInv, Added, ChecksumTells
  <1>7. QED
    BY <1>1, <1>2, <1>3, <1>4, <1>5, <1>6 DEF ChecksumStep

\* Whatever the header's octets and its length: the sum over it is 0 if and only if
\* no octet changed on the way.
THEOREM ChecksumTellsHolds ==
  ASSUME NEW data \in Seq(Octets)
  PROVE  ChecksumSpec(data) => []ChecksumTells
  <1>1. ChecksumInit(data) => ChecksumInv
    BY ChecksumInvInit
  <1>2. ChecksumInv /\ [ChecksumStep]_checksumVars => ChecksumInv'
    BY ChecksumInvStep
  <1>3. ChecksumInv => ChecksumTells
    BY DEF ChecksumInv
  <1>4. QED
    BY <1>1, <1>2, <1>3, PTL DEF ChecksumSpec

-----------------------------------------------------------------------------
(* FrameTools. The inductive invariant: while the plug's frames last, the  *)
(* pipe holds what it has written and the program has not read.            *)

Parts == {"length", "octets"} \X Nat

\* Part number n that crosses the pipe.
IsPart(part, n) == \A k \in Nat : /\ n = 2 * k - 1 => part = <<"length", k>>
                                  /\ n = 2 * k => part = <<"octets", k>>

\* The pipe after w writes and u reads.
Piped(q, u, w) == /\ q \in Seq(Parts)
                  /\ Len(q) = w - u
                  /\ \A n \in 1 .. Len(q) : IsPart(q[n], u + n)

\* Parts the program has read.
Taken == IF at = "octets" THEN 2 * Len(printed) + 1 ELSE 2 * Len(printed)

FrameTypes ==
    /\ plug \in BOOLEAN
    /\ whole \in Nat /\ begun \in {whole, whole + 1}
    /\ at \in {"send", "length", "octets", "ended", "killed"}
    /\ printed \in Seq(Nat \cup {Old})

\* Every read so far has found a part of a frame.
Live == /\ Piped(pipe, Taken, begun + whole)
        /\ \A n \in 1 .. Len(printed) : printed[n] = n
        /\ at = "octets" => frame_len = Len(printed) + 1
        /\ at # "ended"

\* A read has found the end of the file.
Over == /\ ~plug /\ pipe = <<>>
        /\ Fresh = whole
        /\ \A n \in 1 .. Fresh : printed[n] = n
        /\ at \in {"length", "octets", "ended"}

FrameInv == FrameTypes /\ (Live \/ Over)

-----------------------------------------------------------------------------
(* One write and one read of the pipe.                                     *)

\* A write adds the next part at the end.
LEMMA PipeWrite ==
  ASSUME NEW q, NEW u \in Nat, NEW w \in Nat, Piped(q, u, w),
         NEW part \in Parts, IsPart(part, w + 1)
  PROVE  Piped(Append(q, part), u, w + 1)
  <1>1. q \in Seq(Parts) /\ Len(q) = w - u /\ Len(q) \in Nat
    BY DEF Piped
  <1>2. Append(q, part) \in Seq(Parts) /\ Len(Append(q, part)) = Len(q) + 1
    BY <1>1
  <1>3. ASSUME NEW n \in 1 .. Len(q) + 1
        PROVE  IsPart(Append(q, part)[n], u + n)
    <2>1. CASE n \in 1 .. Len(q)
      BY <1>1, <2>1 DEF Piped
    <2>2. CASE n = Len(q) + 1
      <3>1. Append(q, part)[n] = part /\ u + n = w + 1
        BY <1>1, <2>2
      <3>2. QED
        BY <3>1
    <2>3. QED
      BY <1>1, <2>1, <2>2
  <1>4. QED
    BY <1>1, <1>2, <1>3 DEF Piped

\* A read takes the first part, which is the next one to be read.
LEMMA PipeRead ==
  ASSUME NEW q, NEW u \in Nat, NEW w \in Nat, Piped(q, u, w), q # <<>>
  PROVE  Piped(Tail(q), u + 1, w) /\ IsPart(Head(q), u + 1)
  <1>1. q \in Seq(Parts) /\ Len(q) = w - u /\ Len(q) \in Nat \ {0}
    BY DEF Piped
  <1>2. Tail(q) \in Seq(Parts) /\ Len(Tail(q)) = Len(q) - 1
    BY <1>1
  <1>3. ASSUME NEW n \in 1 .. Len(Tail(q)) PROVE IsPart(Tail(q)[n], u + 1 + n)
    <2>1. Tail(q)[n] = q[n + 1] /\ n + 1 \in 1 .. Len(q)
      BY <1>1, <1>2
    <2>2. u + (n + 1) = u + 1 + n
      BY <1>1
    <2>3. QED
      BY <2>1, <2>2 DEF Piped
  <1>4. Head(q) = q[1] /\ 1 \in 1 .. Len(q)
    BY <1>1
  <1>5. QED
    BY <1>1, <1>2, <1>3, <1>4 DEF Piped

\* The length of frame k is part 2k - 1 and its octets are part 2k.
LEMMA FrameParts ==
  ASSUME NEW k \in Nat \ {0}
  PROVE  /\ IsPart(<<"length", k>>, 2 * k - 1) /\ <<"length", k>> \in Parts
         /\ IsPart(<<"octets", k>>, 2 * k) /\ <<"octets", k>> \in Parts
  BY DEF IsPart, Parts

-----------------------------------------------------------------------------
(* The steps.                                                              *)

\* Frames only: nothing printed is the old buffer.
LEMMA AllFresh ==
  ASSUME FrameTypes, \A n \in 1 .. Len(printed) : printed[n] = n
  PROVE  Fresh = Len(printed)
  <1>1. printed \in Seq(Nat \cup {Old}) /\ Len(printed) \in Nat
    BY DEF FrameTypes
  <1>2. CASE printed = <<>>
    BY <1>2 DEF Fresh
  <1>3. CASE printed # <<>>
    <2>1. Len(printed) \in 1 .. Len(printed)
      BY <1>1, <1>3
    <2>2. printed[Len(printed)] = Len(printed)
      BY <2>1
    <2>3. QED
      BY <1>1, <2>2, OldAssumption DEF Fresh
  <1>4. QED
    BY <1>2, <1>3

\* The plug appends the next part of its frames.
LEMMA PlugKeeps ==
  ASSUME FrameInv, SwitchLength \/ SwitchOctets \/ SwitchExit
  PROVE  FrameInv'
  <1>. USE DEF FrameInv
  <1>1. whole \in Nat /\ begun \in Nat /\ begun + whole \in Nat /\ Taken \in Nat
    BY DEF FrameTypes, Taken
  <1>2. Taken' = Taken /\ Fresh' = Fresh
    BY DEF SwitchLength, SwitchOctets, SwitchExit, Taken, Fresh
  <1>3. FrameTypes'
    <2>1. /\ plug' \in BOOLEAN /\ UNCHANGED <<at, printed>>
          /\ whole' \in Nat /\ begun' \in {whole', whole' + 1}
      BY <1>1 DEF FrameTypes, SwitchLength, SwitchOctets, SwitchExit
    <2>2. QED
      BY <2>1 DEF FrameTypes
  <1>4. CASE SwitchExit
    BY <1>2, <1>3, <1>4 DEF SwitchExit, Live, Over
  <1>5. CASE SwitchLength
    <2>1. Live /\ begun = whole /\ begun + 1 \in Nat \ {0}
      BY <1>1, <1>5 DEF SwitchLength, Over
    <2>2. 2 * (begun + 1) - 1 = begun + whole + 1
      BY <1>1, <2>1
    <2>3. IsPart(<<"length", begun + 1>>, begun + whole + 1)
          /\ <<"length", begun + 1>> \in Parts
      BY <2>1, <2>2, FrameParts
    <2>4. Piped(pipe', Taken, begun + whole + 1)
      BY <1>1, <1>5, <2>1, <2>3, PipeWrite DEF SwitchLength, Live
    <2>5. begun' + whole' = begun + whole + 1
      BY <1>1, <1>5 DEF SwitchLength
    <2>6. Live'
      BY <1>2, <1>5, <2>1, <2>4, <2>5 DEF SwitchLength, Live
    <2>7. QED
      BY <1>3, <2>6
  <1>6. CASE SwitchOctets
    <2>1. Live /\ begun = whole + 1 /\ begun \in Nat \ {0}
      BY <1>1, <1>6 DEF SwitchOctets, Over, FrameTypes
    <2>2. 2 * begun = begun + whole + 1
      BY <1>1, <2>1
    <2>3. IsPart(<<"octets", begun>>, begun + whole + 1) /\ <<"octets", begun>> \in Parts
      BY <2>1, <2>2, FrameParts
    <2>4. Piped(pipe', Taken, begun + whole + 1)
      BY <1>1, <1>6, <2>1, <2>3, PipeWrite DEF SwitchOctets, Live
    <2>5. begun' + whole' = begun + whole + 1
      BY <1>1, <1>6, <2>1 DEF SwitchOctets
    <2>6. Live'
      BY <1>2, <1>6, <2>1, <2>4, <2>5 DEF SwitchOctets, Live
    <2>7. QED
      BY <1>3, <2>6
  <1>7. QED
    BY <1>4, <1>5, <1>6

\* Sending a frame reads nothing.
LEMMA SendKeeps ==
  ASSUME FrameInv, SendFrame
  PROVE  FrameInv'
  <1>1. Live /\ FrameTypes
    BY DEF FrameInv, SendFrame, Over
  <1>2. at' \in {"length", "killed"} /\ UNCHANGED <<plug, pipe, begun, whole, printed>>
    BY DEF SendFrame
  <1>3. Taken' = Taken
    BY <1>2 DEF SendFrame, Taken
  <1>4. FrameTypes' /\ Live'
    BY <1>1, <1>2, <1>3 DEF FrameTypes, Live
  <1>5. QED
    BY <1>4 DEF FrameInv

\* The length read is that of the next frame to print, or the file has ended.
LEMMA LengthKeeps ==
  ASSUME FrameInv, ReceiveLength
  PROVE  FrameInv'
  <1>. USE DEF FrameInv
  <1>1. /\ whole \in Nat /\ begun \in Nat /\ begun + whole \in Nat
        /\ printed \in Seq(Nat \cup {Old}) /\ Len(printed) \in Nat
        /\ Taken = 2 * Len(printed) /\ Taken \in Nat
    BY DEF FrameTypes, Taken, ReceiveLength
  <1>2. FrameTypes' /\ Fresh' = Fresh
    BY DEF FrameTypes, ReceiveLength, Fresh
  <1>3. CASE pipe # <<>>
    <2>1. Live /\ frame_len' = Head(pipe)[2] /\ pipe' = Tail(pipe) /\ at' = "octets"
      BY <1>3 DEF ReceiveLength, Over
    <2>2. Piped(Tail(pipe), Taken + 1, begun + whole) /\ IsPart(Head(pipe), Taken + 1)
      BY <1>1, <1>3, <2>1, PipeRead DEF Live
    <2>3. Taken + 1 = 2 * (Len(printed) + 1) - 1
      BY <1>1
    <2>4. Head(pipe) = <<"length", Len(printed) + 1>>
      BY <1>1, <2>2, <2>3 DEF IsPart
    <2>5. Taken' = Taken + 1
      BY <1>1, <2>1 DEF ReceiveLength, Taken
    <2>6. Live'
      BY <2>1, <2>2, <2>4, <2>5 DEF Live, ReceiveLength
    <2>7. QED
      BY <1>2, <2>6
  <1>4. CASE pipe = <<>>
    <2>1. ~plug /\ UNCHANGED <<plug, pipe, whole, printed>> /\ at' \in {"octets", "ended"}
      BY <1>4 DEF ReceiveLength
    <2>2. Fresh = whole /\ \A n \in 1 .. Fresh : printed[n] = n
      <3>1. CASE Over
        BY <3>1 DEF Over
      <3>2. CASE Live
        <4>1. Fresh = Len(printed)
          BY <3>2, AllFresh DEF Live
        <4>2. begun + whole - 2 * Len(printed) = 0
          BY <1>1, <1>4, <3>2 DEF Live, Piped
        <4>3. Len(printed) = whole
          BY <1>1, <4>2 DEF FrameTypes
        <4>4. QED
          BY <3>2, <4>1, <4>3 DEF Live
      <3>3. QED
        BY <3>1, <3>2
    <2>3. Over'
      BY <1>2, <1>4, <2>1, <2>2 DEF Over
    <2>4. QED
      BY <1>2, <2>3
  <1>5. QED
    BY <1>3, <1>4

\* The octets read are those of the frame whose length was read, or the file has ended.
LEMMA OctetsKeeps ==
  ASSUME FrameInv, ReceiveOctets
  PROVE  FrameInv'
  <1>. USE DEF FrameInv
  <1>1. /\ whole \in Nat /\ begun \in Nat /\ begun + whole \in Nat
        /\ printed \in Seq(Nat \cup {Old}) /\ Len(printed) \in Nat
        /\ Taken = 2 * Len(printed) + 1 /\ Taken \in Nat
    BY DEF FrameTypes, Taken, ReceiveOctets
  <1>2. at' = "length" /\ UNCHANGED <<plug, begun, whole>>
    BY DEF ReceiveOctets
  <1>3. CASE pipe # <<>>
    <2>1. Live /\ printed' = Append(printed, Head(pipe)[2]) /\ pipe' = Tail(pipe)
      BY <1>3 DEF ReceiveOctets, Over
    <2>2. Piped(Tail(pipe), Taken + 1, begun + whole) /\ IsPart(Head(pipe), Taken + 1)
      BY <1>1, <1>3, <2>1, PipeRead DEF Live
    <2>3. Taken + 1 = 2 * (Len(printed) + 1)
      BY <1>1
    <2>4. Head(pipe) = <<"octets", Len(printed) + 1>>
      BY <1>1, <2>2, <2>3 DEF IsPart
    <2>5. printed' = Append(printed, Len(printed) + 1)
      BY <2>1, <2>4
    <2>6. printed' \in Seq(Nat \cup {Old}) /\ Len(printed') = Len(printed) + 1
      BY <1>1, <2>5
    <2>7. \A n \in 1 .. Len(printed') : printed'[n] = n
      BY <1>1, <2>1, <2>5, <2>6 DEF Live
    <2>8. Taken' = Taken + 1
      BY <1>1, <1>2, <2>6 DEF Taken
    <2>9. Live'
      BY <1>2, <2>1, <2>2, <2>7, <2>8 DEF Live
    <2>10. FrameTypes'
      BY <1>2, <2>6 DEF FrameTypes
    <2>11. QED
      BY <2>9, <2>10
  <1>4. CASE pipe = <<>>
    <2>1. /\ ~plug /\ pipe' = <<>>
          /\ printed' = IF printed # <<>> /\ printed[Len(printed)] = Old
                        THEN printed ELSE Append(printed, Old)
      BY <1>4 DEF ReceiveOctets
    <2>2. /\ printed' \in Seq(Nat \cup {Old}) /\ Fresh \in Nat
          /\ Fresh' = Fresh /\ Fresh' <= Len(printed)
          /\ \A n \in 1 .. Fresh : printed'[n] = printed[n]
      <3>1. CASE printed # <<>> /\ printed[Len(printed)] = Old
        BY <1>1, <2>1, <3>1 DEF Fresh
      <3>2. CASE ~ (printed # <<>> /\ printed[Len(printed)] = Old)
        <4>1. printed' = Append(printed, Old) /\ Fresh = Len(printed)
          BY <2>1, <3>2 DEF Fresh
        <4>2. /\ printed' \in Seq(Nat \cup {Old}) /\ Len(printed') = Len(printed) + 1
              /\ printed'[Len(printed) + 1] = Old /\ printed' # <<>>
              /\ \A n \in 1 .. Len(printed) : printed'[n] = printed[n]
          BY <1>1, <4>1
        <4>3. Fresh' = Len(printed)
          BY <1>1, <4>2 DEF Fresh
        <4>4. QED
          BY <1>1, <4>1, <4>2, <4>3
      <3>3. QED
        BY <3>1, <3>2
    <2>3. Fresh = whole /\ \A n \in 1 .. Fresh : printed[n] = n
      <3>1. CASE Over
        BY <3>1 DEF Over
      <3>2. CASE Live
        <4>1. Fresh = Len(printed)
          BY <3>2, AllFresh DEF Live
        <4>2. begun + whole - (2 * Len(printed) + 1) = 0
          BY <1>1, <1>4, <3>2 DEF Live, Piped
        <4>3. Len(printed) = whole
          BY <1>1, <4>2 DEF FrameTypes
        <4>4. QED
          BY <3>2, <4>1, <4>3 DEF Live
      <3>3. QED
        BY <3>1, <3>2
    <2>4. Over'
      BY <1>2, <2>1, <2>2, <2>3 DEF Over
    <2>5. FrameTypes'
      BY <1>2, <2>2 DEF FrameTypes
    <2>6. QED
      BY <2>4, <2>5
  <1>5. QED
    BY <1>3, <1>4

-----------------------------------------------------------------------------
(* The theorem.                                                            *)

\* The invariant says what is printed: at the end of the file, all that was sent whole.
LEMMA InvPrints == FrameInv => PrintsWhatWasSent
  <1>. SUFFICES ASSUME FrameInv PROVE PrintsWhatWasSent
    OBVIOUS
  <1>1. CASE Over
    BY <1>1 DEF Over, PrintsWhatWasSent
  <1>2. CASE Live
    <2>1. Fresh = Len(printed) /\ Len(printed) \in Nat
      BY <1>2, AllFresh DEF FrameInv, FrameTypes, Live
    <2>2. ASSUME at = "octets", pipe # <<>> PROVE Head(pipe) = <<"octets", frame_len>>
      <3>1. begun + whole \in Nat /\ Taken = 2 * Len(printed) + 1 /\ Taken \in Nat
        BY <2>1, <2>2 DEF FrameInv, FrameTypes, Taken
      <3>2. IsPart(Head(pipe), Taken + 1)
        BY <1>2, <2>2, <3>1, PipeRead DEF Live
      <3>3. Taken + 1 = 2 * (Len(printed) + 1)
        BY <2>1, <3>1
      <3>4. QED
        BY <1>2, <2>1, <2>2, <3>2, <3>3 DEF Live, IsPart
    <2>3. QED
      BY <1>2, <2>1, <2>2 DEF Live, PrintsWhatWasSent
  <1>3. QED
    BY <1>1, <1>2 DEF FrameInv

\* Receivers and senders print the switch's frames in their order, each after its own
\* length, and the old buffer only after the last whole frame of a plug that has gone
\* (the loops of src/receiver.c and src/sender.c).
THEOREM PrintsWhatWasSentHolds ==
  ASSUME NEW name \in {"sender", "receiver"}
  PROVE  FrameSpec(name) => []PrintsWhatWasSent
  <1>1. FrameInit(name) => FrameInv
    <2>. SUFFICES ASSUME FrameInit(name) PROVE FrameInv
      OBVIOUS
    <2>1. FrameTypes
      BY DEF FrameInit, FrameTypes
    <2>2. Taken = 0 /\ begun + whole = 0
      BY DEF FrameInit, Taken
    <2>3. Piped(pipe, Taken, begun + whole)
      BY <2>2 DEF FrameInit, Piped
    <2>4. QED
      BY <2>1, <2>3 DEF FrameInit, FrameInv, Live
  <1>2. FrameInv /\ [FrameStep]_frameVars => FrameInv'
    <2>. SUFFICES ASSUME FrameInv, [FrameStep]_frameVars PROVE FrameInv'
      OBVIOUS
    <2>1. CASE SwitchLength \/ SwitchOctets \/ SwitchExit
      BY <2>1, PlugKeeps
    <2>2. CASE SendFrame
      BY <2>2, SendKeeps
    <2>3. CASE ReceiveLength
      BY <2>3, LengthKeeps
    <2>4. CASE ReceiveOctets
      BY <2>4, OctetsKeeps
    <2>5. CASE UNCHANGED frameVars
      BY <2>5 DEF frameVars, FrameInv, FrameTypes, Live, Over, Taken, Fresh, Piped
    <2>6. QED
      BY <2>1, <2>2, <2>3, <2>4, <2>5 DEF FrameStep
  <1>3. QED
    BY <1>1, <1>2, InvPrints, PTL DEF FrameSpec

-----------------------------------------------------------------------------
(* Parts of sequences.                                                     *)

\* Put together in either order.
Chained(a, b, c) == (a \o b) \o c = a \o (b \o c)

LEMMA JoinsChain ==
  ASSUME NEW S, NEW a \in Seq(S), NEW b \in Seq(S), NEW c \in Seq(S)
  PROVE  Chained(a, b, c)
  BY ConcatAssociative DEF Chained

\* The part of q behind the first a elements, up to the first b.
Cut(q, a, b) == SubSeq(q, a + 1, b)

LEMMA CutIs ==
  ASSUME NEW S, NEW q \in Seq(S), NEW a \in Nat, NEW b \in Nat, a <= b, b <= Len(q)
  PROVE  /\ Cut(q, a, b) \in Seq(S)
         /\ Len(Cut(q, a, b)) = b - a
         /\ \A i \in 1 .. (b - a) : Cut(q, a, b)[i] = q[a + i]
  BY SubSeqProperties DEF Cut

LEMMA CutLength ==
  ASSUME NEW S, NEW q \in Seq(S), NEW a \in Nat, NEW b \in Nat, a <= b, b <= Len(q)
  PROVE  Len(Cut(q, a, b)) = b - a
  BY CutIs

LEMMA CutPlace ==
  ASSUME NEW S, NEW q \in Seq(S), NEW a \in Nat, NEW b \in Nat, a <= b, b <= Len(q),
         NEW i \in 1 .. (b - a)
  PROVE  Cut(q, a, b)[i] = q[a + i]
  BY CutIs

LEMMA CutAppend ==
  ASSUME NEW S, NEW q \in Seq(S), NEW a \in Nat, NEW b \in Nat, a <= b, b < Len(q)
  PROVE  Cut(q, a, b + 1) = Append(Cut(q, a, b), q[b + 1])
  <1>1. a + 1 \in 1 .. Len(q) /\ b + 1 \in (a + 1) .. Len(q) /\ q[b + 1] \in S /\ b <= Len(q)
    OBVIOUS
  <1>2. SubSeq(q, a + 1, b + 1) = SubSeq(q, a + 1, (b + 1) - 1) \o <<q[b + 1]>>
    BY <1>1, SubSeqRecursiveSecond
  <1>3. (b + 1) - 1 = b
    OBVIOUS
  <1>4. Cut(q, a, b) \in Seq(S)
    BY <1>1, CutIs
  <1>5. Append(Cut(q, a, b), q[b + 1]) = Cut(q, a, b) \o <<q[b + 1]>>
    BY <1>1, <1>4, AppendIsConcat
  <1>6. QED
    BY <1>2, <1>3, <1>5 DEF Cut

LEMMA CutJoin ==
  ASSUME NEW S, NEW q \in Seq(S), NEW a \in Nat, NEW b \in Nat, NEW c \in Nat,
         a <= b, b <= c, c <= Len(q)
  PROVE  Cut(q, a, b) \o Cut(q, b, c) = Cut(q, a, c)
  <1>1. /\ a + 1 \in 1 .. Len(q) + 1
        /\ b \in (a + 1) - 1 .. Len(q)
        /\ c \in b .. Len(q)
    OBVIOUS
  <1>2. QED
    BY <1>1, ConcatAdjacentSubSeq DEF Cut

LEMMA CutEnds ==
  ASSUME NEW S, NEW q \in Seq(S)
  PROVE  /\ Cut(q, 0, Len(q)) = q
         /\ \A a \in 0 .. Len(q) : Cut(q, a, a) = <<>>
  <1>1. Cut(q, 0, Len(q)) = q
    BY SubSeqFull DEF Cut
  <1>2. ASSUME NEW a \in 0 .. Len(q) PROVE Cut(q, a, a) = <<>>
    BY CutIs, EmptySeq
  <1>3. QED
    BY <1>1, <1>2

-----------------------------------------------------------------------------
(* The for loop.                                                           *)

\* f holds the states of the loop over the first m elements of q.
IsLoop(f, s, q, m) ==
    f = [n \in 0 .. m |-> IF n = 0 THEN s ELSE Turn(f[n - 1], q[n])]

Loop(s, q, m) == CHOOSE f : IsLoop(f, s, q, m)

\* There is such a function for every number of turns, so CHOOSE finds it.
LEMMA LoopExists ==
  ASSUME NEW s, NEW q, NEW m \in Nat
  PROVE  \E f : IsLoop(f, s, q, m)
  <1> DEFINE Bad == {k \in Nat : ~ \E f : IsLoop(f, s, q, k)}
  <1>1. SUFFICES ASSUME Bad # {} PROVE FALSE
    OBVIOUS
  <1>2. PICK k \in Bad : \A j \in Bad : k <= j
    BY <1>1, LeastLength
  <1>3. IsLoop([n \in 0 .. 0 |-> s], s, q, 0)
    BY DEF IsLoop
  <1>4. k \in Nat /\ k # 0 /\ k - 1 \in Nat
    BY <1>2, <1>3
  <1>5. PICK f : IsLoop(f, s, q, k - 1)
    BY <1>2, <1>4
  <1> DEFINE g == [n \in 0 .. k |-> IF n = k THEN Turn(f[k - 1], q[k]) ELSE f[n]]
  <1>6. ASSUME NEW n \in 0 .. k
        PROVE  g[n] = IF n = 0 THEN s ELSE Turn(g[n - 1], q[n])
    <2>1. n # 0 => g[n - 1] = f[n - 1]
      BY <1>4
    <2>2. CASE n = k
      BY <1>4, <2>1, <2>2
    <2>3. CASE n # k
      <3>1. n \in 0 .. (k - 1) /\ g[n] = f[n]
        BY <1>4, <2>3
      <3>2. f[n] = IF n = 0 THEN s ELSE Turn(f[n - 1], q[n])
        BY <1>5, <3>1 DEF IsLoop
      <3>3. QED
        BY <2>1, <3>1, <3>2
    <2>4. QED
      BY <2>2, <2>3
  <1>7. IsLoop(g, s, q, k)
    BY <1>6 DEF IsLoop
  <1>8. QED
    BY <1>2, <1>7

LEMMA LoopIs ==
  ASSUME NEW s, NEW q, NEW m \in Nat
  PROVE  /\ Loop(s, q, m)[0] = s
         /\ \A n \in 1 .. m : Loop(s, q, m)[n] = Turn(Loop(s, q, m)[n - 1], q[n])
  <1> DEFINE h == Loop(s, q, m)
  <1>1. IsLoop(h, s, q, m)
    BY LoopExists DEF Loop
  <1>. HIDE DEF h
  <1>2. h[0] = s /\ \A n \in 1 .. m : h[n] = Turn(h[n - 1], q[n])
    BY <1>1 DEF IsLoop
  <1>3. QED
    BY <1>2 DEF h

LEMMA TakeIs ==
  ASSUME NEW m \in Nat, Take(m)
  PROVE  /\ Become(Loop(Current, rest, m)[m])
         /\ rest' = SubSeq(rest, m + 1, Len(rest))
  BY DEF Take, Loop, IsLoop

-----------------------------------------------------------------------------
(* hexdump. The text of an octet takes three places; the third is a line   *)
(* feed at the end of a line and of the data.                              *)

Row(data, i) == Pair(data[i]) \o IF i = Len(data) \/ i % LINE = 0 THEN <<"\n">> ELSE <<" ">>

\* What the octets of data stand for, one after the other.
HexText(data) ==
    [p \in 1 .. 3 * Len(data) |-> Row(data, 1 + (p - 1) \div 3)[1 + ((p - 1) % 3)]]

Chars == Range(Digits) \cup Space

LEMMA PairIs ==
  ASSUME NEW b \in Byte
  PROVE  Pair(b) \in Seq(Chars) /\ Len(Pair(b)) = 2
  <1>1. b \in Nat /\ b <= 255
    BY DEF Byte
  <1>2. b \div 16 \in Nat /\ b % 16 \in Nat /\ b % 16 < 16 /\ b = 16 * (b \div 16) + (b % 16)
    BY <1>1, Divided
  <1>3. 1 + b \div 16 \in 1 .. 16 /\ 1 + (b % 16) \in 1 .. 16
    BY <1>1, <1>2
  <1>4. DOMAIN Digits = 1 .. 16
    BY DEF Digits
  <1>5. \A n \in 1 .. 16 : Digits[n] \in Chars
    BY <1>4 DEF Chars, Range
  <1>6. Digits[1 + b \div 16] \in Chars /\ Digits[1 + (b % 16)] \in Chars
    BY <1>3, <1>5
  <1>7. QED
    BY <1>6 DEF Pair

LEMMA RowIs ==
  ASSUME NEW data \in Seq(Byte), NEW i \in 1 .. Len(data)
  PROVE  Row(data, i) \in Seq(Chars) /\ Len(Row(data, i)) = 3
  <1>1. data[i] \in Byte
    OBVIOUS
  <1>2. Pair(data[i]) \in Seq(Chars) /\ Len(Pair(data[i])) = 2
    BY <1>1, PairIs
  <1>3. " " \in Chars /\ "\n" \in Chars
    BY DEF Chars, Space
  <1> DEFINE c == IF i = Len(data) \/ i % LINE = 0 THEN "\n" ELSE " "
  <1>4. Row(data, i) = Pair(data[i]) \o <<c>>
    BY DEF Row
  <1>5. c \in Chars
    BY <1>3
  <1>. HIDE DEF c
  <1>6. <<c>> \in Seq(Chars) /\ Len(<<c>>) = 1
    BY <1>5
  <1> DEFINE u == Pair(data[i])
             v == <<c>>
  <1>. HIDE DEF u, v
  <1>7. u \in Seq(Chars) /\ Len(u) = 2 /\ v \in Seq(Chars) /\ Len(v) = 1
    BY <1>2, <1>6 DEF u, v
  <1>8. u \o v \in Seq(Chars) /\ Len(u \o v) = Len(u) + Len(v)
    BY <1>7, ConcatProperties
  <1>9. QED
    BY <1>4, <1>7, <1>8 DEF u, v

\* A place of the text belongs to one octet.
LEMMA Thirds ==
  ASSUME NEW i \in Nat, NEW k \in 1 .. 3, NEW p \in Nat, p = 3 * (i - 1) + k, i > 0
  PROVE  1 + (p - 1) \div 3 = i /\ 1 + ((p - 1) % 3) = k
  <1> DEFINE m == p - 1
  <1>1. m \in Nat /\ m = 3 * (i - 1) + (k - 1)
    OBVIOUS
  <1>. HIDE DEF m
  <1>2. m \div 3 \in Nat /\ m % 3 \in Nat /\ m % 3 < 3 /\ m = 3 * (m \div 3) + (m % 3)
    BY <1>1, Divided
  <1>3. 1 + m \div 3 = i /\ 1 + (m % 3) = k
    BY <1>1, <1>2
  <1>4. QED
    BY <1>3 DEF m

LEMMA HexTextIs ==
  ASSUME NEW data \in Seq(Byte)
  PROVE  /\ HexText(data) \in Seq(Chars)
         /\ Len(HexText(data)) = 3 * Len(data)
         /\ \A i \in 1 .. Len(data), k \in 1 .. 3 : HexText(data)[3 * (i - 1) + k] = Row(data, i)[k]
  <1>0. Len(data) \in Nat
    OBVIOUS
  <1>1. ASSUME NEW p \in 1 .. 3 * Len(data)
        PROVE  Row(data, 1 + (p - 1) \div 3)[1 + ((p - 1) % 3)] \in Chars
    <2>1. 1 + (p - 1) \div 3 \in 1 .. Len(data) /\ 1 + ((p - 1) % 3) \in 1 .. 3
      <3> DEFINE m == p - 1
      <3>1. m \in Nat /\ m < 3 * Len(data)
        BY <1>0
      <3>. HIDE DEF m
      <3>2. m \div 3 \in Nat /\ m % 3 \in Nat /\ m % 3 < 3 /\ m = 3 * (m \div 3) + (m % 3)
        BY <3>1, Divided
      <3>3. 1 + m \div 3 \in 1 .. Len(data) /\ 1 + (m % 3) \in 1 .. 3
        BY <1>0, <3>1, <3>2
      <3>4. QED
        BY <3>3 DEF m
    <2>2. QED
      BY <2>1, RowIs
  <1>2. HexText(data) \in [1 .. 3 * Len(data) -> Chars] /\ 3 * Len(data) \in Nat
    BY <1>0, <1>1 DEF HexText
  <1>3. HexText(data) \in Seq(Chars) /\ Len(HexText(data)) = 3 * Len(data)
    BY <1>2
  <1>4. ASSUME NEW i \in 1 .. Len(data), NEW k \in 1 .. 3
        PROVE  HexText(data)[3 * (i - 1) + k] = Row(data, i)[k]
    <2>1. 3 * (i - 1) + k \in 1 .. 3 * Len(data) /\ i \in Nat /\ i > 0 /\ 3 * (i - 1) + k \in Nat
      BY <1>0
    <2>2. 1 + ((3 * (i - 1) + k) - 1) \div 3 = i /\ 1 + (((3 * (i - 1) + k) - 1) % 3) = k
      BY <2>1, Thirds
    <2>3. QED
      BY <2>1, <2>2 DEF HexText
  <1>5. QED
    BY <1>3, <1>4

LEMMA HexTextEmpty == HexText(<<>>) = <<>>
  <1>1. <<>> \in Seq(Byte) /\ Len(<<>>) = 0
    OBVIOUS
  <1>2. HexText(<<>>) \in Seq(Chars) /\ Len(HexText(<<>>)) = 3 * 0
    BY <1>1, HexTextIs
  <1>3. QED
    BY <1>2, EmptySeq

LEMMA PlaceOfOctet ==
  ASSUME NEW n \in Nat, NEW p \in 1 .. 3 * n
  PROVE  \E i \in 1 .. n, k \in 1 .. 3 : p = 3 * (i - 1) + k
  <1> DEFINE m == p - 1
  <1>1. m \in Nat /\ m < 3 * n /\ p = m + 1
    OBVIOUS
  <1>. HIDE DEF m
  <1>2. m \div 3 \in Nat /\ m % 3 \in Nat /\ m % 3 < 3 /\ m = 3 * (m \div 3) + (m % 3)
    BY <1>1, Divided
  <1>3. /\ 1 + m \div 3 \in 1 .. n /\ 1 + (m % 3) \in 1 .. 3
        /\ p = 3 * ((1 + m \div 3) - 1) + (1 + (m % 3))
    BY <1>1, <1>2
  <1>4. QED
    BY <1>3

\* Texts of lines that end where a line ends follow each other.
LEMMA LineMod ==
  ASSUME NEW c \in Nat, NEW j \in Nat, c % LINE = 0
  PROVE  (c + j) % LINE = j % LINE
  <1>1. LINE \in Nat /\ LINE > 0
    BY LineAssumption
  <1>2. c \div LINE \in Nat /\ c = LINE * (c \div LINE) + (c % LINE)
    BY <1>1, Divided
  <1>3. /\ j \div LINE \in Nat /\ j % LINE \in Nat /\ j % LINE < LINE
        /\ j = LINE * (j \div LINE) + (j % LINE)
    BY <1>1, Divided
  <1>4. /\ (c + j) \div LINE \in Nat /\ (c + j) % LINE \in Nat /\ (c + j) % LINE < LINE
        /\ c + j = LINE * ((c + j) \div LINE) + ((c + j) % LINE)
    BY <1>1, Divided
  <1> DEFINE x == c \div LINE
             y == j \div LINE
             z == (c + j) \div LINE
             r == j % LINE
             s == (c + j) % LINE
  <1>5. x \in Nat /\ y \in Nat /\ z \in Nat /\ r \in Nat /\ s \in Nat /\ r < LINE /\ s < LINE
    BY <1>2, <1>3, <1>4
  <1>6. c = LINE * x /\ j = LINE * y + r /\ c + j = LINE * z + s
    BY <1>2, <1>3, <1>4, <1>1
  <1>. HIDE DEF x, y, z, r, s
  <1>7. s - r = (x + y - z) * LINE /\ s - r \in Int /\ x + y - z \in Int
    BY <1>1, <1>5, <1>6
  <1>8. -LINE < s - r /\ s - r < LINE
    BY <1>1, <1>5
  <1>9. s - r = 0
    BY <1>1, <1>7, <1>8, SmallMultiple
  <1>10. s = r
    BY <1>5, <1>9
  <1>11. QED
    BY <1>10 DEF s, r

LEMMA HexTextJoin ==
  ASSUME NEW a \in Seq(Byte), NEW b \in Seq(Byte), Len(a) % LINE = 0, b # <<>>
  PROVE  HexText(a) \o HexText(b) = HexText(a \o b)
  <1> DEFINE d == a \o b
  <1>1. Len(a) \in Nat /\ Len(b) \in Nat /\ Len(b) > 0
    BY EmptySeq
  <1>2. /\ d \in Seq(Byte) /\ Len(d) = Len(a) + Len(b)
        /\ \A i \in 1 .. Len(a) + Len(b) : d[i] = IF i <= Len(a) THEN a[i] ELSE b[i - Len(a)]
    BY ConcatProperties
  <1>. HIDE DEF d
  <1>3. ASSUME NEW i \in 1 .. Len(a) PROVE Row(d, i) = Row(a, i)
    <2>1. d[i] = a[i] /\ i # Len(d)
      BY <1>1, <1>2
    <2>2. i = Len(a) => i % LINE = 0
      OBVIOUS
    <2>3. QED
      BY <2>1, <2>2 DEF Row
  <1>4. ASSUME NEW j \in 1 .. Len(b) PROVE Row(d, Len(a) + j) = Row(b, j)
    <2>1. d[Len(a) + j] = b[j] /\ (Len(a) + j = Len(d) <=> j = Len(b))
      <3>1. Len(a) + j \in 1 .. Len(a) + Len(b) /\ ~(Len(a) + j <= Len(a)) /\ (Len(a) + j) - Len(a) = j
        BY <1>1
      <3>2. d[Len(a) + j] = b[(Len(a) + j) - Len(a)]
        BY <1>2, <3>1
      <3>3. QED
        <4>1. Len(d) = Len(a) + Len(b)
          BY <1>2
        <4>2. QED
          BY <1>1, <3>1, <3>2, <4>1
    <2>2. (Len(a) + j) % LINE = j % LINE
      BY <1>1, LineMod
    <2>3. QED
      BY <2>1, <2>2 DEF Row
  <1> DEFINE u == HexText(a)
             v == HexText(b)
             w == HexText(d)
  <1>5. /\ u \in Seq(Chars) /\ Len(u) = 3 * Len(a)
        /\ \A i \in 1 .. Len(a), k \in 1 .. 3 : u[3 * (i - 1) + k] = Row(a, i)[k]
    BY HexTextIs
  <1>6. /\ v \in Seq(Chars) /\ Len(v) = 3 * Len(b)
        /\ \A i \in 1 .. Len(b), k \in 1 .. 3 : v[3 * (i - 1) + k] = Row(b, i)[k]
    BY HexTextIs
  <1>7. /\ w \in Seq(Chars) /\ Len(w) = 3 * Len(d)
        /\ \A i \in 1 .. Len(d), k \in 1 .. 3 : w[3 * (i - 1) + k] = Row(d, i)[k]
    BY <1>2, HexTextIs
  <1>. HIDE DEF u, v, w
  <1>8. /\ u \o v \in Seq(Chars) /\ Len(u \o v) = Len(u) + Len(v)
        /\ \A p \in 1 .. Len(u) + Len(v) : (u \o v)[p] = IF p <= Len(u) THEN u[p] ELSE v[p - Len(u)]
    <2>1. u \in Seq(Chars) /\ v \in Seq(Chars)
      BY <1>5, <1>6
    <2>2. QED
      BY <2>1, ConcatProperties
  <1>9. Len(u \o v) = Len(w) /\ Len(w) \in Nat
    BY <1>1, <1>2, <1>5, <1>6, <1>7, <1>8
  <1>10. ASSUME NEW p \in 1 .. Len(w) PROVE (u \o v)[p] = w[p]
    <2>1. PICK i \in 1 .. Len(d), k \in 1 .. 3 : p = 3 * (i - 1) + k
      <3>1. Len(d) \in Nat /\ p \in 1 .. 3 * Len(d)
        BY <1>1, <1>2, <1>7
      <3>2. QED
        BY <3>1, PlaceOfOctet
    <2>2. w[p] = Row(d, i)[k]
      BY <1>7, <2>1
    <2>3. CASE i <= Len(a)
      <3>1. i \in 1 .. Len(a) /\ p <= Len(u) /\ p \in 1 .. Len(u) + Len(v)
        BY <1>1, <1>5, <1>6, <2>1, <2>3
      <3>2. u[p] = Row(a, i)[k]
        BY <1>5, <2>1, <3>1
      <3>3. QED
        BY <1>3, <1>8, <2>2, <3>1, <3>2
    <2>4. CASE ~(i <= Len(a))
      <3>1. PICK j \in 1 .. Len(b) : i = Len(a) + j
        <4>1. i - Len(a) \in 1 .. Len(b) /\ i = Len(a) + (i - Len(a))
          BY <1>1, <1>2, <2>4
        <4>2. QED
          BY <4>1
      <3>2. p - Len(u) = 3 * (j - 1) + k /\ ~(p <= Len(u)) /\ p \in 1 .. Len(u) + Len(v)
        BY <1>1, <1>2, <1>5, <1>6, <2>1, <3>1
      <3>3. v[p - Len(u)] = Row(b, j)[k]
        BY <1>6, <3>2
      <3>4. QED
        BY <1>4, <1>8, <2>2, <3>1, <3>2, <3>3
    <2>5. QED
      BY <2>3, <2>4
  <1>11. u \o v = w
    BY <1>7, <1>8, <1>9, <1>10, SeqEqual
  <1>12. QED
    BY <1>11 DEF u, v, w, d

-----------------------------------------------------------------------------
(* What binary_to_hex does.                                                *)

Ahead(i) == IF i > 1 /\ (i - 1) % LINE = 0 THEN <<"\n">> ELSE <<>>
After(data, i) == IF i = Len(data) \/ i % LINE = 0 THEN <<>> ELSE <<" ">>

\* f holds the text after each of the first m turns of the while loop.
IsText(f, data, m) ==
    f = [i \in 0 .. m |-> IF i = 0 THEN <<>>
                          ELSE f[i - 1] \o Ahead(i) \o Pair(data[i]) \o After(data, i)]

Written(data) == CHOOSE f : IsText(f, data, Len(data))

LEMMA WrittenIs ==
  ASSUME NEW data, Len(data) \in Nat
  PROVE  IsText(Written(data), data, Len(data))
  <1> DEFINE Next(x, i) == x \o Ahead(i) \o Pair(data[i]) \o After(data, i)
             Bad == {k \in Nat : ~ \E f : IsText(f, data, k)}
  <1>1. IsText([i \in 0 .. 0 |-> <<>>], data, 0)
    BY DEF IsText
  <1>2. ASSUME NEW k \in Nat, NEW f, IsText(f, data, k)
        PROVE  \E g : IsText(g, data, k + 1)
    <2> DEFINE last == Next(f[k], k + 1)
               g == [i \in 0 .. (k + 1) |-> IF i = k + 1 THEN last ELSE f[i]]
    <2>. HIDE DEF last
    <2>1. ASSUME NEW i \in 0 .. k
          PROVE  g[i] = IF i = 0 THEN <<>> ELSE Next(g[i - 1], i)
      <3>1. g[i] = f[i] /\ (i # 0 => g[i - 1] = f[i - 1])
        OBVIOUS
      <3>2. f[i] = IF i = 0 THEN <<>> ELSE Next(f[i - 1], i)
        BY <1>2 DEF IsText
      <3>. HIDE DEF Next, g
      <3>3. QED
        BY <3>1, <3>2
    <2>2. g[k + 1] = Next(g[(k + 1) - 1], k + 1)
      <3>1. (k + 1) - 1 = k /\ g[k + 1] = last /\ g[k] = f[k]
        OBVIOUS
      <3>. HIDE DEF Next, g
      <3>2. QED
        BY <3>1 DEF last
    <2>3. \A i \in 0 .. (k + 1) : g[i] = IF i = 0 THEN <<>> ELSE Next(g[i - 1], i)
      <3>. HIDE DEF Next, g
      <3>1. QED
        BY <2>1, <2>2
    <2>4. g = [i \in 0 .. (k + 1) |-> g[i]]
      OBVIOUS
    <2>5. IsText(g, data, k + 1)
      BY <2>3, <2>4 DEF IsText
    <2>6. QED
      BY <2>5
  <1>3. Bad = {}
    <2>1. SUFFICES ASSUME Bad # {} PROVE FALSE
      OBVIOUS
    <2>2. PICK k \in Bad : \A j \in Bad : k <= j
      BY <2>1, LeastLength
    <2>3. k \in Nat /\ k # 0 /\ k - 1 \in Nat /\ (k - 1) + 1 = k
      BY <1>1, <2>2
    <2>4. PICK f : IsText(f, data, k - 1)
      BY <2>2, <2>3
    <2>5. QED
      BY <1>2, <2>2, <2>3, <2>4
  <1>4. \E f : IsText(f, data, Len(data))
    BY <1>3
  <1>5. QED
    BY <1>4 DEF Written

LEMMA BinaryToHexIs ==
  ASSUME NEW data
  PROVE  BinaryToHex(data) = Written(data)[Len(data)] \o <<"\n">>
  BY DEF BinaryToHex, Written, IsText, Ahead, After

\* binary_to_hex writes one row for every octet.
LEMMA BinaryToHexRows ==
  ASSUME NEW data \in Seq(Byte), data # <<>>
  PROVE  BinaryToHex(data) = HexText(data)
  <1> DEFINE L == Len(data)
             f == Written(data)
             H == HexText(data)
             Fin(i) == IF i = L \/ i % LINE = 0 THEN <<"\n">> ELSE <<>>
             Right(i) == /\ f[i] \in Seq(Chars)
                         /\ IF i = 0 THEN f[i] = <<>> ELSE f[i] \o Fin(i) = Cut(H, 0, 3 * i)
             Bad == {i \in 0 .. L : ~Right(i)}
  <1>1. L \in Nat /\ L > 0
    BY EmptySeq
  <1>2. /\ H \in Seq(Chars) /\ Len(H) = 3 * L
        /\ \A i \in 1 .. L, k \in 1 .. 3 : H[3 * (i - 1) + k] = Row(data, i)[k]
    BY HexTextIs
  <1>3. \A i \in 0 .. L : f[i] = IF i = 0 THEN <<>>
                                 ELSE f[i - 1] \o Ahead(i) \o Pair(data[i]) \o After(data, i)
    BY <1>1, WrittenIs DEF IsText
  <1>4. /\ <<>> \in Seq(Chars) /\ <<"\n">> \in Seq(Chars) /\ <<" ">> \in Seq(Chars)
        /\ Len(<<>>) = 0
    <2>1. " " \in Chars /\ "\n" \in Chars
      BY DEF Chars, Space
    <2>2. \A c \in Chars : <<c>> \in Seq(Chars)
      OBVIOUS
    <2>3. QED
      BY <2>1, <2>2, EmptySeq
  <1>. HIDE DEF f, H, L
  <1>5. Right(0)
    <2>1. f[0] = <<>>
      BY <1>1, <1>3
    <2>2. QED
      BY <1>4, <2>1
  <1>6. ASSUME NEW i \in Nat, i < L, Right(i)
        PROVE  Right(i + 1)
    <2> DEFINE j == i + 1
               x == f[i] \o Ahead(j)
               pair == Pair(data[j])
               tail == After(data, j)
    <2>1. j \in 1 .. L /\ j \in 0 .. L /\ j - 1 = i /\ j # 0 /\ i \in 0 .. L /\ i # L
      BY <1>1, <1>6
    <2>2. x = Cut(H, 0, 3 * i)
      <3>1. CASE i = 0
        <4>1. x = <<>>
          <5>1. f[i] = <<>> /\ Ahead(j) = <<>>
            BY <1>6, <3>1 DEF Ahead
          <5>2. QED
            BY <5>1, <1>4, ConcatEmptySeq
        <4>2. Cut(H, 0, 3 * i) = <<>>
          <5>1. 0 \in 0 .. Len(H) /\ 3 * i = 0
            BY <1>1, <1>2, <3>1
          <5>2. QED
            BY <1>2, <5>1, CutEnds
        <4>3. QED
          BY <4>1, <4>2
      <3>2. CASE i # 0
        <4>1. Ahead(j) = Fin(i)
          BY <2>1, <1>6, <3>2 DEF Ahead
        <4>2. QED
          BY <1>6, <3>2, <4>1
      <3>3. QED
        BY <3>1, <3>2
    <2>3. x \in Seq(Chars)
      <3>1. Ahead(j) \in Seq(Chars)
        BY <1>4 DEF Ahead
      <3>2. QED
        BY <1>6, <3>1, ConcatProperties
    <2>4. pair \in Seq(Chars)
      BY <2>1, PairIs DEF L
    <2>5. tail \in Seq(Chars) /\ Fin(j) \in Seq(Chars)
      BY <1>4 DEF After
    <2>6. f[j] = x \o pair \o tail
      BY <1>3, <2>1
    <2>7. f[j] \in Seq(Chars)
      BY <2>3, <2>4, <2>5, <2>6, ConcatProperties
    <2>8. pair \o (tail \o Fin(j)) = Row(data, j)
      <3>1. tail \o Fin(j) = IF j = L \/ j % LINE = 0 THEN <<"\n">> ELSE <<" ">>
        BY <1>4, ConcatEmptySeq DEF After, L
      <3>2. QED
        BY <3>1 DEF Row, L
    <2>9. Row(data, j) = Cut(H, 3 * i, 3 * j)
      <3> DEFINE c == Cut(H, 3 * i, 3 * j)
                 r == Row(data, j)
      <3>1. r \in Seq(Chars) /\ Len(r) = 3
        BY <2>1, RowIs DEF L
      <3>2. 3 * i \in Nat /\ 3 * j \in Nat /\ 3 * i <= 3 * j /\ 3 * j <= Len(H) /\ 3 * j - 3 * i = 3
        BY <1>1, <1>2, <2>1
      <3>3. c \in Seq(Chars) /\ Len(c) = 3 * j - 3 * i
            /\ \A k \in 1 .. (3 * j - 3 * i) : c[k] = H[3 * i + k]
        <4> DEFINE a == 3 * i
                   b == 3 * j
                   w == Cut(H, a, b)
        <4>1. a \in Nat /\ b \in Nat /\ a <= b /\ b <= Len(H) /\ H \in Seq(Chars)
          BY <1>2, <3>2
        <4>. HIDE DEF a, b
        <4>2. w \in Seq(Chars) /\ Len(w) = b - a
          BY <4>1, CutIs
        <4>3. ASSUME NEW k \in 1 .. (b - a) PROVE w[k] = H[a + k]
          BY <4>1, CutPlace
        <4>4. QED
          BY <4>2, <4>3 DEF a, b
      <3>4. \A k \in 1 .. 3 : r[k] = H[3 * i + k]
        BY <1>2, <2>1
      <3>. HIDE DEF c, r
      <3>5. Len(c) = 3 /\ \A k \in 1 .. 3 : c[k] = r[k]
        BY <3>2, <3>3, <3>4
      <3>6. r = c
        BY <3>1, <3>3, <3>5, SeqEqual
      <3>7. QED
        BY <3>6 DEF c, r
    <2>. HIDE DEF x, pair, tail, Fin
    <2>10. f[j] \o Fin(j) = x \o Row(data, j)
      <3>1. /\ x \in Seq(Chars) /\ pair \in Seq(Chars)
            /\ tail \in Seq(Chars) /\ Fin(j) \in Seq(Chars)
        BY <2>3, <2>4, <2>5
      <3>2. pair \o tail \in Seq(Chars)
        BY <3>1, ConcatProperties
      <3>3. /\ Chained(x, pair, tail) /\ Chained(x, pair \o tail, Fin(j))
            /\ Chained(pair, tail, Fin(j))
        BY <3>1, <3>2, JoinsChain, Zenon
      <3>4. QED
        BY <2>6, <2>8, <3>3 DEF Chained
    <2>11. x \o Row(data, j) = Cut(H, 0, 3 * j)
      <3>1. 0 \in Nat /\ 3 * i \in Nat /\ 3 * j \in Nat /\ 0 <= 3 * i /\ 3 * i <= 3 * j /\ 3 * j <= Len(H)
        BY <1>1, <1>2, <2>1
      <3>2. Cut(H, 0, 3 * i) \o Cut(H, 3 * i, 3 * j) = Cut(H, 0, 3 * j)
        BY <1>2, <3>1, CutJoin
      <3>3. QED
        BY <2>2, <2>9, <3>2
    <2>12. QED
      BY <2>1, <2>7, <2>10, <2>11
  <1>7. Bad = {}
    <2>. HIDE DEF Right
    <2>1. SUFFICES ASSUME Bad # {} PROVE FALSE
      OBVIOUS
    <2>2. Bad \in SUBSET Nat
      BY <1>1
    <2>3. PICK k \in Bad : \A j \in Bad : k <= j
      BY <2>1, <2>2, LeastLength
    <2>4. k # 0 /\ k \in 0 .. L
      BY <1>5, <2>3
    <2>5. k - 1 \in Nat /\ k - 1 < L /\ (k - 1) + 1 = k /\ k - 1 \in 0 .. L
      BY <1>1, <2>4
    <2>6. Right(k - 1)
      BY <2>3, <2>5
    <2>7. QED
      BY <1>6, <2>3, <2>5, <2>6
  <1>8. Right(L)
    <2>. HIDE DEF Right
    <2>1. QED
      BY <1>1, <1>7
  <1>9. f[L] \o <<"\n">> = Cut(H, 0, Len(H))
    BY <1>1, <1>2, <1>8
  <1>10. f[L] \o <<"\n">> = H
    BY <1>2, <1>9, CutEnds
  <1>11. QED
    BY <1>10, BinaryToHexIs DEF f, L, H

-----------------------------------------------------------------------------
(* The digits of a text that is put together from two.                     *)

LEMMA Shifted ==
  ASSUME NEW R \in SUBSET Nat, IsFiniteSet(R), NEW n \in Nat
  PROVE  LET T == {n + r : r \in R}
         IN  IsFiniteSet(T) /\ Cardinality(T) = Cardinality(R)
  <1> DEFINE T == {n + r : r \in R}
             f == [r \in R |-> n + r]
  <1>1. f \in Bijection(R, T)
    BY DEF Bijection, Injection, Surjection, IsInjective
  <1>2. ExistsBijection(R, T)
    BY <1>1 DEF ExistsBijection
  <1>3. QED
    BY <1>2, FS_Bijection

LEMMA SignsFinite ==
  ASSUME NEW S, NEW q \in Seq(S)
  PROVE  /\ Signs(q) \in SUBSET (1 .. Len(q)) /\ IsFiniteSet(Signs(q))
         /\ GetSize(q) \in Nat
         /\ \A p \in Nat : /\ IsFiniteSet({x \in Signs(q) : x < p})
                          /\ Before(q, p) \in Nat /\ Before(q, p) <= GetSize(q)
         /\ \A p \in Signs(q) : Before(q, p) < GetSize(q)
  <1>1. Signs(q) \in SUBSET (1 .. Len(q)) /\ Len(q) \in Nat
    BY DEF Signs
  <1>2. IsFiniteSet(Signs(q))
    <2>1. 1 \in Int /\ Len(q) \in Int
      BY <1>1
    <2>2. IsFiniteSet(1 .. Len(q))
      BY <2>1, FS_Interval
    <2>3. QED
      BY <1>1, <2>2, FS_Subset
  <1>3. GetSize(q) \in Nat
    BY <1>2, FS_CardinalityType DEF GetSize
  <1>4. ASSUME NEW p \in Nat
        PROVE  /\ IsFiniteSet({x \in Signs(q) : x < p})
               /\ Before(q, p) \in Nat /\ Before(q, p) <= GetSize(q)
               /\ p \in Signs(q) => Before(q, p) < GetSize(q)
    <2> DEFINE T == {x \in Signs(q) : x < p}
    <2>1. T \in SUBSET Signs(q) /\ p \notin T
      BY <1>1
    <2>2. IsFiniteSet(T) /\ Cardinality(T) <= Cardinality(Signs(q))
      BY <1>2, <2>1, FS_Subset
    <2>3. Cardinality(T) \in Nat
      BY <2>2, FS_CardinalityType
    <2>4. ASSUME p \in Signs(q) PROVE Cardinality(T) < Cardinality(Signs(q))
      <3>1. T # Signs(q)
        BY <2>1, <2>4
      <3>2. Cardinality(T) # Cardinality(Signs(q))
        BY <1>2, <2>1, <3>1, FS_Subset
      <3>3. QED
        BY <1>3, <2>2, <2>3, <3>2 DEF GetSize
    <2>5. QED
      BY <2>2, <2>3, <2>4 DEF Before, GetSize
  <1>5. \A p \in Signs(q) : Before(q, p) < GetSize(q)
    <2>1. \A p \in Signs(q) : p \in Nat
      BY <1>1
    <2>2. QED
      BY <1>4, <2>1
  <1>6. QED
    BY <1>1, <1>2, <1>3, <1>4, <1>5

LEMMA SignsJoin ==
  ASSUME NEW S, NEW a \in Seq(S), NEW b \in Seq(S)
  PROVE  /\ \A p \in Nat : p <= Len(a) => (p \in Signs(a \o b) <=> p \in Signs(a))
         /\ \A p \in Nat : Len(a) + p \in Signs(a \o b) /\ p > 0 <=> p \in Signs(b)
         /\ \A p \in 1 .. Len(a) : (a \o b)[p] = a[p]
         /\ \A p \in 1 .. Len(b) : (a \o b)[Len(a) + p] = b[p]
  <1> DEFINE d == a \o b
  <1>1. Len(a) \in Nat /\ Len(b) \in Nat
    OBVIOUS
  <1>2. /\ d \in Seq(S) /\ Len(d) = Len(a) + Len(b)
        /\ \A i \in 1 .. Len(a) + Len(b) : d[i] = IF i <= Len(a) THEN a[i] ELSE b[i - Len(a)]
    BY ConcatProperties
  <1>. HIDE DEF d
  <1>3. ASSUME NEW p \in 1 .. Len(a) PROVE d[p] = a[p]
    BY <1>1, <1>2
  <1>4. ASSUME NEW p \in 1 .. Len(b) PROVE d[Len(a) + p] = b[p]
    <2>1. /\ Len(a) + p \in 1 .. Len(a) + Len(b) /\ ~(Len(a) + p <= Len(a))
          /\ (Len(a) + p) - Len(a) = p
      BY <1>1
    <2>2. d[Len(a) + p] = b[(Len(a) + p) - Len(a)]
      BY <1>2, <2>1
    <2>3. QED
      BY <2>1, <2>2
  <1>5. /\ DOMAIN d = 1 .. Len(d) /\ Len(d) = Len(a) + Len(b)
        /\ DOMAIN a = 1 .. Len(a) /\ DOMAIN b = 1 .. Len(b)
    BY <1>2
  <1>6. ASSUME NEW p \in Nat, p <= Len(a) PROVE p \in Signs(d) <=> p \in Signs(a)
    <2>1. p \in DOMAIN d <=> p \in DOMAIN a
      BY <1>1, <1>5, <1>6
    <2>2. p \in DOMAIN a => d[p] = a[p]
      BY <1>3, <1>5
    <2>3. QED
      BY <2>1, <2>2 DEF Signs
  <1>7. ASSUME NEW p \in Nat
        PROVE  Len(a) + p \in Signs(d) /\ p > 0 <=> p \in Signs(b)
    <2>1. Len(a) + p \in DOMAIN d /\ p > 0 <=> p \in DOMAIN b
      BY <1>1, <1>5
    <2>2. p \in DOMAIN b => d[Len(a) + p] = b[p]
      BY <1>4, <1>5
    <2>3. QED
      BY <2>1, <2>2 DEF Signs
  <1>8. QED
    BY <1>3, <1>4, <1>6, <1>7 DEF d

LEMMA BeforeJoin ==
  ASSUME NEW S, NEW a \in Seq(S), NEW b \in Seq(S)
  PROVE  /\ \A p \in Nat : p <= Len(a) => Before(a \o b, p) = Before(a, p)
         /\ \A p \in Nat : p > 0 => Before(a \o b, Len(a) + p) = GetSize(a) + Before(b, p)
         /\ GetSize(a \o b) = GetSize(a) + GetSize(b)
  <1> DEFINE d == a \o b
             Behind(R) == {Len(a) + r : r \in R}
  <1>1. Len(a) \in Nat /\ Len(b) \in Nat /\ d \in Seq(S)
    BY ConcatProperties
  <1>2. /\ \A p \in Nat : p <= Len(a) => (p \in Signs(d) <=> p \in Signs(a))
        /\ \A p \in Nat : Len(a) + p \in Signs(d) /\ p > 0 <=> p \in Signs(b)
    BY SignsJoin
  <1>. HIDE DEF d
  <1>3. /\ Signs(a) \in SUBSET (1 .. Len(a)) /\ IsFiniteSet(Signs(a))
        /\ Signs(b) \in SUBSET (1 .. Len(b)) /\ IsFiniteSet(Signs(b))
        /\ Signs(d) \in SUBSET (1 .. Len(d))
    BY <1>1, SignsFinite
  <1>4. ASSUME NEW p \in Nat, p <= Len(a) PROVE Before(d, p) = Before(a, p)
    <2>1. ASSUME NEW x PROVE x \in Signs(d) /\ x < p <=> x \in Signs(a) /\ x < p
      <3>1. x \in Signs(d) \/ x \in Signs(a) => x \in Nat
        BY <1>3
      <3>2. x \in Nat /\ x < p => x <= Len(a)
        BY <1>1, <1>4
      <3>3. QED
        BY <1>2, <3>1, <3>2
    <2>2. {x \in Signs(d) : x < p} = {x \in Signs(a) : x < p}
      BY <2>1
    <2>3. QED
      BY <2>2 DEF Before
  <1>5. ASSUME NEW R \in SUBSET Signs(b)
        PROVE  Cardinality(Signs(a) \cup Behind(R)) = GetSize(a) + Cardinality(R)
    <2>1. IsFiniteSet(R) /\ R \in SUBSET Nat
      BY <1>3, FS_Subset
    <2>2. IsFiniteSet(Behind(R)) /\ Cardinality(Behind(R)) = Cardinality(R)
      BY <1>1, <2>1, Shifted
    <2>3. Signs(a) \cap Behind(R) = {}
      <3>1. \A r \in R : Len(a) + r > Len(a)
        BY <1>1, <1>3
      <3>2. \A x \in Signs(a) : x <= Len(a) /\ x \in Nat
        BY <1>1, <1>3
      <3>3. QED
        BY <1>1, <2>1, <3>1, <3>2
    <2>4. Cardinality(Signs(a) \cup Behind(R))
            = Cardinality(Signs(a)) + Cardinality(Behind(R)) - Cardinality({})
      BY <1>3, <2>2, <2>3, FS_Union
    <2>5. Cardinality({}) = 0 /\ Cardinality(Signs(a)) \in Nat /\ Cardinality(R) \in Nat
      BY <1>3, <2>1, FS_EmptySet, FS_CardinalityType
    <2>6. QED
      BY <2>2, <2>4, <2>5 DEF GetSize
  <1>6. ASSUME NEW x PROVE x \in Signs(d) <=> x \in Signs(a) \cup Behind(Signs(b))
    <2>1. ASSUME x \in Signs(d) PROVE x \in Signs(a) \cup Behind(Signs(b))
      <3>1. x \in Nat
        BY <1>3, <2>1
      <3>2. CASE x <= Len(a)
        BY <1>2, <2>1, <3>1, <3>2
      <3>3. CASE ~(x <= Len(a))
        <4>1. x - Len(a) \in Nat /\ x - Len(a) > 0 /\ Len(a) + (x - Len(a)) = x
          BY <1>1, <3>1, <3>3
        <4>2. x - Len(a) \in Signs(b)
          BY <1>2, <2>1, <4>1
        <4>3. QED
          BY <4>1, <4>2
      <3>4. QED
        BY <3>2, <3>3
    <2>2. ASSUME x \in Signs(a) PROVE x \in Signs(d)
      <3>1. x \in Nat /\ x <= Len(a)
        BY <1>1, <1>3, <2>2
      <3>2. QED
        BY <1>2, <2>2, <3>1
    <2>3. ASSUME x \in Behind(Signs(b)) PROVE x \in Signs(d)
      <3>1. PICK r \in Signs(b) : x = Len(a) + r
        BY <2>3
      <3>2. r \in Nat
        BY <1>3
      <3>3. QED
        BY <1>2, <3>1, <3>2
    <2>4. QED
      BY <2>1, <2>2, <2>3
  <1>7. ASSUME NEW p \in Nat, p > 0 PROVE Before(d, Len(a) + p) = GetSize(a) + Before(b, p)
    <2> DEFINE R == {x \in Signs(b) : x < p}
    <2>1. ASSUME NEW x
          PROVE  x \in Signs(d) /\ x < Len(a) + p <=> x \in Signs(a) \cup Behind(R)
      <3>1. x \in Signs(a) => x < Len(a) + p
        BY <1>1, <1>3, <1>7
      <3>2. ASSUME NEW r \in Signs(b) PROVE Len(a) + r < Len(a) + p <=> r < p
        BY <1>1, <1>3
      <3>3. QED
        BY <1>6, <3>1, <3>2
    <2>2. {x \in Signs(d) : x < Len(a) + p} = Signs(a) \cup Behind(R)
      BY <2>1
    <2>3. QED
      BY <1>5, <2>2 DEF Before
  <1>8. GetSize(d) = GetSize(a) + GetSize(b)
    <2>1. Signs(d) = Signs(a) \cup Behind(Signs(b))
      BY <1>6
    <2>2. QED
      BY <1>5, <2>1 DEF GetSize
  <1>9. QED
    BY <1>4, <1>7, <1>8 DEF d

-----------------------------------------------------------------------------
(* The states of the two loops behind the first k octets of the input.     *)

IsState(s) == s = [buffer |-> s.buffer, bytes |-> s.bytes, out |-> s.out, status |-> s.status]

\* hexdump: c octets, lines of them, are written, the others are in the buffer.
DumpState(s, k) ==
    /\ IsState(s) /\ s.status = "running"
    /\ \E c \in 0 .. k : /\ c % LINE = 0 /\ k - c < LINE
                         /\ s.buffer = Cut(input, c, k)
                         /\ s.out = HexText(Cut(input, 0, c))

\* Writing what stands between whole lines and place j.
LEMMA DumpLine ==
  ASSUME input \in Seq(Byte), NEW c \in Nat, NEW j \in Nat,
         c < j, j <= Len(input), c % LINE = 0
  PROVE  HexText(Cut(input, 0, c)) \o BinaryToHex(Cut(input, c, j)) = HexText(Cut(input, 0, j))
  <1> DEFINE a == Cut(input, 0, c)
             b == Cut(input, c, j)
  <1>1. /\ c <= Len(input) /\ 0 <= c /\ 0 \in Nat /\ c <= j /\ c - 0 = c /\ j - c > 0
        /\ Len(input) \in Nat
    OBVIOUS
  <1>2. a \in Seq(Byte) /\ Len(a) = c
    BY <1>1, CutIs
  <1>3. b \in Seq(Byte) /\ Len(b) = j - c
    BY <1>1, CutIs
  <1>4. a \o b = Cut(input, 0, j)
    BY <1>1, CutJoin
  <1>. HIDE DEF a, b
  <1>5. b # <<>>
    BY <1>1, <1>3, EmptySeq
  <1>6. BinaryToHex(b) = HexText(b)
    BY <1>3, <1>5, BinaryToHexRows
  <1>7. HexText(a) \o HexText(b) = HexText(a \o b)
    BY <1>2, <1>3, <1>5, HexTextJoin
  <1>8. QED
    BY <1>4, <1>6, <1>7 DEF a, b

LEMMA LineWhole == LINE \in Nat /\ LINE > 0 /\ LINE % LINE = 0 /\ 0 % LINE = 0
  BY LineAssumption

\* A turn stores an octet, and writes the buffer when that completes a line.
LEMMA DumpTurnKeeps ==
  ASSUME input \in Seq(Byte), NEW k \in Nat, k < Len(input), NEW s, DumpState(s, k)
  PROVE  DumpState(DumpOctet(s, input[k + 1]), k + 1)
  <1> DEFINE o == input[k + 1]
             b == Append(s.buffer, o)
             z == DumpOctet(s, o)
  <1>1. IsState(s) /\ s.status = "running"
    BY DEF DumpState
  <1>2. PICK c \in 0 .. k : /\ c % LINE = 0 /\ k - c < LINE
                            /\ s.buffer = Cut(input, c, k)
                            /\ s.out = HexText(Cut(input, 0, c))
    BY DEF DumpState
  <1>3. c \in Nat /\ c <= k /\ k + 1 \in Nat /\ k + 1 <= Len(input) /\ c <= k + 1 /\ c < k + 1
    OBVIOUS
  <1>4. b = Cut(input, c, k + 1)
    BY <1>2, <1>3, CutAppend
  <1>5. Len(b) = k + 1 - c
    BY <1>3, <1>4, CutIs
  <1>6. z = IF Len(b) < LINE THEN [s EXCEPT !.buffer = b]
            ELSE [s EXCEPT !.buffer = <<>>, !.out = @ \o BinaryToHex(b)]
    BY DEF DumpOctet
  <1>. HIDE DEF b, z
  <1>7. CASE Len(b) < LINE
    <2>1. z = [s EXCEPT !.buffer = b]
      BY <1>6, <1>7
    <2>2. IsState(z) /\ z.status = "running" /\ z.buffer = b /\ z.out = s.out
      BY <1>1, <2>1 DEF IsState
    <2>3. c \in 0 .. (k + 1) /\ (k + 1) - c < LINE
      BY <1>3, <1>5, <1>7
    <2>4. DumpState(z, k + 1)
      BY <1>2, <1>4, <2>2, <2>3 DEF DumpState
    <2>5. QED
      BY <2>4 DEF z
  <1>8. CASE ~(Len(b) < LINE)
    <2>1. z = [s EXCEPT !.buffer = <<>>, !.out = @ \o BinaryToHex(b)]
      BY <1>6, <1>8
    <2>2. IsState(z) /\ z.status = "running" /\ z.buffer = <<>> /\ z.out = s.out \o BinaryToHex(b)
      BY <1>1, <2>1 DEF IsState
    <2>3. c + LINE = k + 1
      BY <1>2, <1>3, <1>5, <1>8, LineWhole
    <2>4. (k + 1) % LINE = 0 /\ (k + 1) - (k + 1) < LINE /\ k + 1 \in 0 .. (k + 1)
      <3>1. (c + LINE) % LINE = LINE % LINE
        BY <1>2, <1>3, LineWhole, LineMod
      <3>2. QED
        BY <1>3, <2>3, <3>1, LineWhole
    <2>5. z.out = HexText(Cut(input, 0, k + 1))
      BY <1>2, <1>3, <1>4, <2>2, DumpLine
    <2>6. z.buffer = Cut(input, k + 1, k + 1)
      BY <1>3, <2>2, CutEnds
    <2>7. DumpState(z, k + 1)
      BY <2>2, <2>4, <2>5, <2>6 DEF DumpState
    <2>8. QED
      BY <2>7 DEF z
  <1>9. QED
    BY <1>7, <1>8

\* What is left at the end of the input is written behind the lines.
LEMMA DumpEndIs ==
  ASSUME input \in Seq(Byte), NEW s, DumpState(s, Len(input))
  PROVE  DumpEnd(s).out = HexText(input) /\ DumpEnd(s).status = "done"
  <1> DEFINE n == Len(input)
  <1>1. IsState(s) /\ n \in Nat
    BY DEF DumpState
  <1>2. PICK c \in 0 .. n : /\ c % LINE = 0
                            /\ s.buffer = Cut(input, c, n)
                            /\ s.out = HexText(Cut(input, 0, c))
    BY DEF DumpState
  <1>3. c \in Nat /\ c <= n /\ n <= Len(input)
    BY <1>1
  <1> DEFINE b == Cut(input, c, n)
  <1>4. Len(s.buffer) = n - c /\ s.buffer \in Seq(Byte)
    <2>1. b \in Seq(Byte) /\ Len(b) = n - c
      BY <1>1, <1>3, CutIs
    <2>. HIDE DEF b
    <2>2. s.buffer = b
      BY <1>2 DEF b
    <2>3. QED
      BY <2>1, <2>2
  <1>5. /\ DumpEnd(s).status = "done"
        /\ DumpEnd(s).out = IF s.buffer = <<>> THEN s.out ELSE s.out \o BinaryToHex(s.buffer)
    BY <1>1 DEF DumpEnd, IsState
  <1>6. Cut(input, 0, n) = input
    BY CutEnds
  <1>7. CASE s.buffer = <<>>
    <2>1. c = n
      BY <1>1, <1>3, <1>4, <1>7
    <2>2. QED
      BY <1>2, <1>5, <1>6, <1>7, <2>1
  <1>8. CASE s.buffer # <<>>
    <2>1. c < n
      BY <1>1, <1>3, <1>4, <1>8, EmptySeq
    <2>2. s.out \o BinaryToHex(s.buffer) = HexText(Cut(input, 0, n))
      BY <1>1, <1>2, <1>3, <2>1, DumpLine
    <2>3. QED
      BY <1>5, <1>6, <1>8, <2>2
  <1>9. QED
    BY <1>7, <1>8

-----------------------------------------------------------------------------
(* The loop over what a read returned, for both programs.                  *)

\* The same up to the end, one element of a part, and a part of a part.
LEMMA EndType ==
  ASSUME NEW S, NEW q \in Seq(S), NEW a \in Nat, a <= Len(q)
  PROVE  Cut(q, a, Len(q)) \in Seq(S) /\ Len(Cut(q, a, Len(q))) = Len(q) - a
  <1> DEFINE l == Len(q)
  <1>1. l \in Nat /\ a <= l /\ l <= Len(q)
    OBVIOUS
  <1>. HIDE DEF l
  <1>2. Cut(q, a, l) \in Seq(S) /\ Len(Cut(q, a, l)) = l - a
    BY <1>1, CutIs
  <1>3. QED
    BY <1>2 DEF l

LEMMA EndJoin ==
  ASSUME NEW S, NEW q \in Seq(S), NEW a \in Nat, NEW b \in Nat, a <= b, b <= Len(q)
  PROVE  Cut(q, a, b) \o Cut(q, b, Len(q)) = Cut(q, a, Len(q))
  <1> DEFINE l == Len(q)
  <1>1. l \in Nat /\ b <= l /\ l <= Len(q)
    OBVIOUS
  <1>. HIDE DEF l
  <1>2. Cut(q, a, b) \o Cut(q, b, l) = Cut(q, a, l)
    BY <1>1, CutJoin
  <1>3. QED
    BY <1>2 DEF l

LEMMA CutOfEnd ==
  ASSUME NEW S, NEW q \in Seq(S), NEW k \in Nat, NEW m \in Nat, NEW u \in Seq(S), NEW e \in Nat,
         Len(u) = e, e = Len(q) - k, m <= e
  PROVE  (\A i \in 1 .. e : u[i] = q[k + i]) => Cut(u, m, e) = Cut(q, k + m, Len(q))
  <1> DEFINE l == Len(q)
             a == k + m
             v == Cut(q, a, l)
             w == Cut(u, m, e)
             n == e - m
  <1>1. /\ l \in Nat /\ a \in Nat /\ a <= l /\ l <= Len(q) /\ e <= Len(u)
        /\ n \in Nat /\ n = l - a
    OBVIOUS
  <1>. HIDE DEF l, a
  <1>2. v \in Seq(S) /\ Len(v) = l - a
    BY <1>1, CutIs
  <1>3. w \in Seq(S) /\ Len(w) = e - m
    BY <1>1, CutIs
  <1>4. HAVE \A i \in 1 .. e : u[i] = q[k + i]
  <1>5. ASSUME NEW i \in 1 .. n PROVE w[i] = v[i]
    <2>1. m + i \in 1 .. e /\ k + (m + i) = a + i /\ i \in 1 .. (e - m) /\ i \in 1 .. (l - a)
      BY <1>1 DEF a
    <2>2. w[i] = u[m + i]
      <3>1. e <= Len(u) /\ i \in 1 .. (e - m)
        BY <1>1, <2>1
      <3>2. QED
        BY <3>1, CutPlace, ZenonT(30)
    <2>3. v[i] = q[a + i]
      BY <1>1, <2>1, CutPlace
    <2>4. u[m + i] = q[k + (m + i)]
      BY <1>4, <2>1
    <2>5. QED
      BY <2>1, <2>2, <2>3, <2>4
  <1>. HIDE DEF v, w
  <1>6. v = w
    BY <1>1, <1>2, <1>3, <1>5, SeqEqual
  <1>7. QED
    BY <1>6 DEF v, w, a, l

LEMMA CutCut ==
  ASSUME NEW S, NEW q \in Seq(S), NEW k \in Nat, k <= Len(q), NEW m \in Nat, m <= Len(q) - k
  PROVE  LET u == Cut(q, k, Len(q))
         IN  /\ u \in Seq(S) /\ Len(u) = Len(q) - k
             /\ \A i \in 1 .. (Len(q) - k) : u[i] = q[k + i]
             /\ SubSeq(u, m + 1, Len(u)) = Cut(q, k + m, Len(q))
  <1> DEFINE u == Cut(q, k, Len(q))
             e == Len(u)
  <1>1. Len(q) \in Nat /\ Len(q) <= Len(q)
    OBVIOUS
  <1>2. u \in Seq(S) /\ Len(u) = Len(q) - k /\ \A i \in 1 .. (Len(q) - k) : u[i] = q[k + i]
    BY <1>1, CutIs
  <1>. HIDE DEF u
  <1>3. /\ e \in Nat /\ Len(u) = e /\ e = Len(q) - k /\ m <= e
        /\ \A i \in 1 .. e : u[i] = q[k + i]
    BY <1>2
  <1>. HIDE DEF e
  <1>4. Cut(u, m, e) = Cut(q, k + m, Len(q))
    <2>1. u \in Seq(S)
      BY <1>2
    <2>2. QED
      BY <2>1, <1>3, CutOfEnd
  <1>5. QED
    BY <1>2, <1>4 DEF u, e, Cut

LEMMA EvenAdded ==
  ASSUME NEW n \in Nat, NEW m \in Nat
  PROVE  /\ (2 * n + m) % 2 = m % 2
         /\ (2 * n + m) \div 2 = n + m \div 2
         /\ m \div 2 \in Nat
         /\ m % 2 = 0 <=> m = 2 * (m \div 2)
  <1> DEFINE d == 2 * n + m
  <1>1. m \div 2 \in Nat /\ m % 2 \in Nat /\ m % 2 < 2 /\ m = 2 * (m \div 2) + (m % 2)
    BY Divided
  <1>2. d \in Nat /\ d = 2 * n + m
    OBVIOUS
  <1>. HIDE DEF d
  <1>3. d \div 2 \in Nat /\ d % 2 \in Nat /\ d % 2 < 2 /\ d = 2 * (d \div 2) + (d % 2)
    BY <1>2, Divided
  <1>4. d \div 2 = n + m \div 2 /\ d % 2 = m % 2
    BY <1>1, <1>2, <1>3
  <1>5. QED
    BY <1>1, <1>4 DEF d

\* Behind an even number of digits pairs begin as in a text of their own.
LEMMA PairsJoin ==
  ASSUME NEW S, NEW a \in Seq(S), NEW b \in Seq(S), NEW n \in Nat, GetSize(a) = 2 * n
  PROVE  /\ \A p \in Nat : p <= Len(a) => (p \in Pairs(a \o b) <=> p \in Pairs(a))
         /\ \A p \in Nat : p > 0 => (Len(a) + p \in Pairs(a \o b) <=> p \in Pairs(b))
  <1> DEFINE d == a \o b
             l == Len(a)
  <1>1. /\ \A p \in Nat : p <= l => (p \in Signs(d) <=> p \in Signs(a))
        /\ \A p \in Nat : l + p \in Signs(d) /\ p > 0 <=> p \in Signs(b)
    BY SignsJoin
  <1>2. /\ \A p \in Nat : p <= l => Before(d, p) = Before(a, p)
        /\ \A p \in Nat : p > 0 => Before(d, l + p) = 2 * n + Before(b, p)
    BY BeforeJoin
  <1>3. \A p \in Nat : Before(b, p) \in Nat
    BY SignsFinite
  <1>. HIDE DEF d, l
  <1>4. ASSUME NEW p \in Nat, p <= l PROVE p \in Pairs(d) <=> p \in Pairs(a)
    BY <1>1, <1>2, <1>4 DEF Pairs
  <1>5. ASSUME NEW p \in Nat, p > 0 PROVE l + p \in Pairs(d) <=> p \in Pairs(b)
    <2>1. (2 * n + Before(b, p)) % 2 = Before(b, p) % 2
      BY <1>3, EvenAdded
    <2>2. Before(d, l + p) % 2 = Before(b, p) % 2
      BY <1>2, <1>5, <2>1
    <2>3. l + p \in Signs(d) <=> p \in Signs(b)
      BY <1>1, <1>5
    <2>4. QED
      BY <2>2, <2>3 DEF Pairs
  <1>6. QED
    BY <1>4, <1>5 DEF d, l

\* The pairs of a legible text are within it.
LEMMA PairIn ==
  ASSUME NEW S, NEW q \in Seq(S), NEW p \in Pairs(q)
  PROVE  /\ p \in 1 .. Len(q) /\ p \in Nat /\ p > 0 /\ p + 1 \in Nat /\ p \in Signs(q)
         /\ Legible(q) => p + 1 \in 1 .. Len(q) /\ p + 1 \in Signs(q)
         /\ Before(q, p) \in Nat /\ Before(q, p) < GetSize(q) /\ Before(q, p) % 2 = 0
  <1>1. /\ Signs(q) \in SUBSET (1 .. Len(q))
        /\ \A x \in Nat : Before(q, x) \in Nat
        /\ \A x \in Signs(q) : Before(q, x) < GetSize(q)
    BY SignsFinite
  <1>2. p \in Signs(q) /\ Before(q, p) % 2 = 0
    BY DEF Pairs
  <1>3. Legible(q) => p + 1 \in Signs(q)
    BY DEF Legible
  <1>4. p \in 1 .. Len(q) /\ p \in Nat /\ p > 0 /\ p + 1 \in Nat
    <2>1. Len(q) \in Nat /\ p \in 1 .. Len(q)
      BY <1>1, <1>2
    <2>2. QED
      BY <2>1
  <1>5. QED
    BY <1>1, <1>2, <1>3, <1>4

\* Two legible texts make one, and below the other way round.
LEMMA LegibleJoin ==
  ASSUME NEW S, NEW a \in Seq(S), NEW b \in Seq(S), Legible(a), Legible(b),
         NEW n \in Nat, GetSize(a) = 2 * n
  PROVE  Legible(a \o b)
  <1> DEFINE d == a \o b
             l == Len(a)
  <1>1. /\ \A p \in Nat : p <= l => (p \in Signs(d) <=> p \in Signs(a))
        /\ \A p \in Nat : l + p \in Signs(d) /\ p > 0 <=> p \in Signs(b)
        /\ \A p \in 1 .. l : d[p] = a[p]
        /\ \A p \in 1 .. Len(b) : d[l + p] = b[p]
    BY SignsJoin
  <1>2. /\ \A p \in Nat : p <= l => (p \in Pairs(d) <=> p \in Pairs(a))
        /\ \A p \in Nat : p > 0 => (l + p \in Pairs(d) <=> p \in Pairs(b))
    BY PairsJoin
  <1>3. l \in Nat /\ d \in Seq(S)
    BY ConcatProperties
  <1>4. /\ Signs(a) \in SUBSET (1 .. l) /\ Signs(b) \in SUBSET (1 .. Len(b))
        /\ Signs(d) \in SUBSET (1 .. Len(d))
    BY <1>3, SignsFinite
  <1>. HIDE DEF d, l
  <1>5. ASSUME NEW p \in Nat, p > l
        PROVE  p - l \in Nat /\ p - l > 0 /\ l + (p - l) = p /\ l + ((p - l) + 1) = p + 1
    BY <1>3, <1>5
  <1>6. ASSUME NEW p \in Signs(d) PROVE ~NonHex(d[p])
    <2>1. p \in Nat /\ p > 0
      BY <1>4
    <2>2. CASE p <= l
      BY <1>1, <1>3, <2>1, <2>2 DEF Legible
    <2>3. CASE ~(p <= l)
      <3>1. p - l \in Nat /\ p - l > 0 /\ l + (p - l) = p
        BY <1>3, <2>1, <2>3
      <3>2. p - l \in Signs(b)
        BY <1>1, <3>1
      <3>3. d[p] = b[p - l]
        BY <1>1, <1>4, <3>1, <3>2
      <3>4. QED
        BY <3>2, <3>3 DEF Legible
    <2>4. QED
      BY <2>2, <2>3
  <1>7. ASSUME NEW p \in Pairs(d) PROVE p + 1 \in Signs(d)
    <2>1. p \in Nat /\ p > 0
      BY <1>4 DEF Pairs
    <2>2. CASE p <= l
      <3>1. p \in Pairs(a)
        BY <1>2, <2>1, <2>2
      <3>2. p + 1 \in Signs(a)
        BY <3>1 DEF Legible
      <3>3. p + 1 \in Nat /\ p + 1 <= l
        BY <1>3, <1>4, <3>2
      <3>4. QED
        BY <1>1, <3>2, <3>3
    <2>3. CASE ~(p <= l)
      <3>1. p - l \in Nat /\ p - l > 0 /\ l + (p - l) = p /\ l + ((p - l) + 1) = p + 1
        BY <1>3, <2>1, <2>3
      <3>2. p - l \in Pairs(b)
        BY <1>2, <3>1
      <3>3. (p - l) + 1 \in Signs(b) /\ (p - l) + 1 \in Nat
        BY <3>1, <3>2 DEF Legible
      <3>4. QED
        BY <1>1, <3>1, <3>3
    <2>4. QED
      BY <2>2, <2>3
  <1>8. QED
    BY <1>6, <1>7 DEF Legible, d

\* A part of a legible text that holds an even number of digits is legible, and so is
\* what follows it.
LEMMA LegibleParts ==
  ASSUME NEW S, NEW a \in Seq(S), NEW b \in Seq(S), Legible(a \o b),
         NEW n \in Nat, GetSize(a) = 2 * n
  PROVE  Legible(a) /\ Legible(b)
  <1> DEFINE d == a \o b
             l == Len(a)
  <1>1. /\ \A p \in Nat : p <= l => (p \in Signs(d) <=> p \in Signs(a))
        /\ \A p \in Nat : l + p \in Signs(d) /\ p > 0 <=> p \in Signs(b)
        /\ \A p \in 1 .. l : d[p] = a[p]
        /\ \A p \in 1 .. Len(b) : d[l + p] = b[p]
    BY SignsJoin
  <1>2. /\ \A p \in Nat : p <= l => (p \in Pairs(d) <=> p \in Pairs(a))
        /\ \A p \in Nat : p > 0 => (l + p \in Pairs(d) <=> p \in Pairs(b))
    BY PairsJoin
  <1>3. l \in Nat
    OBVIOUS
  <1>4. /\ Signs(a) \in SUBSET (1 .. l) /\ Signs(b) \in SUBSET (1 .. Len(b))
        /\ IsFiniteSet(Signs(a))
    BY SignsFinite
  <1>5. Legible(d)
    OBVIOUS
  <1>. HIDE DEF d, l
  <1>6. ASSUME NEW p \in Signs(a) PROVE ~NonHex(a[p])
    BY <1>1, <1>4, <1>5 DEF Legible
  <1>7. ASSUME NEW p \in Signs(b) PROVE ~NonHex(b[p])
    <2>1. p \in 1 .. Len(b) /\ p \in Nat
      BY <1>4
    <2>2. l + p \in Signs(d) /\ d[l + p] = b[p]
      BY <1>1, <2>1
    <2>3. QED
      BY <1>5, <2>2 DEF Legible
  <1>8. ASSUME NEW p \in Pairs(b) PROVE p + 1 \in Signs(b)
    <2>1. p \in Nat /\ p > 0 /\ p + 1 \in Nat
      BY PairIn
    <2>2. l + p \in Pairs(d)
      BY <1>2, <2>1
    <2>3. (l + p) + 1 \in Signs(d) /\ (l + p) + 1 = l + (p + 1)
      BY <1>3, <1>5, <2>1, <2>2 DEF Legible
    <2>4. QED
      BY <1>1, <2>1, <2>3
  <1>9. ASSUME NEW p \in Pairs(a) PROVE p + 1 \in Signs(a)
    <2>1. p \in 1 .. l /\ p \in Nat /\ p + 1 \in Nat /\ p \in Signs(a)
          /\ Before(a, p) \in Nat /\ Before(a, p) % 2 = 0
      BY PairIn DEF l
    <2>2. p + 1 \in Signs(d)
      BY <1>2, <1>3, <1>5, <2>1 DEF Legible
    <2>3. CASE p < l
      <3>1. p + 1 <= l
        BY <1>3, <2>1, <2>3
      <3>2. QED
        BY <1>1, <2>1, <2>2, <3>1
    <2>4. CASE p = l
      <3>1. \A x \in Signs(a) : x < p \/ x = p
        BY <1>3, <1>4, <2>4
      <3> DEFINE T == {x \in Signs(a) : x < p}
      <3>2. Signs(a) = T \cup {p} /\ p \notin T
        <4>1. ~(p < p)
          BY <2>1
        <4>2. p \in Signs(a)
          BY <2>1
        <4>3. QED
          BY <3>1, <4>1, <4>2
      <3>3. IsFiniteSet(T)
        BY <1>4, FS_Subset
      <3>4. Cardinality(T \cup {p}) = Cardinality(T) + 1
        BY <3>2, <3>3, FS_AddElement
      <3>5. GetSize(a) = Before(a, p) + 1
        BY <3>2, <3>4 DEF GetSize, Before
      <3>6. Before(a, p) = 2 * (Before(a, p) \div 2) /\ Before(a, p) \div 2 \in Nat
        BY <2>1, EvenAdded
      <3>7. QED
        BY <3>5, <3>6
    <2>5. QED
      BY <1>3, <2>1, <2>3, <2>4
  <1>10. QED
    BY <1>6, <1>7, <1>8, <1>9 DEF Legible

\* The octets of a text and of what follows it, one after the other.
LEMMA StandsJoin ==
  ASSUME NEW S, NEW a \in Seq(S), NEW b \in Seq(S), NEW x \in Seq(Byte), NEW y \in Seq(Byte),
         StandsFor(a, x), StandsFor(b, y)
  PROVE  StandsFor(a \o b, x \o y)
  <1> DEFINE d == a \o b
             z == x \o y
             l == Len(a)
             n == Len(x)
             m == Len(y)
             Holds(p) == z[1 + Before(d, p) \div 2] = ValueOf(d[p], d[p + 1])
  <1>1. /\ GetSize(a) = 2 * n /\ GetSize(b) = 2 * m /\ n \in Nat /\ m \in Nat
        /\ Legible(a) /\ Legible(b) /\ l \in Nat /\ d \in Seq(S)
    <2>1. d \in Seq(S)
      BY ConcatProperties
    <2>2. QED
      BY <2>1 DEF StandsFor
  <1>2. /\ \A p \in Pairs(a) : x[1 + Before(a, p) \div 2] = ValueOf(a[p], a[p + 1])
        /\ \A p \in Pairs(b) : y[1 + Before(b, p) \div 2] = ValueOf(b[p], b[p + 1])
    BY DEF StandsFor
  <1>3. Len(z) = n + m /\ \A i \in 1 .. n + m : z[i] = IF i <= n THEN x[i] ELSE y[i - n]
    BY ConcatProperties
  <1>4. /\ \A p \in Nat : p <= l => Before(d, p) = Before(a, p)
        /\ \A p \in Nat : p > 0 => Before(d, l + p) = GetSize(a) + Before(b, p)
        /\ GetSize(d) = GetSize(a) + GetSize(b)
    BY BeforeJoin
  <1>5. /\ \A p \in 1 .. l : d[p] = a[p]
        /\ \A p \in 1 .. Len(b) : d[l + p] = b[p]
    BY SignsJoin
  <1>6. /\ \A p \in Nat : p <= l => (p \in Pairs(d) <=> p \in Pairs(a))
        /\ \A p \in Nat : p > 0 => (l + p \in Pairs(d) <=> p \in Pairs(b))
    BY <1>1, PairsJoin
  <1>7. Legible(d)
    BY <1>1, LegibleJoin
  <1>8. /\ \A p \in Pairs(a) : /\ p \in 1 .. l /\ p \in Nat /\ p + 1 \in 1 .. l
                               /\ Before(a, p) \in Nat /\ Before(a, p) < 2 * n
                               /\ Before(a, p) % 2 = 0
        /\ \A p \in Pairs(b) : /\ p \in 1 .. Len(b) /\ p \in Nat /\ p + 1 \in 1 .. Len(b)
                               /\ Before(b, p) \in Nat /\ Before(b, p) < 2 * m
                               /\ Before(b, p) % 2 = 0
    BY <1>1, PairIn
  <1>9. \A p \in Pairs(d) : p \in Nat /\ p > 0
    BY <1>1, PairIn
  <1>. HIDE DEF d, z, l, n, m
  <1>10. ASSUME NEW p \in Pairs(d), p <= l PROVE Holds(p)
    <2> DEFINE h == Before(a, p) \div 2
    <2>1. p \in Pairs(a)
      BY <1>6, <1>9, <1>10
    <2>2. p \in 1 .. l /\ p \in Nat /\ p + 1 \in 1 .. l
          /\ Before(a, p) \in Nat /\ Before(a, p) < 2 * n /\ Before(a, p) % 2 = 0
      BY <1>8, <2>1
    <2>3. h \in Nat /\ Before(a, p) = 2 * h
      BY <2>2, EvenAdded
    <2>4. Before(d, p) = Before(a, p)
      BY <1>4, <1>10, <2>2
    <2>5. x[1 + h] = ValueOf(a[p], a[p + 1])
      BY <1>2, <2>1
    <2>6. d[p] = a[p] /\ d[p + 1] = a[p + 1]
      BY <1>5, <2>2
    <2>7. Before(d, p) \div 2 = h
      BY <2>4
    <2>. HIDE DEF h
    <2>8. 1 + h \in 1 .. n + m /\ 1 + h <= n
      BY <1>1, <2>2, <2>3
    <2>9. z[1 + h] = x[1 + h]
      BY <1>3, <2>8
    <2>10. QED
      BY <2>5, <2>6, <2>7, <2>9
  <1>11. ASSUME NEW p \in Pairs(d), ~(p <= l) PROVE Holds(p)
    <2> DEFINE r == p - l
               h == Before(b, r) \div 2
    <2>1. r \in Nat /\ r > 0 /\ l + r = p /\ l + (r + 1) = p + 1
      BY <1>1, <1>9, <1>11
    <2>. HIDE DEF r
    <2>2. r \in Pairs(b)
      BY <1>6, <2>1
    <2>3. r \in 1 .. Len(b) /\ r + 1 \in 1 .. Len(b)
          /\ Before(b, r) \in Nat /\ Before(b, r) < 2 * m /\ Before(b, r) % 2 = 0
      BY <1>8, <2>2
    <2>4. h \in Nat /\ Before(b, r) = 2 * h
      BY <2>3, EvenAdded
    <2>5. Before(d, p) = 2 * n + Before(b, r)
      BY <1>1, <1>4, <2>1
    <2>6. Before(d, p) \div 2 = n + h
      BY <1>1, <2>3, <2>5, EvenAdded
    <2>7. y[1 + h] = ValueOf(b[r], b[r + 1])
      BY <1>2, <2>2
    <2>8. d[p] = b[r] /\ d[p + 1] = b[r + 1]
      BY <1>5, <2>1, <2>3
    <2>. HIDE DEF h
    <2>9. 1 + (n + h) \in 1 .. n + m /\ ~(1 + (n + h) <= n) /\ (1 + (n + h)) - n = 1 + h
      BY <1>1, <2>3, <2>4
    <2>10. z[1 + (n + h)] = y[1 + h]
      BY <1>3, <2>9
    <2>11. QED
      BY <2>6, <2>7, <2>8, <2>10
  <1>12. 2 * Len(z) = GetSize(d)
    BY <1>1, <1>3, <1>4
  <1>13. \A p \in Pairs(d) : Holds(p)
    BY <1>10, <1>11
  <1>14. QED
    BY <1>7, <1>12, <1>13 DEF StandsFor, d, z

-----------------------------------------------------------------------------
(* hex_to_binary.                                                          *)

LEMMA DigitsAre ==
  /\ Range(Digits) = {"0", "1", "2", "3", "4", "5", "6", "7", "8", "9", "A", "B", "C", "D", "E", "F"}
  /\ Range(Lower) = {"a", "b", "c", "d", "e", "f"}
  <1>1. DOMAIN Digits = 1 .. 16 /\ DOMAIN Lower = 1 .. 6
    BY DEF Digits, Lower
  <1>2. ASSUME NEW i \in 1 .. 16
        PROVE  i = 1 \/ i = 2 \/ i = 3 \/ i = 4 \/ i = 5 \/ i = 6 \/ i = 7 \/ i = 8
               \/ i = 9 \/ i = 10 \/ i = 11 \/ i = 12 \/ i = 13 \/ i = 14 \/ i = 15 \/ i = 16
    OBVIOUS
  <1>3. Range(Digits) = {Digits[i] : i \in 1 .. 16} /\ Range(Lower) = {Lower[i] : i \in 1 .. 6}
    BY <1>1 DEF Range
  <1>4. Range(Digits) = {"0", "1", "2", "3", "4", "5", "6", "7", "8", "9", "A", "B", "C", "D", "E", "F"}
    BY <1>2, <1>3 DEF Digits
  <1>5. ASSUME NEW i \in 1 .. 6 PROVE i = 1 \/ i = 2 \/ i = 3 \/ i = 4 \/ i = 5 \/ i = 6
    OBVIOUS
  <1>6. Range(Lower) = {"a", "b", "c", "d", "e", "f"}
    BY <1>3, <1>5 DEF Lower
  <1>7. QED
    BY <1>4, <1>6

LEMMA HexNotBlank == ASSUME NEW c \in Space PROVE NonHex(c)
  BY DigitsAre DEF NonHex, Space

LEMMA NibbleType == ASSUME NEW c, ~NonHex(c) PROVE Nibble(c) \in 0 .. 15
  <1>1. DOMAIN Digits = 1 .. 16 /\ DOMAIN Lower = 1 .. 6
    BY DEF Digits, Lower
  <1>2. CASE c \in Range(Lower)
    <2>1. \E i \in DOMAIN Lower : Lower[i] = c
      BY <1>2 DEF Range
    <2> DEFINE n == CHOOSE i \in DOMAIN Lower : Lower[i] = c
    <2>2. n \in DOMAIN Lower
      BY <2>1
    <2>3. Nibble(c) = 9 + n
      BY <1>2 DEF Nibble
    <2>. HIDE DEF n
    <2>4. QED
      BY <1>1, <2>2, <2>3
  <1>3. CASE c \notin Range(Lower)
    <2>1. \E i \in DOMAIN Digits : Digits[i] = c
      BY <1>3 DEF Range, NonHex
    <2> DEFINE n == CHOOSE i \in DOMAIN Digits : Digits[i] = c
    <2>2. n \in DOMAIN Digits
      BY <2>1
    <2>3. Nibble(c) = n - 1
      BY <1>3 DEF Nibble
    <2>. HIDE DEF n
    <2>4. QED
      BY <1>1, <2>2, <2>3
  <1>4. QED
    BY <1>2, <1>3

LEMMA ValueType ==
  ASSUME NEW c, NEW d, ~NonHex(c), ~NonHex(d)
  PROVE  ValueOf(c, d) \in Byte
  BY NibbleType DEF ValueOf, Byte

\* The empty text, and a blank one.
LEMMA EmptyText == Signs(<<>>) = {} /\ GetSize(<<>>) = 0 /\ StandsFor(<<>>, <<>>)
  <1>1. Signs(<<>>) = {}
    <2>1. DOMAIN <<>> = {}
      OBVIOUS
    <2>2. QED
      BY <2>1 DEF Signs
  <1>2. GetSize(<<>>) = 0
    BY <1>1, FS_EmptySet DEF GetSize
  <1>3. Len(<<>>) = 0
    OBVIOUS
  <1>4. QED
    BY <1>1, <1>2, <1>3 DEF StandsFor, Legible, Pairs

LEMMA BlankText ==
  ASSUME NEW S, NEW q \in Seq(S), GetSize(q) = 0
  PROVE  StandsFor(q, <<>>)
  <1>1. IsFiniteSet(Signs(q))
    BY SignsFinite
  <1>2. Signs(q) = {}
    BY <1>1, FS_EmptySet DEF GetSize
  <1>3. Len(<<>>) = 0
    OBVIOUS
  <1>4. QED
    BY <1>2, <1>3 DEF StandsFor, Legible, Pairs

LEMMA BlankLetter ==
  ASSUME NEW c \in Space
  PROVE  GetSize(<<c>>) = 0
  <1>1. Signs(<<c>>) = {}
    <2>1. DOMAIN <<c>> = {1} /\ <<c>>[1] = c
      OBVIOUS
    <2>2. QED
      BY <2>1 DEF Signs
  <1>2. QED
    BY <1>1, FS_EmptySet DEF GetSize

LEMMA PairText ==
  ASSUME NEW c, NEW d, ~NonHex(c), ~NonHex(d)
  PROVE  GetSize(<<c, d>>) = 2 /\ StandsFor(<<c, d>>, <<ValueOf(c, d)>>)
  <1> DEFINE q == <<c, d>>
  <1>1. c \notin Space /\ d \notin Space
    BY HexNotBlank
  <1>2. DOMAIN q = {1, 2} /\ q[1] = c /\ q[2] = d
    OBVIOUS
  <1>. HIDE DEF q
  <1>3. Signs(q) = {1, 2}
    BY <1>1, <1>2 DEF Signs
  <1>4. {x \in Signs(q) : x < 1} = {} /\ {x \in Signs(q) : x < 2} = {1}
    BY <1>3
  <1>5. Cardinality({1, 2}) = 2 /\ Cardinality({}) = 0 /\ Cardinality({1}) = 1
    <2>1. IsFiniteSet({}) /\ Cardinality({}) = 0
      BY FS_EmptySet
    <2>2. Cardinality({1}) = 1 /\ IsFiniteSet({1})
      BY FS_Singleton
    <2>3. {1, 2} = {1} \cup {2} /\ 2 \notin {1}
      OBVIOUS
    <2>4. Cardinality({1} \cup {2}) = Cardinality({1}) + 1
      BY <2>2, <2>3, FS_AddElement
    <2>5. QED
      BY <2>1, <2>2, <2>3, <2>4
  <1>6. GetSize(q) = 2 /\ Before(q, 1) = 0 /\ Before(q, 2) = 1
    BY <1>3, <1>4, <1>5 DEF GetSize, Before
  <1>7. 0 % 2 = 0 /\ 1 % 2 = 1 /\ 0 \div 2 = 0
    OBVIOUS
  <1>8. Pairs(q) = {1}
    BY <1>3, <1>6, <1>7 DEF Pairs
  <1>9. Legible(q)
    BY <1>2, <1>3, <1>8 DEF Legible
  <1> DEFINE v == ValueOf(c, d)
  <1>10. Len(<<v>>) = 1 /\ <<v>>[1] = v
    OBVIOUS
  <1>11. StandsFor(q, <<v>>)
    BY <1>2, <1>6, <1>7, <1>8, <1>9, <1>10 DEF StandsFor
  <1>12. QED
    BY <1>6, <1>11 DEF q

\* What hex_to_binary makes of a text from place p on, f of the places behind it.
Onward(f, q, p) ==
    IF p > Len(q) THEN <<>>
    ELSE IF q[p] \in Space THEN f[p + 1]
    ELSE IF p = Len(q) \/ NonHex(q[p]) \/ NonHex(q[p + 1]) THEN Null
    ELSE IF f[p + 2] = Null THEN Null
    ELSE <<ValueOf(q[p], q[p + 1])>> \o f[p + 2]

IsOnward(f, q, b) == f = [p \in b .. (Len(q) + 1) |-> Onward(f, q, p)]

Decoded(q) == CHOOSE f : IsOnward(f, q, 1)

LEMMA HexToBinaryIs ==
  ASSUME NEW q
  PROVE  HexToBinary(q) = Decoded(q)[1]
  BY DEF HexToBinary, Decoded, IsOnward, Onward

\* The recursion goes up to the end of the text, and is founded from there down.
LEMMA DecodedIs ==
  ASSUME NEW S, NEW q \in Seq(S)
  PROVE  \A p \in 1 .. (Len(q) + 1) : Decoded(q)[p] = Onward(Decoded(q), q, p)
  <1> DEFINE l == Len(q)
             Bad == {k \in 0 .. l : ~ \E f : IsOnward(f, q, l + 1 - k)}
  <1>1. l \in Nat
    OBVIOUS
  <1>2. ASSUME NEW f, NEW b \in Nat, 1 <= b, b <= l + 1, NEW p \in b .. (l + 1), NEW g,
               \A r \in b .. (l + 1) : r > p => g[r] = f[r]
        PROVE  Onward(g, q, p) = Onward(f, q, p)
    <2>1. CASE p > l
      BY <2>1 DEF Onward
    <2>2. CASE ~(p > l) /\ q[p] \in Space
      <3>1. p + 1 \in b .. (l + 1) /\ p + 1 > p
        BY <1>1, <2>2
      <3>2. g[p + 1] = f[p + 1]
        BY <1>2, <3>1
      <3>3. QED
        BY <2>2, <3>2 DEF Onward
    <2>3. CASE ~(p > l) /\ q[p] \notin Space /\ (p = l \/ NonHex(q[p]) \/ NonHex(q[p + 1]))
      BY <2>3 DEF Onward
    <2>4. CASE ~(p > l) /\ q[p] \notin Space /\ ~(p = l \/ NonHex(q[p]) \/ NonHex(q[p + 1]))
      <3>1. p + 2 \in b .. (l + 1) /\ p + 2 > p
        BY <1>1, <2>4
      <3>2. g[p + 2] = f[p + 2]
        BY <1>2, <3>1
      <3>3. QED
        BY <2>4, <3>2 DEF Onward
    <2>5. QED
      BY <2>1, <2>2, <2>3, <2>4
  <1>3. \E f : IsOnward(f, q, l + 1)
    <2> DEFINE f == [p \in (l + 1) .. (l + 1) |-> <<>>]
    <2>1. \A p \in (l + 1) .. (l + 1) : Onward(f, q, p) = <<>>
      BY <1>1 DEF Onward
    <2>2. f = [p \in (l + 1) .. (l + 1) |-> Onward(f, q, p)]
      BY <2>1
    <2>3. QED
      BY <2>2 DEF IsOnward
  <1>4. ASSUME NEW b \in Nat, 1 <= b, b <= l, NEW f, IsOnward(f, q, b + 1)
        PROVE  \E g : IsOnward(g, q, b)
    <2> DEFINE here == Onward(f, q, b)
               g == [p \in b .. (l + 1) |-> IF p = b THEN here ELSE f[p]]
    <2>. HIDE DEF here
    <2>1. \A p \in (b + 1) .. (l + 1) : f[p] = Onward(f, q, p)
      BY <1>4 DEF IsOnward
    <2>2. \A r \in b .. (l + 1) : r > b => g[r] = f[r]
      OBVIOUS
    <2>3. g[b] = Onward(g, q, b)
      <3>1. b \in b .. (l + 1) /\ b <= l + 1
        BY <1>1, <1>4
      <3>2. g[b] = here
        BY <3>1
      <3>. HIDE DEF g
      <3>3. Onward(g, q, b) = Onward(f, q, b)
        BY <1>2, <1>4, <2>2, <3>1
      <3>4. QED
        BY <3>2, <3>3 DEF here
    <2>4. ASSUME NEW p \in (b + 1) .. (l + 1) PROVE g[p] = Onward(g, q, p)
      <3>1. /\ p \in b .. (l + 1) /\ p > b /\ b <= l + 1
            /\ \A r \in b .. (l + 1) : r > p => r > b
        BY <1>1, <1>4
      <3>2. g[p] = f[p] /\ f[p] = Onward(f, q, p) /\ \A r \in b .. (l + 1) : r > p => g[r] = f[r]
        BY <2>1, <2>2, <3>1
      <3>. HIDE DEF g
      <3>3. Onward(g, q, p) = Onward(f, q, p)
        BY <1>2, <1>4, <3>1, <3>2
      <3>4. QED
        BY <3>2, <3>3
    <2>5. \A p \in b .. (l + 1) : g[p] = Onward(g, q, p)
      <3>. HIDE DEF g
      <3>1. \A p \in b .. (l + 1) : p = b \/ p \in (b + 1) .. (l + 1)
        BY <1>1, <1>4
      <3>2. QED
        BY <2>3, <2>4, <3>1
    <2>6. g = [p \in b .. (l + 1) |-> g[p]]
      OBVIOUS
    <2>7. IsOnward(g, q, b)
      BY <2>5, <2>6 DEF IsOnward
    <2>8. QED
      BY <2>7
  <1>5. Bad = {}
    <2>1. SUFFICES ASSUME Bad # {} PROVE FALSE
      OBVIOUS
    <2>2. Bad \in SUBSET Nat
      BY <1>1
    <2>3. PICK k \in Bad : \A j \in Bad : k <= j
      BY <2>1, <2>2, LeastLength
    <2>4. k \in 0 .. l /\ ~ \E f : IsOnward(f, q, l + 1 - k)
      BY <2>3
    <2>5. k # 0
      BY <1>1, <1>3, <2>4
    <2>6. /\ k - 1 \in 0 .. l /\ l + 1 - k \in Nat /\ 1 <= l + 1 - k /\ l + 1 - k <= l
          /\ l + 1 - (k - 1) = (l + 1 - k) + 1 /\ ~(k <= k - 1)
      BY <1>1, <2>4, <2>5
    <2>7. \E f : IsOnward(f, q, (l + 1 - k) + 1)
      BY <2>3, <2>6
    <2>8. QED
      BY <1>4, <2>4, <2>6, <2>7
  <1>6. \E f : IsOnward(f, q, 1)
    <2>1. l \in 0 .. l /\ l + 1 - l = 1
      BY <1>1
    <2>2. QED
      BY <1>5, <2>1
  <1> DEFINE h == Decoded(q)
  <1>7. IsOnward(h, q, 1)
    BY <1>6 DEF Decoded
  <1>. HIDE DEF h
  <1>8. \A p \in 1 .. (Len(q) + 1) : h[p] = Onward(h, q, p)
    BY <1>7 DEF IsOnward
  <1>9. QED
    BY <1>8 DEF h

LEMMA TwoLetters == ASSUME NEW c, NEW d PROVE <<c>> \o <<d>> = <<c, d>>
  <1> DEFINE a == <<c>>
             b == <<d>>
             e == <<c, d>>
             T == {c, d}
  <1>1. a \in Seq(T) /\ b \in Seq(T) /\ e \in Seq(T)
    OBVIOUS
  <1>2. Len(a) = 1 /\ Len(b) = 1 /\ Len(e) = 2 /\ a[1] = c /\ b[1] = d /\ e[1] = c /\ e[2] = d
    OBVIOUS
  <1>. HIDE DEF a, b, e, T
  <1>3. /\ a \o b \in Seq(T) /\ Len(a \o b) = Len(a) + Len(b)
        /\ \A i \in 1 .. Len(a) + Len(b) : (a \o b)[i] = IF i <= Len(a) THEN a[i] ELSE b[i - Len(a)]
    BY <1>1, ConcatProperties
  <1>4. Len(a \o b) = Len(e)
    BY <1>2, <1>3
  <1>5. ASSUME NEW i \in 1 .. Len(a \o b) PROVE (a \o b)[i] = e[i]
    <2>1. i = 1 \/ i = 2
      BY <1>2, <1>3
    <2>2. (a \o b)[i] = IF i <= 1 THEN a[i] ELSE b[i - 1]
      BY <1>2, <1>3, <2>1
    <2>3. QED
      BY <1>2, <2>1, <2>2
  <1>6. a \o b = e
    BY <1>1, <1>3, <1>4, <1>5, SeqEqual
  <1>7. QED
    BY <1>6 DEF a, b, e

LEMMA NullNoOctets == \A x \in Seq(Byte) : x # Null
  BY NullAssumption

\* A text that begins with a digit that has no second one right behind it.
LEMMA NoPair ==
  ASSUME NEW S, NEW q \in Seq(S), Len(q) > 0, q[1] \notin Space,
         Len(q) = 1 \/ NonHex(q[1]) \/ NonHex(q[2])
  PROVE  ~Legible(q)
  <1>1. SUFFICES ASSUME Legible(q) PROVE FALSE
    OBVIOUS
  <1>2. 1 \in Signs(q)
    BY DEF Signs
  <1>3. Signs(q) \in SUBSET (1 .. Len(q))
    BY SignsFinite
  <1>4. {x \in Signs(q) : x < 1} = {}
    BY <1>3
  <1>5. Before(q, 1) = 0 /\ 0 % 2 = 0
    <2>1. Before(q, 1) = 0
      BY <1>4, FS_EmptySet DEF Before
    <2>2. QED
      BY <2>1
  <1>6. 1 \in Pairs(q)
    BY <1>2, <1>5 DEF Pairs
  <1>7. 1 + 1 \in Signs(q) /\ 1 + 1 = 2
    BY <1>1, <1>6 DEF Legible
  <1>8. ~NonHex(q[1]) /\ ~NonHex(q[2]) /\ 2 \in 1 .. Len(q)
    BY <1>1, <1>2, <1>3, <1>7 DEF Legible
  <1>9. QED
    BY <1>8

\* hex_to_binary finds the octets of every text that has a meaning, and NULL otherwise.
LEMMA HexToBinaryLaw ==
  ASSUME NEW S, NEW q \in Seq(S)
  PROVE  IF Legible(q) THEN HexToBinary(q) \in Seq(Byte) /\ StandsFor(q, HexToBinary(q))
         ELSE HexToBinary(q) = Null
  <1> DEFINE l == Len(q)
             f == Decoded(q)
             Right(x, r) == IF Legible(x) THEN r \in Seq(Byte) /\ StandsFor(x, r) ELSE r = Null
             Bad == {k \in 0 .. l : ~Right(Cut(q, l - k, l), f[l - k + 1])}
  <1>1. l \in Nat /\ l <= Len(q)
    OBVIOUS
  <1>2. \A p \in 1 .. (l + 1) : f[p] = Onward(f, q, p)
    BY DecodedIs
  <1>. HIDE DEF f
  <1>3. \A k \in 0 .. l : Cut(q, k, l) \in Seq(S)
    <2>1. ASSUME NEW k \in 0 .. l PROVE Cut(q, k, l) \in Seq(S)
      <3>1. k \in Nat /\ k <= l
        BY <1>1
      <3>. HIDE DEF l
      <3>2. QED
        BY <1>1, <3>1, CutIs
    <2>2. QED
      BY <2>1
  <1>4. Right(Cut(q, l, l), f[l + 1])
    <2>1. Cut(q, l, l) = <<>>
      BY <1>1, CutEnds
    <2>2. f[l + 1] = <<>>
      <3>1. l + 1 \in 1 .. (l + 1) /\ l + 1 > l
        BY <1>1
      <3>2. f[l + 1] = Onward(f, q, l + 1)
        BY <1>2, <3>1
      <3>3. QED
        BY <3>1, <3>2 DEF Onward
    <2>3. <<>> \in Seq(Byte) /\ StandsFor(<<>>, <<>>) /\ Legible(<<>>)
      BY EmptyText DEF StandsFor
    <2>4. QED
      BY <2>1, <2>2, <2>3
  <1>5. ASSUME NEW x \in Seq(S), NEW c \in S, c \in Space, NEW r, Right(x, r)
        PROVE  Right(<<c>> \o x, r)
    <2>1. <<c>> \in Seq(S) /\ GetSize(<<c>>) = 2 * 0 /\ 0 \in Nat /\ <<>> \in Seq(Byte)
      BY <1>5, BlankLetter
    <2>2. StandsFor(<<c>>, <<>>)
      <3>1. GetSize(<<c>>) = 0
        BY <1>5, BlankLetter
      <3>2. QED
        BY <2>1, <3>1, BlankText
    <2>3. ASSUME Legible(x) PROVE StandsFor(<<c>> \o x, r) /\ r \in Seq(Byte)
      <3>1. r \in Seq(Byte) /\ StandsFor(x, r)
        BY <1>5, <2>3
      <3>2. StandsFor(<<c>> \o x, <<>> \o r)
        BY <2>1, <2>2, <3>1, StandsJoin
      <3>3. <<>> \o r = r
        BY <3>1, ConcatEmptySeq
      <3>4. QED
        BY <3>1, <3>2, <3>3
    <2>4. Legible(<<c>> \o x) => Legible(x)
      BY <2>1, LegibleParts
    <2>5. Legible(x) => Legible(<<c>> \o x)
      BY <2>3 DEF StandsFor
    <2>6. QED
      BY <1>5, <2>3, <2>4, <2>5
  <1>6. ASSUME NEW x \in Seq(S), NEW c \in S, NEW d \in S, ~NonHex(c), ~NonHex(d),
               NEW r, Right(x, r)
        PROVE  Right(<<c, d>> \o x, IF r = Null THEN Null ELSE <<ValueOf(c, d)>> \o r)
    <2> DEFINE u == <<c, d>>
               v == <<ValueOf(c, d)>>
    <2>1. u \in Seq(S) /\ GetSize(u) = 2 * 1 /\ 1 \in Nat /\ StandsFor(u, v)
      BY <1>6, PairText
    <2>2. v \in Seq(Byte)
      <3>1. ValueOf(c, d) \in Byte
        BY <1>6, ValueType
      <3>2. QED
        BY <3>1
    <2>. HIDE DEF u, v
    <2>3. ASSUME Legible(x) PROVE r # Null /\ StandsFor(u \o x, v \o r) /\ v \o r \in Seq(Byte)
      <3>1. r \in Seq(Byte) /\ StandsFor(x, r)
        BY <1>6, <2>3
      <3>2. StandsFor(u \o x, v \o r)
        BY <2>1, <2>2, <3>1, StandsJoin
      <3>3. v \o r \in Seq(Byte)
        BY <2>2, <3>1, ConcatProperties
      <3>4. QED
        BY <3>1, <3>2, <3>3, NullNoOctets
    <2>4. Legible(u \o x) => Legible(x)
      BY <2>1, LegibleParts
    <2>5. Legible(x) => Legible(u \o x)
      BY <2>3 DEF StandsFor
    <2>6. ~Legible(x) => r = Null
      BY <1>6
    <2>7. Right(u \o x, IF r = Null THEN Null ELSE v \o r)
      BY <2>3, <2>4, <2>5, <2>6
    <2>8. QED
      BY <2>7 DEF u, v
  <1>7. ASSUME NEW x \in Seq(S), ~Legible(x) PROVE Right(x, Null)
    BY <1>7
  <1>. HIDE DEF Right
  <1>8. ASSUME NEW p \in 1 .. l,
               Right(Cut(q, p, l), f[p + 1]),
               p < l => Right(Cut(q, p + 1, l), f[p + 2])
        PROVE  Right(Cut(q, p - 1, l), f[p])
    <2> DEFINE x == Cut(q, p - 1, l)
    <2>1. /\ p \in 1 .. (l + 1) /\ ~(p > l) /\ p \in 0 .. l /\ p - 1 \in 0 .. l /\ p - 1 \in Nat
          /\ p - 1 < p /\ p <= l /\ p \in Nat /\ p - 1 <= p /\ q[p] \in S /\ (p - 1) + 1 = p
          /\ p - 1 <= l
      BY <1>1
    <2>2. f[p] = Onward(f, q, p)
      BY <1>2, <2>1
    <2>3. x \in Seq(S)
      BY <1>3, <2>1
    <2>4. Len(x) = l - (p - 1) /\ \A i \in 1 .. (l - (p - 1)) : x[i] = q[(p - 1) + i]
      <3>1. l \in Nat /\ l <= Len(q) /\ p - 1 \in Nat /\ p - 1 <= l
        BY <1>1, <2>1
      <3>. HIDE DEF l
      <3>2. Len(x) = l - (p - 1)
        BY <3>1, CutLength
      <3>3. ASSUME NEW i \in 1 .. (l - (p - 1)) PROVE x[i] = q[(p - 1) + i]
        BY <3>1, CutPlace
      <3>4. QED
        BY <3>2, <3>3
    <2>5. Len(x) > 0 /\ x[1] = q[p] /\ (p < l => x[2] = q[p + 1]) /\ (Len(x) = 1 <=> p = l)
      <3>1. 1 \in 1 .. (l - (p - 1)) /\ (p < l => 2 \in 1 .. (l - (p - 1)))
            /\ (p - 1) + 1 = p /\ (p - 1) + 2 = p + 1
        BY <1>1, <2>1
      <3>. HIDE DEF x
      <3>2. Len(x) > 0 /\ (Len(x) = 1 <=> p = l)
        <4>1. Len(x) = l - (p - 1) /\ l \in Nat
          BY <1>1, <2>4
        <4>. HIDE DEF l
        <4>2. p \in 1 .. l
          OBVIOUS
        <4>3. QED
          BY <4>1, <4>2
      <3>3. x[1] = q[(p - 1) + 1] /\ (p < l => x[2] = q[(p - 1) + 2])
        BY <2>4, <3>1
      <3>4. QED
        BY <3>1, <3>2, <3>3
    <2>6. x = <<q[p]>> \o Cut(q, p, l)
      <3>1. 0 \in Nat /\ <<q[p]>> \in Seq(S)
        BY <2>1
      <3>2. Cut(q, p - 1, p) = <<q[p]>>
        <4>1. p - 1 < Len(q) /\ p - 1 <= p - 1
          BY <2>1
        <4>2. Cut(q, p - 1, (p - 1) + 1) = Append(Cut(q, p - 1, p - 1), q[(p - 1) + 1])
          BY <2>1, <4>1, CutAppend
        <4>3. Cut(q, p - 1, p - 1) = <<>>
          BY <2>1, CutEnds
        <4>4. Append(<<>>, q[p]) = <<q[p]>>
          BY <2>1
        <4>5. QED
          BY <2>1, <4>2, <4>3, <4>4
      <3>3. Cut(q, p - 1, p) \o Cut(q, p, l) = x
        BY <1>1, <2>1, CutJoin
      <3>4. QED
        BY <3>2, <3>3
    <2>. HIDE DEF x, l
    <2>7. CASE q[p] \in Space
      <3>1. f[p] = f[p + 1]
        BY <2>1, <2>2, <2>7 DEF Onward, l
      <3>2. Cut(q, p, l) \in Seq(S)
        BY <1>3, <2>1
      <3>3. Right(<<q[p]>> \o Cut(q, p, l), f[p + 1])
        BY <1>5, <1>8, <2>1, <2>7, <3>2
      <3>4. QED
        BY <2>6, <3>1, <3>3 DEF x
    <2>8. CASE q[p] \notin Space /\ (p = l \/ NonHex(q[p]) \/ NonHex(q[p + 1]))
      <3>1. f[p] = Null
        BY <2>1, <2>2, <2>8 DEF Onward, l
      <3>2. Len(x) = 1 \/ NonHex(x[1]) \/ NonHex(x[2])
        <4>1. p = l \/ p < l
          BY <1>1, <2>1
        <4>2. QED
          BY <2>5, <2>8, <4>1
      <3>3. ~Legible(x)
        BY <2>3, <2>5, <2>8, <3>2, NoPair
      <3>4. QED
        BY <1>7, <2>3, <3>1, <3>3 DEF x
    <2>9. CASE q[p] \notin Space /\ ~(p = l \/ NonHex(q[p]) \/ NonHex(q[p + 1]))
      <3>1. f[p] = IF f[p + 2] = Null THEN Null ELSE <<ValueOf(q[p], q[p + 1])>> \o f[p + 2]
        BY <2>1, <2>2, <2>9 DEF Onward, l
      <3>2. p < l /\ p + 1 \in 0 .. l /\ p + 1 \in Nat /\ p + 1 <= l /\ p <= p + 1
        BY <1>1, <2>1, <2>9
      <3>3. q[p + 1] \in S
        BY <1>1, <3>2 DEF l
      <3>4. Cut(q, p + 1, l) \in Seq(S)
        BY <1>3, <3>2
      <3>5. x = <<q[p], q[p + 1]>> \o Cut(q, p + 1, l)
        <4> DEFINE a == <<q[p]>>
                   b == <<q[p + 1]>>
                   z == Cut(q, p + 1, l)
        <4>1. Cut(q, p, p + 1) = b
          <5>1. p < Len(q) /\ p <= p /\ p \in 0 .. Len(q)
            BY <1>1, <2>1, <3>2 DEF l
          <5>2. Cut(q, p, p + 1) = Append(Cut(q, p, p), q[p + 1])
            BY <2>1, <5>1, CutAppend
          <5>3. Cut(q, p, p) = <<>>
            BY <5>1, CutEnds
          <5>4. QED
            BY <3>3, <5>2, <5>3
        <4>2. Cut(q, p, p + 1) \o Cut(q, p + 1, l) = Cut(q, p, l)
          BY <1>1, <2>1, <3>2, CutJoin
        <4>3. a \in Seq(S) /\ b \in Seq(S) /\ a \o b = <<q[p], q[p + 1]>>
          <5>1. a \in Seq(S) /\ b \in Seq(S)
            BY <2>1, <3>3
          <5>2. a \o b = <<q[p], q[p + 1]>>
            BY TwoLetters
          <5>3. QED
            BY <5>1, <5>2
        <4>4. z \in Seq(S)
          BY <3>4
        <4>5. x = a \o (b \o z)
          BY <2>6, <4>1, <4>2
        <4>. HIDE DEF a, b, z
        <4>6. a \o (b \o z) = (a \o b) \o z
          <5>1. a \in Seq(S) /\ b \in Seq(S) /\ z \in Seq(S)
            BY <4>3, <4>4
          <5>2. Chained(a, b, z)
            BY <5>1, JoinsChain, Zenon
          <5>3. QED
            BY <5>2 DEF Chained
        <4>7. QED
          BY <4>3, <4>5, <4>6 DEF z
      <3>6. Right(Cut(q, p + 1, l), f[p + 2])
        BY <1>8, <3>2
      <3>7. ~NonHex(q[p]) /\ ~NonHex(q[p + 1])
        BY <2>9
      <3>8. Right(<<q[p], q[p + 1]>> \o Cut(q, p + 1, l),
                  IF f[p + 2] = Null THEN Null ELSE <<ValueOf(q[p], q[p + 1])>> \o f[p + 2])
        BY <1>6, <2>1, <3>3, <3>4, <3>6, <3>7
      <3>9. QED
        BY <3>1, <3>5, <3>8 DEF x
    <2>10. QED
      BY <2>7, <2>8, <2>9
  <1>9. Bad = {}
    <2>1. SUFFICES ASSUME Bad # {} PROVE FALSE
      OBVIOUS
    <2>2. Bad \in SUBSET Nat
      BY <1>1
    <2>3. PICK k \in Bad : \A j \in Bad : k <= j
      BY <2>1, <2>2, LeastLength
    <2>4. k \in 0 .. l /\ ~Right(Cut(q, l - k, l), f[l - k + 1])
      BY <2>3
    <2>5. k # 0
      <3>1. l - 0 = l
        BY <1>1
      <3>2. QED
        BY <1>4, <2>4, <3>1
    <2> DEFINE p == l - k + 1
    <2>6. /\ p \in 1 .. l /\ p - 1 = l - k
          /\ k - 1 \in 0 .. l /\ l - (k - 1) = p /\ ~(k <= k - 1)
          /\ p < l => k - 2 \in 0 .. l /\ l - (k - 2) = p + 1 /\ ~(k <= k - 2) /\ (p + 1) + 1 = p + 2
      BY <1>1, <2>4, <2>5
    <2>. HIDE DEF p
    <2>7. Right(Cut(q, p, l), f[p + 1])
      <3>1. k - 1 \notin Bad
        BY <2>3, <2>6
      <3>2. QED
        BY <2>6, <3>1
    <2>8. ASSUME p < l PROVE Right(Cut(q, p + 1, l), f[p + 2])
      <3>1. k - 2 \notin Bad
        BY <2>3, <2>6, <2>8
      <3>2. QED
        BY <2>6, <2>8, <3>1
    <2>9. Right(Cut(q, p - 1, l), f[p])
      BY <1>8, <2>6, <2>7, <2>8
    <2>10. QED
      BY <2>4, <2>6, <2>9 DEF p
  <1>10. Right(q, f[1])
    <2>1. l \in 0 .. l /\ l - l = 0 /\ 0 + 1 = 1
      BY <1>1
    <2>2. Right(Cut(q, 0, l), f[1])
      BY <1>9, <2>1
    <2>3. Cut(q, 0, l) = q
      BY CutEnds
    <2>4. QED
      BY <2>2, <2>3
  <1>11. HexToBinary(q) = f[1]
    BY HexToBinaryIs DEF f
  <1>12. QED
    BY <1>10, <1>11 DEF Right

-----------------------------------------------------------------------------
(* hexread.                                                                *)

\* c letters are converted, the others are in the buffer. A state that failed has
\* met a text without a meaning.
ReadState(s, k) ==
    /\ IsState(s)
    /\ s.status \in {"running", "failed", "overrun"}
    /\ s.status = "failed" => ~Legible(input)
    /\ s.status = "running" =>
          \E c \in 0 .. k : /\ s.buffer = Cut(input, c, k) /\ GetSize(s.buffer) < 2 * LINE
                            /\ s.out \in Seq(Byte) /\ StandsFor(Cut(input, 0, c), s.out)
                            /\ s.bytes \in -1 .. LINE
                            /\ s.bytes < 0 => c = 0

\* Writing a buffer with digits in it.
LEMMA WriteText ==
  ASSUME NEW S, input \in Seq(S), NEW c \in Nat, NEW j \in Nat, c <= j, j <= Len(input),
         NEW s, IsState(s), s.status = "running",
         s.buffer = Cut(input, c, j), GetSize(s.buffer) > 0,
         s.out \in Seq(Byte), StandsFor(Cut(input, 0, c), s.out)
  PROVE  LET w == WriteBinary(s)
         IN  /\ IsState(w)
             /\ \/ w.status = "failed" /\ ~Legible(Cut(input, 0, j))
                \/ /\ w.status = "running" /\ w.out \in Seq(Byte)
                   /\ StandsFor(Cut(input, 0, j), w.out)
                   /\ w.bytes \in Nat /\ 2 * w.bytes = GetSize(s.buffer)
  <1> DEFINE a == Cut(input, 0, c)
             b == Cut(input, c, j)
             x == HexToBinary(b)
             w == WriteBinary(s)
  <1>1. 0 \in Nat /\ 0 <= c /\ c <= Len(input)
    OBVIOUS
  <1>2. a \in Seq(S)
    BY <1>1, CutIs
  <1>3. b \in Seq(S)
    BY <1>1, CutIs
  <1>4. a \o b = Cut(input, 0, j)
    BY <1>1, CutJoin
  <1>5. StandsFor(a, s.out) /\ s.buffer = b
    OBVIOUS
  <1>6. w = IF x = Null THEN [s EXCEPT !.status = "failed"]
            ELSE [s EXCEPT !.out = @ \o x, !.bytes = Len(x)]
    BY DEF WriteBinary
  <1>. HIDE DEF a, b, x, w
  <1>7. GetSize(a) = 2 * Len(s.out) /\ Len(s.out) \in Nat
    BY <1>5 DEF StandsFor
  <1>8. IF Legible(b) THEN x \in Seq(Byte) /\ StandsFor(b, x) ELSE x = Null
    BY <1>3, HexToBinaryLaw DEF x
  <1>9. CASE ~Legible(b)
    <2>1. IsState(w) /\ w.status = "failed"
      BY <1>6, <1>8, <1>9 DEF IsState
    <2>2. ~Legible(a \o b)
      BY <1>2, <1>3, <1>7, <1>9, LegibleParts
    <2>3. QED
      BY <1>4, <2>1, <2>2 DEF w
  <1>10. CASE Legible(b)
    <2>1. x \in Seq(Byte) /\ StandsFor(b, x)
      BY <1>8, <1>10
    <2>2. x # Null
      BY <2>1, NullNoOctets
    <2>3. IsState(w) /\ w.status = "running" /\ w.out = s.out \o x /\ w.bytes = Len(x)
      BY <1>6, <2>2 DEF IsState
    <2>4. s.out \o x \in Seq(Byte)
      BY <2>1, ConcatProperties
    <2>5. StandsFor(a \o b, s.out \o x)
      BY <1>2, <1>3, <1>5, <2>1, StandsJoin
    <2>6. Len(x) \in Nat /\ 2 * Len(x) = GetSize(b)
      BY <2>1 DEF StandsFor
    <2>7. QED
      BY <1>4, <1>5, <2>3, <2>4, <2>5, <2>6 DEF w
  <1>11. QED
    BY <1>9, <1>10

LEMMA OneLetter == ASSUME NEW c PROVE GetSize(<<c>>) \in {0, 1}
  <1>1. DOMAIN <<c>> = {1}
    OBVIOUS
  <1>2. Signs(<<c>>) = {} \/ Signs(<<c>>) = {1}
    BY <1>1 DEF Signs
  <1>3. Cardinality({}) = 0 /\ Cardinality({1}) = 1
    BY FS_EmptySet, FS_Singleton
  <1>4. QED
    BY <1>2, <1>3 DEF GetSize

\* One letter more.
LEMMA SizeGrows ==
  ASSUME NEW S, NEW q \in Seq(S), NEW c \in S
  PROVE  GetSize(Append(q, c)) \in {GetSize(q), GetSize(q) + 1} /\ GetSize(q) \in Nat
  <1>1. Append(q, c) = q \o <<c>> /\ <<c>> \in Seq(S)
    <2>1. <<c>> \in Seq(S)
      OBVIOUS
    <2>2. QED
      BY <2>1, AppendIsConcat
  <1>2. GetSize(q \o <<c>>) = GetSize(q) + GetSize(<<c>>)
    BY <1>1, BeforeJoin
  <1>3. GetSize(q) \in Nat
    BY SignsFinite
  <1>4. QED
    BY <1>1, <1>2, <1>3, OneLetter

LEMMA TwiceSum ==
  ASSUME NEW x, NEW y, NEW n \in Nat, NEW m \in Nat, x = 2 * n, y = 2 * m
  PROVE  x + y = 2 * (n + m) /\ n + m \in Nat
  OBVIOUS

\* A turn stores a letter, and converts the buffer when that completes a line.
LEMMA ReadTurnKeeps ==
  ASSUME NEW S, input \in Seq(S), NEW k \in Nat, k < Len(input), NEW s, ReadState(s, k)
  PROVE  ReadState(HexChar(s, input[k + 1]), k + 1)
  <1> DEFINE o == input[k + 1]
             n == Append(s.buffer, o)
             v == [s EXCEPT !.buffer = n]
             w == WriteBinary(v)
             z == HexChar(s, o)
  <1>1. IsState(s) /\ s.status \in {"running", "failed", "overrun"}
        /\ (s.status = "failed" => ~Legible(input))
    BY DEF ReadState
  <1>2. CASE s.status # "running"
    <2>1. z = s
      BY <1>2 DEF HexChar
    <2>2. ReadState(s, k + 1)
      BY <1>1, <1>2 DEF ReadState
    <2>3. QED
      BY <2>1, <2>2
  <1>3. CASE s.status = "running" /\ Len(s.buffer) = 3 * LINE
    <2>1. z = [s EXCEPT !.status = "overrun"]
      BY <1>3 DEF HexChar
    <2>2. IsState(z) /\ z.status = "overrun"
      BY <1>1, <2>1 DEF IsState
    <2>. HIDE DEF z
    <2>3. ReadState(z, k + 1)
      BY <2>2 DEF ReadState
    <2>4. QED
      BY <2>3 DEF z
  <1>4. CASE s.status = "running" /\ Len(s.buffer) # 3 * LINE
    <2>1. PICK c \in 0 .. k :
             /\ s.buffer = Cut(input, c, k) /\ GetSize(s.buffer) < 2 * LINE
             /\ s.out \in Seq(Byte) /\ StandsFor(Cut(input, 0, c), s.out)
             /\ s.bytes \in -1 .. LINE /\ (s.bytes < 0 => c = 0)
      BY <1>4 DEF ReadState
    <2>2. z = IF GetSize(v.buffer) # 2 * LINE THEN v ELSE [w EXCEPT !.buffer = <<>>]
      BY <1>4 DEF HexChar, LineRead
    <2>3. IsState(v) /\ v.status = "running" /\ v.out = s.out /\ v.bytes = s.bytes
          /\ v.buffer = Append(s.buffer, o)
      <3>. HIDE DEF n
      <3>1. IsState(v) /\ v.status = "running" /\ v.out = s.out /\ v.bytes = s.bytes /\ v.buffer = n
        BY <1>1, <1>4 DEF IsState
      <3>. HIDE DEF v
      <3>2. QED
        BY <3>1 DEF n
    <2>. HIDE DEF v, w, z
    <2>4. /\ c \in Nat /\ c <= k /\ k + 1 \in Nat /\ k + 1 <= Len(input) /\ c <= k + 1 /\ o \in S
          /\ c \in 0 .. (k + 1) /\ k <= Len(input) /\ c <= Len(input) /\ 0 <= c /\ 0 \in Nat
          /\ Len(input) \in Nat
      BY <2>1
    <2>5. v.buffer = Cut(input, c, k + 1)
      BY <2>1, <2>3, <2>4, CutAppend
    <2>6. Cut(input, c, k) \in Seq(S)
      BY <2>4, CutIs
    <2>7. GetSize(v.buffer) \in {GetSize(s.buffer), GetSize(s.buffer) + 1} /\ GetSize(s.buffer) \in Nat
      BY <2>1, <2>3, <2>4, <2>6, SizeGrows
    <2>8. CASE GetSize(v.buffer) # 2 * LINE
      <3>1. z = v
        BY <2>2, <2>8
      <3>2. GetSize(v.buffer) < 2 * LINE
        BY <2>1, <2>7, <2>8, LineWhole
      <3>3. ReadState(v, k + 1)
        BY <2>1, <2>3, <2>4, <2>5, <3>2 DEF ReadState
      <3>4. QED
        BY <3>1, <3>3 DEF z
    <2>9. CASE GetSize(v.buffer) = 2 * LINE
      <3>1. z = [w EXCEPT !.buffer = <<>>]
        BY <2>2, <2>9
      <3>2. GetSize(v.buffer) > 0 /\ LINE \in Nat
        BY <2>9, LineWhole
      <3>3. /\ IsState(w)
            /\ \/ w.status = "failed" /\ ~Legible(Cut(input, 0, k + 1))
               \/ /\ w.status = "running" /\ w.out \in Seq(Byte)
                  /\ StandsFor(Cut(input, 0, k + 1), w.out)
                  /\ w.bytes \in Nat /\ 2 * w.bytes = GetSize(v.buffer)
        BY <2>1, <2>3, <2>4, <2>5, <3>2, WriteText DEF w
      <3>4. IsState(z) /\ z.status = w.status /\ z.out = w.out /\ z.bytes = w.bytes /\ z.buffer = <<>>
        BY <3>1, <3>3 DEF IsState
      <3>5. CASE w.status = "failed"
        <4>1. ~Legible(Cut(input, 0, k + 1))
          BY <3>3, <3>5
        <4> DEFINE a == Cut(input, 0, c)
                   b == Cut(input, c, k + 1)
                   d == Cut(input, 0, k + 1)
                   e == Cut(input, k + 1, Len(input))
        <4>2. a \in Seq(S) /\ b \in Seq(S) /\ d \in Seq(S) /\ e \in Seq(S)
          <5>1. a \in Seq(S) /\ b \in Seq(S) /\ d \in Seq(S)
            BY <2>4, CutIs
          <5>2. e \in Seq(S)
            BY <2>4, EndType
          <5>3. QED
            BY <5>1, <5>2
        <4>3. a \o b = d
          BY <2>4, CutJoin
        <4>4. d \o e = input
          <5>1. d \o e = Cut(input, 0, Len(input))
            <6>1. 0 \in Nat /\ 0 <= k + 1 /\ k + 1 \in Nat /\ k + 1 <= Len(input)
              BY <2>4
            <6>2. QED
              BY <6>1, EndJoin
          <5>2. QED
            BY <5>1, CutEnds
        <4>5. GetSize(a) = 2 * Len(s.out) /\ Len(s.out) \in Nat
          BY <2>1 DEF StandsFor
        <4>6. GetSize(b) = 2 * LINE
          BY <2>5, <2>9
        <4>. HIDE DEF a, b, d, e
        <4>7. GetSize(d) = GetSize(a) + GetSize(b)
          BY <4>2, <4>3, BeforeJoin
        <4>8. GetSize(d) = 2 * (Len(s.out) + LINE) /\ Len(s.out) + LINE \in Nat
          <5> DEFINE l == Len(s.out)
          <5>1. l \in Nat /\ GetSize(a) = 2 * l /\ GetSize(b) = 2 * LINE /\ LINE \in Nat
            BY <3>2, <4>5, <4>6
          <5>. HIDE DEF l
          <5>2. GetSize(a) + GetSize(b) = 2 * (l + LINE) /\ l + LINE \in Nat
            BY <5>1, TwiceSum
          <5>3. QED
            BY <4>7, <5>2 DEF l
        <4>9. ~Legible(d \o e)
          BY <4>1, <4>2, <4>8, LegibleParts DEF d
        <4>10. ReadState(z, k + 1)
          BY <3>4, <3>5, <4>4, <4>9 DEF ReadState
        <4>11. QED
          BY <4>10 DEF z
      <3>6. CASE w.status # "failed"
        <4>1. /\ w.status = "running" /\ w.out \in Seq(Byte)
              /\ StandsFor(Cut(input, 0, k + 1), w.out)
              /\ w.bytes = LINE
          BY <2>9, <3>2, <3>3, <3>6
        <4>2. k + 1 \in 0 .. (k + 1) /\ Cut(input, k + 1, k + 1) = <<>>
          <5>1. k + 1 \in 0 .. (k + 1) /\ k + 1 \in 0 .. Len(input)
            BY <2>4
          <5>2. QED
            BY <5>1, CutEnds
        <4>3. GetSize(<<>>) < 2 * LINE /\ LINE \in -1 .. LINE /\ ~(LINE < 0)
          BY LineWhole, EmptyText
        <4>4. ReadState(z, k + 1)
          BY <3>4, <4>1, <4>2, <4>3 DEF ReadState
        <4>5. QED
          BY <4>4 DEF z
      <3>7. QED
        BY <3>5, <3>6
    <2>10. QED
      BY <2>8, <2>9
  <1>5. QED
    BY <1>2, <1>3, <1>4

\* What hexread has written when it is through: the octets of the text, what it adds of
\* the heap, and the line feed.
LEMMA ReadEndIs ==
  ASSUME NEW S, input \in Seq(S), NEW s, ReadState(s, Len(input)), s.status = "running"
  PROVE  LET e == HexEnd(s)
         IN  \/ e.status = "failed" /\ (~Legible(input) \/ GetSize(input) = 0)
             \/ /\ e.status = "done"
                /\ \E x \in Seq(Byte), m \in 0 .. LINE :
                      /\ StandsFor(input, x)
                      /\ e.out = x \o ([i \in 1 .. m |-> Stray] \o Newline)
  <1> DEFINE L == Len(input)
             Strays(m) == [i \in 1 .. m |-> Stray]
             B == Byte \cup {Stray}
             e == HexEnd(s)
             w == IF s.buffer = <<>> THEN s ELSE WriteBinary(s)
             Wrote(x, m) == x \in Seq(Byte) /\ m \in 0 .. LINE /\ StandsFor(input, x)
                               /\ w.out = x \o Strays(m)
  <1>1. IsState(s) /\ L \in Nat /\ L <= Len(input)
    BY DEF ReadState
  <1>2. PICK c \in 0 .. L : /\ s.buffer = Cut(input, c, L)
                            /\ s.out \in Seq(Byte) /\ StandsFor(Cut(input, 0, c), s.out)
                            /\ s.bytes \in -1 .. LINE
                            /\ s.bytes < 0 => c = 0
    BY DEF ReadState
  <1>3. c \in Nat /\ c <= L /\ 0 \in Nat /\ 0 <= c /\ LINE \in Nat /\ 0 \in 0 .. LINE
    BY <1>1, <1>2, LineWhole
  <1>. HIDE DEF L
  <1>4. s.buffer \in Seq(S) /\ Cut(input, 0, c) \in Seq(S) /\ Cut(input, 0, L) = input
        /\ Len(s.buffer) = L - c
    <2>1. Cut(input, c, L) \in Seq(S) /\ Len(Cut(input, c, L)) = L - c
      BY <1>1, <1>3, CutIs
    <2>2. Cut(input, 0, c) \in Seq(S)
      <3>1. c <= Len(input)
        BY <1>1, <1>3
      <3>2. QED
        BY <1>3, <3>1, CutIs
    <2>3. QED
      BY <1>2, <2>1, <2>2, CutEnds DEF L
  <1>5. Cut(input, 0, c) \o s.buffer = input
    <2>1. Cut(input, 0, c) \o Cut(input, c, L) = Cut(input, 0, L)
      BY <1>1, <1>3, CutJoin
    <2>2. QED
      BY <1>2, <1>4, <2>1
  <1>6. Strays(0) = <<>>
    OBVIOUS
  <1>7. e = IF w.status = "failed" THEN w
            ELSE [w EXCEPT !.status = "done", !.out = IF source = "terminal" THEN Append(@, 10) ELSE @]
    BY DEF HexEnd
  <1>. HIDE DEF e, w, Strays
  <1>8. ASSUME IsState(w), w.status # "failed", NEW x, NEW m, Wrote(x, m)
        PROVE  e.status = "done" /\ e.out = x \o (Strays(m) \o Newline)
    <2>1. e.status = "done" /\ e.out = IF source = "terminal" THEN Append(w.out, 10) ELSE w.out
      BY <1>7, <1>8 DEF IsState
    <2>2. x \in Seq(B) /\ Strays(m) \in Seq(B)
      <3>1. x \in Seq(Byte)
        BY <1>8
      <3>2. x \in Seq(B)
        BY <3>1, SeqMonotonic
      <3>3. Strays(m) \in Seq(B)
        <4>1. m \in Nat
          BY <1>3, <1>8
        <4>2. QED
          BY <4>1 DEF Strays
      <3>4. QED
        BY <3>2, <3>3
    <2>3. <<10>> \in Seq(B) /\ <<>> \in Seq(B)
      <3>1. 10 \in B
        BY DEF Byte
      <3>. HIDE DEF B
      <3>2. QED
        BY <3>1
    <2>4. w.out = x \o Strays(m)
      BY <1>8
    <2>5. w.out \in Seq(B)
      BY <2>2, <2>4, ConcatProperties
    <2>. HIDE DEF B
    <2>6. CASE source = "terminal"
      <3>1. Append(w.out, 10) = w.out \o <<10>>
        <4>1. 10 \in B
          BY DEF B, Byte
        <4>2. QED
          BY <2>5, <4>1, AppendIsConcat
      <3>2. (x \o Strays(m)) \o <<10>> = x \o (Strays(m) \o <<10>>)
        <4>1. Chained(x, Strays(m), <<10>>)
          BY <2>2, <2>3, JoinsChain, Zenon
        <4>2. QED
          BY <4>1 DEF Chained
      <3>3. QED
        BY <2>1, <2>4, <2>6, <3>1, <3>2 DEF Newline
    <2>7. CASE source # "terminal"
      <3>1. Strays(m) \o <<>> = Strays(m)
        BY <2>2, ConcatEmptySeq
      <3>2. QED
        BY <2>1, <2>4, <2>7, <3>1 DEF Newline
    <2>8. QED
      BY <2>6, <2>7
  <1>9. ASSUME IsState(w), w.status # "failed", NEW x, NEW m, Wrote(x, m)
        PROVE  /\ e.status = "done"
               /\ \E y \in Seq(Byte), n \in 0 .. LINE :
                     StandsFor(input, y) /\ e.out = y \o (Strays(n) \o Newline)
    <2>1. e.status = "done" /\ e.out = x \o (Strays(m) \o Newline)
      BY <1>8, <1>9
    <2>2. x \in Seq(Byte) /\ m \in 0 .. LINE /\ StandsFor(input, x)
      BY <1>9
    <2>3. QED
      BY <2>1, <2>2
  <1>10. ASSUME NEW x \in Seq(Byte) PROVE x \o Strays(0) = x
    BY <1>6, ConcatEmptySeq
  <1>11. CASE s.buffer = <<>>
    <2>1. w = s
      BY <1>11 DEF w
    <2>2. c = L
      BY <1>1, <1>3, <1>4, <1>11
    <2>3. StandsFor(input, s.out)
      BY <1>2, <1>4, <2>2
    <2>4. Wrote(s.out, 0)
      BY <1>2, <1>3, <1>10, <2>1, <2>3
    <2>5. w.status # "failed" /\ IsState(w)
      BY <1>1, <2>1
    <2>. HIDE DEF Wrote
    <2>6. QED
      BY <1>9, <2>4, <2>5 DEF e, Strays
  <1>12. CASE s.buffer # <<>> /\ GetSize(s.buffer) > 0
    <2>1. w = WriteBinary(s)
      BY <1>12 DEF w
    <2>2. /\ IsState(w)
          /\ \/ w.status = "failed" /\ ~Legible(Cut(input, 0, L))
             \/ /\ w.status = "running" /\ w.out \in Seq(Byte)
                /\ StandsFor(Cut(input, 0, L), w.out)
      BY <1>1, <1>2, <1>3, <1>12, <2>1, WriteText
    <2>3. CASE w.status = "failed"
      <3>1. e = w /\ ~Legible(input)
        BY <1>4, <1>7, <2>2, <2>3
      <3>2. QED
        BY <2>3, <3>1 DEF e
    <2>4. CASE w.status # "failed"
      <3>1. w.out \in Seq(Byte) /\ StandsFor(input, w.out)
        BY <1>4, <2>2, <2>4
      <3>2. Wrote(w.out, 0)
        BY <1>3, <1>10, <3>1
      <3>. HIDE DEF Wrote
      <3>3. QED
        BY <1>9, <2>2, <2>4, <3>2 DEF e, Strays
    <2>5. QED
      BY <2>3, <2>4
  <1>13. CASE s.buffer # <<>> /\ ~(GetSize(s.buffer) > 0)
    <2>1. GetSize(s.buffer) = 0
      <3>1. GetSize(s.buffer) \in Nat
        BY <1>4, SignsFinite
      <3>2. QED
        BY <1>13, <3>1
    <2>2. w = WriteBinary(s)
      BY <1>13 DEF w
    <2>3. CASE s.bytes < 0
      <3>1. w = [s EXCEPT !.status = "failed"]
        BY <1>13, <2>2, <2>3 DEF WriteBinary
      <3>2. w.status = "failed"
        BY <1>1, <3>1 DEF IsState
      <3>3. e = w
        BY <1>7, <3>2
      <3>4. GetSize(input) = 0
        <4>1. s.buffer = Cut(input, 0, L)
          BY <1>2, <2>3
        <4>2. s.buffer = input
          BY <1>4, <4>1
        <4>3. QED
          BY <2>1, <4>2
      <3>5. QED
        BY <3>2, <3>3, <3>4 DEF e
    <2>4. CASE ~(s.bytes < 0)
      <3> DEFINE m == s.bytes
      <3>1. m \in 0 .. LINE /\ m \in Nat
        BY <1>2, <1>3, <2>4
      <3>2. Strays(m) # Null
        <4>1. Strays(m) \in Seq({Stray})
          BY <3>1 DEF Strays
        <4>2. QED
          BY <4>1, StrayAssumption
      <3>3. w = [s EXCEPT !.out = @ \o Strays(m), !.bytes = Len(Strays(m))]
        BY <1>13, <2>2, <2>4, <3>2 DEF WriteBinary, Strays
      <3>4. IsState(w) /\ w.status = "running" /\ w.out = s.out \o Strays(m)
        BY <1>1, <3>3 DEF IsState
      <3>5. StandsFor(input, s.out)
        <4>1. StandsFor(s.buffer, <<>>) /\ <<>> \in Seq(Byte)
          BY <1>4, <2>1, BlankText
        <4>2. StandsFor(Cut(input, 0, c) \o s.buffer, s.out \o <<>>)
          BY <1>2, <1>4, <4>1, StandsJoin
        <4>3. s.out \o <<>> = s.out
          BY <1>2, ConcatEmptySeq
        <4>4. QED
          BY <1>5, <4>2, <4>3
      <3>6. Wrote(s.out, m)
        BY <1>2, <3>1, <3>4, <3>5
      <3>7. w.status # "failed"
        BY <3>4
      <3>. HIDE DEF Wrote, m
      <3>8. QED
        BY <1>9, <3>4, <3>6, <3>7 DEF e, Strays
    <2>5. QED
      BY <2>3, <2>4
  <1>14. QED
    BY <1>11, <1>12, <1>13

\* The two parts of a sequence put together from two.
LEMMA TwoParts ==
  ASSUME NEW S, NEW a \in Seq(S), NEW b \in Seq(S)
  PROVE  /\ SubSeq(a \o b, 1, Len(a)) = a
         /\ SubSeq(a \o b, Len(a) + 1, Len(a \o b)) = b
  <1> DEFINE d == a \o b
             n == Len(a)
             m == Len(b)
             l == Len(d)
             x == Cut(d, 0, n)
             y == Cut(d, n, l)
  <1>1. n \in Nat /\ m \in Nat
    OBVIOUS
  <1>2. d \in Seq(S) /\ l = n + m
        /\ \A i \in 1 .. n + m : d[i] = IF i <= n THEN a[i] ELSE b[i - n]
    BY ConcatProperties
  <1>. HIDE DEF d, l
  <1>3. Len(d) = l /\ 0 <= n /\ n <= l /\ l <= Len(d) /\ l \in Nat /\ 0 \in Nat /\ n <= Len(d) /\ n - 0 = n
    <2>1. Len(d) = l
      BY DEF l
    <2>2. QED
      BY <1>1, <1>2, <2>1
  <1>4. ASSUME NEW i \in 1 .. n PROVE d[i] = a[i]
    <2>1. i \in 1 .. n + m /\ i <= n
      BY <1>1
    <2>2. QED
      BY <1>2, <2>1
  <1>5. ASSUME NEW i \in 1 .. m PROVE d[n + i] = b[i]
    <2>1. n + i \in 1 .. n + m /\ ~(n + i <= n) /\ (n + i) - n = i
      BY <1>1
    <2>2. d[n + i] = b[(n + i) - n]
      BY <1>2, <2>1
    <2>3. QED
      BY <2>1, <2>2
  <1>6. Len(a) = n /\ Len(b) = m
    OBVIOUS
  <1>. HIDE DEF n, m
  <1>7. x \in Seq(S) /\ Len(x) = n
    <2>1. x \in Seq(S) /\ Len(x) = n - 0
      BY <1>1, <1>2, <1>3, CutIs
    <2>2. QED
      BY <1>3, <2>1
  <1>8. ASSUME NEW i \in 1 .. n PROVE x[i] = a[i]
    <2>1. i \in 1 .. (n - 0) /\ 0 + i = i
      BY <1>1
    <2>2. x[i] = d[0 + i]
      BY <1>1, <1>2, <1>3, <2>1, CutPlace, ZenonT(30)
    <2>3. QED
      BY <1>4, <2>1, <2>2
  <1>9. y \in Seq(S) /\ Len(y) = l - n
    BY <1>1, <1>2, <1>3, CutIs
  <1>10. l - n = m
    BY <1>1, <1>2
  <1>11. ASSUME NEW i \in 1 .. m PROVE y[i] = b[i]
    <2>1. i \in 1 .. (l - n)
      BY <1>10
    <2>2. y[i] = d[n + i]
      BY <1>1, <1>2, <1>3, <2>1, CutPlace, ZenonT(30)
    <2>3. QED
      BY <1>5, <2>2
  <1>. HIDE DEF x, y
  <1>12. x = a
    BY <1>6, <1>7, <1>8, SeqEqual
  <1>13. y = b
    BY <1>6, <1>9, <1>10, <1>11, SeqEqual
  <1>14. QED
    BY <1>12, <1>13 DEF x, y, Cut, n, l, d

-----------------------------------------------------------------------------
(* Both programs.                                                          *)

Kept(s, k) == IF tool = "hexread" THEN ReadState(s, k) ELSE DumpState(s, k)

\* The letters a program reads: hexdump reads octets, hexread any.
Input(S) == input \in Seq(S) /\ (tool # "hexread" => S = Byte)

LEMMA TurnKeeps ==
  ASSUME NEW S, Input(S), NEW k \in Nat, k < Len(input), NEW s, Kept(s, k)
  PROVE  Kept(Turn(s, input[k + 1]), k + 1)
  <1>1. CASE tool = "hexread"
    BY <1>1, ReadTurnKeeps DEF Kept, Turn, Input
  <1>2. CASE tool # "hexread"
    <2>1. input \in Seq(Byte)
      BY <1>2 DEF Input
    <2>2. QED
      BY <1>2, <2>1, DumpTurnKeeps DEF Kept, Turn
  <1>3. QED
    BY <1>1, <1>2

\* A read of m octets takes the loop m places on.
LEMMA LoopKeeps ==
  ASSUME NEW S, Input(S), NEW k \in Nat, k <= Len(input), NEW m \in Nat, m <= Len(input) - k,
         NEW s, Kept(s, k)
  PROVE  Kept(Loop(s, Cut(input, k, Len(input)), m)[m], k + m)
  <1> DEFINE q == Cut(input, k, Len(input))
             f == Loop(s, q, m)
             Bad == {n \in 0 .. m : ~Kept(f[n], k + n)}
  <1>1. Len(input) \in Nat /\ input \in Seq(S)
    BY DEF Input
  <1>2. \A i \in 1 .. (Len(input) - k) : q[i] = input[k + i]
    BY <1>1, CutCut
  <1>. HIDE DEF q
  <1>3. f[0] = s /\ \A n \in 1 .. m : f[n] = Turn(f[n - 1], q[n])
    BY LoopIs
  <1>. HIDE DEF f
  <1>4. ASSUME NEW n \in 1 .. m, Kept(f[n - 1], k + (n - 1)) PROVE Kept(f[n], k + n)
    <2>1. /\ k + (n - 1) \in Nat /\ k + (n - 1) < Len(input) /\ (k + (n - 1)) + 1 = k + n
          /\ n \in 1 .. (Len(input) - k)
      BY <1>1
    <2>2. q[n] = input[k + n] /\ f[n] = Turn(f[n - 1], q[n])
      BY <1>2, <1>3, <2>1
    <2>3. Kept(Turn(f[n - 1], input[(k + (n - 1)) + 1]), (k + (n - 1)) + 1)
      BY <1>4, <2>1, TurnKeeps
    <2>4. QED
      BY <2>1, <2>2, <2>3
  <1>5. Bad = {}
    <2>1. SUFFICES ASSUME Bad # {} PROVE FALSE
      OBVIOUS
    <2>2. Bad \in SUBSET Nat
      OBVIOUS
    <2>3. PICK n \in Bad : \A j \in Bad : n <= j
      BY <2>1, <2>2, LeastLength
    <2>4. n \in 0 .. m /\ ~Kept(f[n], k + n)
      BY <2>3
    <2>5. n # 0
      <3>1. k + 0 = k
        OBVIOUS
      <3>2. QED
        BY <1>3, <2>4, <3>1
    <2>6. n \in 1 .. m /\ n - 1 \in 0 .. m /\ ~(n <= n - 1)
      BY <2>4, <2>5
    <2>7. Kept(f[n - 1], k + (n - 1))
      BY <2>3, <2>6
    <2>8. QED
      BY <1>4, <2>4, <2>6, <2>7
  <1>6. Kept(f[m], k + m)
    <2>1. m \in 0 .. m
      OBVIOUS
    <2>2. QED
      BY <1>5, <2>1
  <1>7. QED
    BY <1>6 DEF f, q

\* Which program runs, on what, and where it is in its input; or what it has written.
HexInv(name, S) ==
    /\ tool = name /\ Input(S)
    /\ IF status = "done"
       THEN IF tool = "hexread"
            THEN \E x \in Seq(Byte), m \in 0 .. LINE :
                    /\ StandsFor(input, x)
                    /\ stdout = x \o ([i \in 1 .. m |-> Stray] \o Newline)
            ELSE stdout = HexText(input)
       ELSE \/ status = "failed" /\ GetSize(input) = 0
            \/ status = "overrun" /\ tool = "hexdump"
            \/ \E k \in 0 .. Len(input) : rest = Cut(input, k, Len(input)) /\ Kept(Current, k)

LEMMA CurrentIs ==
  /\ IsState(Current)
  /\ Current.buffer = temp_buffer /\ Current.bytes = bin_bytes
  /\ Current.out = stdout /\ Current.status = status
  BY DEF Current, IsState

LEMMA HexInvInit ==
  ASSUME NEW name \in {"hexdump", "hexread"}, NEW from, NEW S, NEW data \in Seq(S),
         name # "hexread" => S = Byte, HexInit(name, from, data)
  PROVE  HexInv(name, S)
  <1>1. /\ tool = name /\ input = data /\ rest = data /\ temp_buffer = <<>> /\ stdout = <<>>
        /\ status = "running" /\ bin_bytes \in IF name = "hexread" THEN -1 .. LINE ELSE {0}
    BY DEF HexInit
  <1>2. Input(S) /\ input \in Seq(S) /\ Len(input) \in Nat /\ 0 \in 0 .. Len(input) /\ 0 \in 0 .. 0
    BY <1>1 DEF Input
  <1>3. rest = Cut(input, 0, Len(input)) /\ Cut(input, 0, 0) = <<>>
    BY <1>1, <1>2, CutEnds
  <1>4. Kept(Current, 0)
    <2>1. CASE tool = "hexread"
      <3>1. GetSize(<<>>) < 2 * LINE /\ StandsFor(<<>>, <<>>) /\ <<>> \in Seq(Byte)
        BY EmptyText, LineWhole
      <3>2. bin_bytes \in -1 .. LINE
        BY <1>1, <2>1
      <3>3. ReadState(Current, 0)
        BY <1>1, <1>2, <1>3, <3>1, <3>2, CurrentIs DEF ReadState
      <3>4. QED
        BY <2>1, <3>3 DEF Kept
    <2>2. CASE tool # "hexread"
      <3>1. 0 % LINE = 0 /\ 0 - 0 < LINE
        BY LineWhole
      <3>2. HexText(<<>>) = <<>>
        BY HexTextEmpty
      <3>3. DumpState(Current, 0)
        BY <1>1, <1>2, <1>3, <3>1, <3>2, CurrentIs DEF DumpState
      <3>4. QED
        BY <2>2, <3>3 DEF Kept
    <2>3. QED
      BY <2>1, <2>2
  <1>5. QED
    BY <1>1, <1>2, <1>3, <1>4 DEF HexInv

LEMMA TakeKeeps ==
  ASSUME NEW name, NEW S, HexInv(name, S), status = "running",
         NEW m \in Nat, m <= Len(rest), Take(m)
  PROVE  HexInv(name, S)'
  <1>1. tool = name /\ Input(S) /\ input \in Seq(S) /\ Len(input) \in Nat
    BY DEF HexInv, Input
  <1>2. PICK k \in 0 .. Len(input) : rest = Cut(input, k, Len(input)) /\ Kept(Current, k)
    BY DEF HexInv
  <1>3. k \in Nat /\ k <= Len(input)
    BY <1>1
  <1>4. Len(rest) = Len(input) - k
    BY <1>1, <1>2, <1>3, EndType
  <1>5. m <= Len(input) - k /\ k + m \in 0 .. Len(input)
    BY <1>1, <1>3, <1>4
  <1> DEFINE z == Loop(Current, rest, m)[m]
  <1>6. Become(z) /\ rest' = SubSeq(rest, m + 1, Len(rest))
    BY TakeIs
  <1>7. Kept(z, k + m)
    BY <1>1, <1>2, <1>3, <1>5, LoopKeeps
  <1>8. rest' = Cut(input, k + m, Len(input))
    BY <1>1, <1>2, <1>3, <1>5, <1>6, CutCut
  <1>. HIDE DEF z
  <1>9. tool' = tool /\ input' = input
    BY <1>6 DEF Become
  <1>10. IsState(z) /\ z.status # "done"
    BY <1>7 DEF Kept, ReadState, DumpState
  <1>11. Current' = z /\ status' # "done"
    BY <1>6, <1>10 DEF Become, Current, IsState
  <1>12. Kept(Current, k + m)'
    <2>1. Kept(z, k + m)
      BY <1>7
    <2>2. QED
      BY <1>9, <1>11, <2>1 DEF Kept, ReadState, DumpState
  <1>13. QED
    BY <1>1, <1>5, <1>8, <1>9, <1>11, <1>12 DEF HexInv, Input

\* The end of the input is met when all of it was taken.
LEMMA EndKeeps ==
  ASSUME NEW name, NEW S, HexInv(name, S), EndOfInput
  PROVE  HexInv(name, S)'
  <1>1. tool = name /\ Input(S) /\ input \in Seq(S) /\ Len(input) \in Nat /\ status = "running"
        /\ rest = <<>> /\ rest' = rest
    BY DEF HexInv, Input, EndOfInput
  <1>2. PICK k \in 0 .. Len(input) : rest = Cut(input, k, Len(input)) /\ Kept(Current, k)
    BY <1>1 DEF HexInv
  <1>3. k = Len(input)
    <2>1. k \in Nat /\ k <= Len(input)
      BY <1>1
    <2>2. Len(rest) = Len(input) - k
      BY <1>1, <1>2, <2>1, EndType
    <2>3. Len(rest) = 0
      BY <1>1
    <2>4. QED
      BY <1>1, <2>1, <2>2, <2>3
  <1> DEFINE z == IF tool = "hexread" THEN HexEnd(Current) ELSE DumpEnd(Current)
  <1>4. Become(z)
    BY DEF EndOfInput
  <1>5. tool' = tool /\ input' = input /\ source' = source
        /\ stdout' = z.out /\ status' = z.status /\ Input(S)'
    BY <1>1, <1>4 DEF Become, Input
  <1>6. CASE tool = "hexread"
    <2>1. ReadState(Current, Len(input))
      BY <1>2, <1>3, <1>6 DEF Kept
    <2>2. z = HexEnd(Current)
      BY <1>6
    <2>3. \/ z.status = "failed" /\ (~Legible(input) \/ GetSize(input) = 0)
          \/ /\ z.status = "done"
             /\ \E x \in Seq(Byte), m \in 0 .. LINE :
                   /\ StandsFor(input, x)
                   /\ z.out = x \o ([i \in 1 .. m |-> Stray] \o Newline)
      BY <1>1, <2>1, <2>2, ReadEndIs, CurrentIs
    <2>. HIDE DEF z
    <2>4. CASE z.status = "done"
      <3>1. Newline' = Newline
        BY <1>5 DEF Newline
      <3>2. PICK x \in Seq(Byte), m \in 0 .. LINE :
               StandsFor(input, x) /\ z.out = x \o ([i \in 1 .. m |-> Stray] \o Newline)
        BY <2>3, <2>4
      <3>3. StandsFor(input', x) /\ stdout' = x \o ([i \in 1 .. m |-> Stray] \o Newline')
        BY <1>5, <3>1, <3>2
      <3>4. QED
        BY <1>1, <1>5, <1>6, <2>4, <3>3 DEF HexInv
    <2>5. CASE z.status = "failed" /\ GetSize(input) = 0
      BY <1>1, <1>5, <1>6, <2>5 DEF HexInv
    <2>6. CASE z.status = "failed" /\ ~Legible(input)
      <3>1. IsState(Current') /\ Current'.status = z.status
        BY <1>5 DEF IsState, Current
      <3>2. Kept(Current, Len(input))'
        BY <1>5, <1>6, <2>6, <3>1 DEF Kept, ReadState
      <3>3. rest' = Cut(input, Len(input), Len(input))' /\ Len(input) \in 0 .. Len(input)
        BY <1>1, <1>2, <1>3, <1>5
      <3>4. \E l \in 0 .. Len(input') : rest' = Cut(input, l, Len(input))' /\ Kept(Current, l)'
        BY <1>5, <3>2, <3>3
      <3>5. QED
        BY <1>1, <1>5, <2>6, <3>4 DEF HexInv
    <2>7. QED
      BY <2>3, <2>4, <2>5, <2>6
  <1>7. CASE tool # "hexread"
    <2>1. DumpState(Current, Len(input)) /\ input \in Seq(Byte)
      BY <1>1, <1>2, <1>3, <1>7 DEF Kept, Input
    <2>2. DumpEnd(Current).out = HexText(input) /\ DumpEnd(Current).status = "done"
      BY <2>1, DumpEndIs
    <2>3. stdout' = HexText(input') /\ status' = "done"
      BY <1>5, <1>7, <2>2
    <2>4. QED
      BY <1>1, <1>5, <1>7, <2>3 DEF HexInv
  <1>8. QED
    BY <1>6, <1>7

LEMMA HexInvStep ==
  ASSUME NEW name \in {"hexdump", "hexread"}, NEW S, HexInv(name, S), [HexStep]_hexVars
  PROVE  HexInv(name, S)'
  <1>1. Input(S) /\ input \in Seq(S) /\ tool \in {"hexdump", "hexread"}
    BY DEF HexInv, Input
  <1>2. status = "running" => Len(rest) \in Nat /\ (rest # <<>> => Len(rest) > 0)
    <2>1. ASSUME status = "running" PROVE rest \in Seq(S)
      <3>1. PICK k \in 0 .. Len(input) : rest = Cut(input, k, Len(input))
        BY <2>1 DEF HexInv
      <3>2. k \in Nat /\ k <= Len(input)
        BY <1>1
      <3>3. QED
        BY <1>1, <3>1, <3>2, EndType
    <2>2. QED
      BY <2>1, EmptySeq
  <1>3. CASE ReadStdin
    <2>1. status = "running"
      BY <1>3 DEF ReadStdin
    <2>2. PICK m \in 1 .. STDIN_MAX[tool] : m <= Len(rest) /\ Take(m)
      BY <1>3 DEF ReadStdin
    <2>3. m \in Nat
      BY <1>1, ReadAssumption
    <2>4. QED
      BY <2>1, <2>2, <2>3, TakeKeeps
  <1>4. CASE ReadFile
    <2> DEFINE m == IF Len(rest) < FILE_MAX THEN Len(rest) ELSE FILE_MAX
    <2>1. status = "running" /\ Take(m)
      BY <1>4 DEF ReadFile
    <2>2. m \in Nat /\ m <= Len(rest)
      BY <1>2, <2>1, ReadAssumption
    <2>. HIDE DEF m
    <2>3. QED
      BY <2>1, <2>2, TakeKeeps
  <1>5. CASE ReadOverrun
    <2>1. status' = "overrun" /\ tool' = tool /\ tool = "hexdump" /\ input' = input
      BY <1>5 DEF ReadOverrun
    <2>2. QED
      BY <1>1, <2>1 DEF HexInv, Input
  <1>6. CASE EndOfInput
    BY <1>6, EndKeeps
  <1>7. CASE UNCHANGED hexVars
    <2>1. /\ tool' = tool /\ input' = input /\ source' = source /\ rest' = rest
          /\ temp_buffer' = temp_buffer /\ bin_bytes' = bin_bytes
          /\ stdout' = stdout /\ status' = status
      BY <1>7 DEF hexVars
    <2>2. QED
      BY <2>1 DEF HexInv, Input, Current, Kept, ReadState, DumpState, Newline
  <1>8. QED
    BY <1>3, <1>4, <1>5, <1>6, <1>7 DEF HexStep

LEMMA DumpsAllFollows ==
  ASSUME HexInv("hexdump", Byte)
  PROVE  DumpsAll
  <1>1. tool = "hexdump" /\ input \in Seq(Byte) /\ Len(input) \in Nat
        /\ (status = "done" => stdout = HexText(input))
    BY DEF HexInv, Input
  <1>2. Len(input) \div LINE \in Nat
    BY <1>1, LineWhole, Divided
  <1>3. CASE input = <<>>
    <2>1. Len(input) = 0
      BY <1>3
    <2>2. Written(input)[0] = <<>>
      <3> DEFINE f == Written(input)
      <3>1. IsText(f, input, Len(input))
        BY <1>1, WrittenIs
      <3>. HIDE DEF f
      <3>2. f[0] = <<>>
        BY <2>1, <3>1 DEF IsText
      <3>3. QED
        BY <3>2 DEF f
    <2>3. BinaryToHex(input) = <<>> \o <<"\n">>
      BY <2>1, <2>2, BinaryToHexIs
    <2>4. <<>> \o <<"\n">> = <<"\n">> /\ Len(<<"\n">>) = 1
      <3>1. \A c : <<c>> \in Seq({c}) /\ Len(<<c>>) = 1
        OBVIOUS
      <3>2. \A c : <<>> \o <<c>> = <<c>>
        BY <3>1, ConcatEmptySeq
      <3>3. QED
        BY <3>1, <3>2
    <2>5. Len(BinaryToHex(input)) = 1
      BY <2>3, <2>4
    <2>6. Len(BinaryToHex(input)) + 1 <= 3 * Len(input) + Len(input) \div LINE + 2
      BY <1>2, <2>1, <2>5
    <2>7. status = "done" => stdout = <<>>
      BY <1>1, <1>3, HexTextEmpty
    <2>8. QED
      BY <1>3, <2>6, <2>7 DEF DumpsAll
  <1>4. CASE input # <<>>
    <2>1. BinaryToHex(input) = HexText(input) /\ Len(HexText(input)) = 3 * Len(input)
      BY <1>1, <1>4, BinaryToHexRows, HexTextIs
    <2>2. Len(BinaryToHex(input)) + 1 <= 3 * Len(input) + Len(input) \div LINE + 2
      BY <1>1, <1>2, <2>1
    <2>3. QED
      BY <1>1, <1>4, <2>1, <2>2 DEF DumpsAll
  <1>5. QED
    BY <1>3, <1>4

LEMMA DecodesTextFollows ==
  ASSUME NEW S, HexInv("hexread", S)
  PROVE  DecodesText
  <1>1. tool = "hexread" /\ input \in Seq(S) /\ Len(input) \in Nat
    BY DEF HexInv, Input
  <1> DEFINE n == GetSize(input) \div 2
             B == Byte \cup {Stray}
  <1>2. ASSUME status = "done"
        PROVE  /\ StandsFor(input, SubSeq(stdout, 1, n))
               /\ \E strays \in 0 .. LINE :
                     SubSeq(stdout, n + 1, Len(stdout)) = [k \in 1 .. strays |-> Stray] \o Newline
    <2>1. PICK x \in Seq(Byte), m \in 0 .. LINE :
             /\ StandsFor(input, x)
             /\ stdout = x \o ([i \in 1 .. m |-> Stray] \o Newline)
      BY <1>1, <1>2 DEF HexInv
    <2> DEFINE strays == [i \in 1 .. m |-> Stray]
               y == strays \o Newline
    <2>2. n = Len(x)
      <3>1. 2 * Len(x) = GetSize(input) /\ Len(x) \in Nat
        BY <2>1 DEF StandsFor
      <3>. HIDE DEF y
      <3>2. QED
        BY <3>1
    <2>3. strays \in Seq(B)
      <3>1. m \in Nat
        BY LineWhole
      <3>2. QED
        BY <3>1
    <2>4. Newline \in Seq(B)
      <3>1. 10 \in B
        BY DEF Byte
      <3>. HIDE DEF B
      <3>2. <<10>> \in Seq(B) /\ <<>> \in Seq(B)
        BY <3>1
      <3>3. QED
        BY <3>2 DEF Newline
    <2>5. x \in Seq(B)
      BY SeqMonotonic
    <2>. HIDE DEF strays, B, n
    <2>6. y \in Seq(B)
      BY <2>3, <2>4, ConcatProperties
    <2>7. stdout = x \o y
      BY <2>1 DEF strays
    <2>8. SubSeq(x \o y, 1, Len(x)) = x /\ SubSeq(x \o y, Len(x) + 1, Len(x \o y)) = y
      <3>. HIDE DEF y
      <3>1. QED
        BY <2>5, <2>6, TwoParts
    <2>9. SubSeq(stdout, 1, n) = x /\ SubSeq(stdout, n + 1, Len(stdout)) = y
      <3>. HIDE DEF y
      <3>1. QED
        BY <2>2, <2>7, <2>8
    <2>10. QED
      BY <2>1, <2>9 DEF strays
  <1>3. ASSUME status = "failed" PROVE ~Legible(input) \/ GetSize(input) = 0
    BY <1>1, <1>3, CurrentIs DEF HexInv, Kept, ReadState
  <1>4. QED
    BY <1>2, <1>3 DEF DecodesText

\* For every length of a line, every number of octets and however they are read from
\* a file, a pipe or a terminal, hexdump writes what binary_to_hex makes of all of them,
\* and that fits the memory reserved for it.
THEOREM DumpsAllHolds ==
  ASSUME NEW from, NEW data \in Seq(Byte)
  PROVE  HexSpec("hexdump", from, data) => []DumpsAll
  <1>1. HexInit("hexdump", from, data) => HexInv("hexdump", Byte)
    BY HexInvInit
  <1>2. HexInv("hexdump", Byte) /\ [HexStep]_hexVars => HexInv("hexdump", Byte)'
    BY HexInvStep
  <1>3. HexInv("hexdump", Byte) => DumpsAll
    BY DumpsAllFollows
  <1>4. QED
    BY <1>1, <1>2, <1>3, PTL DEF HexSpec

\* For every text, of any letters, and however it is read, hexread writes the octets
\* the text stands for, all of them in order and only strays and a line feed behind
\* them, and fails only at a text that stands for none.
THEOREM DecodesTextHolds ==
  ASSUME NEW from, NEW Letters, NEW text \in Seq(Letters)
  PROVE  HexSpec("hexread", from, text) => []DecodesText
  <1>1. HexInit("hexread", from, text) => HexInv("hexread", Letters)
    BY HexInvInit
  <1>2. HexInv("hexread", Letters) /\ [HexStep]_hexVars => HexInv("hexread", Letters)'
    BY HexInvStep
  <1>3. HexInv("hexread", Letters) => DecodesText
    BY DecodesTextFollows
  <1>4. QED
    BY <1>1, <1>2, <1>3, PTL DEF HexSpec
=============================================================================
