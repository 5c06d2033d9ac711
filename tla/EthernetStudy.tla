--------------------------- MODULE EthernetStudy ---------------------------
(***************************************************************************)
(* src/ethernet-study/hub.c and switch.c: in every slot some of n devices  *)
(* transmit; on a hub all who do collide, on a switch those who send to    *)
(* the same port. One action is one turn of the while loop.                *)
(***************************************************************************)
EXTENDS Naturals, FiniteSets

CONSTANT MaxSlots       \* the second argument of the programs

VARIABLES
    network,            \* "hub" or "switch", which of the programs runs
    src_ports,          \* the devices
    dst_port,           \* what each device holds; a switch's frames go there
    transmitting,       \* who sent in the last slot
    slot,
    attempted_transmission, successful_transmission, failed_transmission

counters == <<attempted_transmission, successful_transmission, failed_transmission>>
studyVars == <<network, src_ports, dst_port, transmitting, slot, counters>>

\* malloc does not clear dst_port: any ports, or none, may be in it.
StudyInit(kind, n) ==
    /\ network = kind
    /\ src_ports = 0 .. (n - 1)
    /\ dst_port \in [0 .. (n - 1) -> 0 .. n]
    /\ transmitting = {}
    /\ slot = 0
    /\ attempted_transmission = 0
    /\ successful_transmission = 0
    /\ failed_transmission = 0

\* Mutants of HubCollided and of SwitchCollided: j runs from i + 1 only; the
\* ports of devices that do not send are compared too.
HubCollidedLater(senders) == {i \in senders : \E j \in senders : j > i}
SwitchCollidedStale(senders, dst) ==
    {i \in senders : \E j \in src_ports \ {i} : dst[i] = dst[j]}

\* col_det, as the set of the devices it lists, as if its array had room for all pairs.
HubCollided(senders) == {i \in senders : \E j \in senders : i # j}

SwitchCollided(senders, dst) ==
    {i \in senders : \E j \in senders \ {i} : dst[i] = dst[j]}

\* The loop over the devices counts those in the collision list as failed; with
\* an empty list all succeed, and with another one "others" do.
Count(senders, collided, others) ==
    /\ transmitting' = senders
    /\ attempted_transmission' = attempted_transmission + Cardinality(senders)
    /\ failed_transmission' = failed_transmission + Cardinality(senders \cap collided)
    /\ successful_transmission' = successful_transmission +
           Cardinality(IF collided = {} THEN senders ELSE others)

HubSlot ==
    /\ network = "hub"
    /\ \E senders \in SUBSET src_ports : Count(senders, HubCollided(senders), {})
    /\ UNCHANGED dst_port

\* rand_dst_prt is drawn until it is another port than the device's.
SwitchSlot ==
    /\ network = "switch"
    /\ \E senders \in SUBSET src_ports :
       \E dst \in [src_ports -> src_ports \cup {Cardinality(src_ports)}] :
          /\ \A i \in src_ports : IF i \in senders THEN dst[i] \in src_ports \ {i}
                                                   ELSE dst[i] = dst_port[i]
          /\ dst_port' = dst
          /\ LET collided == SwitchCollided(senders, dst)
             IN  Count(senders, collided, senders \ collided)

StudySlot ==
    /\ Cardinality(src_ports) # 1       \* 100% is printed at once
    /\ slot < MaxSlots
    /\ HubSlot \/ SwitchSlot
    /\ slot' = slot + 1
    /\ UNCHANGED <<network, src_ports>>

StudySpec(kind, n) == StudyInit(kind, n) /\ [][StudySlot]_studyVars

-----------------------------------------------------------------------------
(* Properties.                                                             *)

\* Every transmission ends up as a success or a failure, although the hub's
\* loop counts neither for a sender that col_det leaves out of its list.
AttemptsAccounted ==
    attempted_transmission = successful_transmission + failed_transmission

\* The medium of a hub, and each port of a switch, carries one frame in a slot:
\* a transmission succeeds if no other is made to the same place in the same
\* slot, whatever the devices that are silent sent before.
To(i) == IF network = "hub" THEN 0 ELSE dst_port'[i]

PortCarriesOne ==
    [][successful_transmission' - successful_transmission =
          Cardinality({p \in src_ports :
                          Cardinality({i \in transmitting' : To(i) = p}) = 1})]_studyVars
=============================================================================
