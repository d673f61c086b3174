-------------------------- MODULE MCDeliveryRaces --------------------------
(***************************************************************************)
(* CommandDelivery for TLC, in every deployment of a few processes: two    *)
(* cores and a worker as well as a core and two workers, without the       *)
(* product of the two.                                                     *)
(***************************************************************************)
EXTENDS CommandDelivery, TLC

CONSTANT Processes      \* bound: the number of processes that run

VARIABLE deployment     \* those processes; the others never start

Deployments ==
    {D \in SUBSET (Cores \cup Workers) :
        Cardinality(D) = Processes /\ D \cap Cores # {} /\ D \cap Workers # {}}

RaceInit == DeliveryInit /\ deployment \in Deployments

RaceNext ==
    /\ DeployedNext(Cores \cap deployment, Workers \cap deployment)
    /\ UNCHANGED deployment

RaceSpec == RaceInit /\ [][RaceNext]_<<vars, deployment>>

Symmetry == Permutations(Cores) \cup Permutations(Workers)
=============================================================================
