----------------------------- MODULE MCManager -----------------------------
(***************************************************************************)
(* Fleets and scale sets for the runs of Manager.                          *)
(***************************************************************************)
EXTENDS Manager, TLC

CONSTANTS ios, mac,   \* scale sets
          w1, w2      \* workers

SlotSet(labels) == [labels |-> labels, autoSize |-> FALSE, reserve |-> [cpu |-> 4, mem |-> 4], maxRunners |-> 0]
AutoSet(labels) == [labels |-> labels, autoSize |-> TRUE, reserve |-> [cpu |-> 4, mem |-> 4], maxRunners |-> 0]

OneSet      == ios :> SlotSet({})
TwoSets     == ios :> SlotSet({}) @@ mac :> SlotSet({})
MixedSets   == ios :> AutoSet({}) @@ mac :> [SlotSet({}) EXCEPT !.maxRunners = 2]
StaticAutoSet == ios :> [AutoSet({}) EXCEPT !.maxRunners = 1]
TwoAutoSets == ios :> AutoSet({}) @@ mac :> AutoSet({})

Mac(slots, pin) ==
    [age |-> 0, labels |-> {}, pin |-> pin, paused |-> FALSE, slots |-> slots, cores |-> 8, mem |-> 8]

OneSlotMac == w1 :> Mac(1, "p1")
TwoSlotMac == w1 :> Mac(2, "p1")
TwinMacs   == w1 :> Mac(1, "p1") @@ w2 :> Mac(2, "p1")

NoJob    == [s \in ScaleSets |-> 0]
OneJob   == [s \in ScaleSets |-> 1]
TwoJobs  == [s \in ScaleSets |-> 2]
MoreForMac == [s \in ScaleSets |-> IF s = mac THEN 2 ELSE 1]
============================================================================
