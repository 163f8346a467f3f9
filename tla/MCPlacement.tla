---------------------------- MODULE MCPlacement ----------------------------
(***************************************************************************)
(* Two Macs and three hostnames; two AutoSize scale sets, one of which     *)
(* only accepts Macs labelled xcode.                                       *)
(***************************************************************************)
EXTENDS Placement, TLC

CONSTANTS h1, h2, anyMac, xcodeMac

MCSettings == anyMac   :> [labels |-> {}, autoSize |-> TRUE, reserve |-> [cpu |-> 4, mem |-> 4]]
           @@ xcodeMac :> [labels |-> {"xcode"}, autoSize |-> TRUE, reserve |-> [cpu |-> 4, mem |-> 4]]

Mac(labels, pin) == [labels |-> labels, pin |-> pin, slots |-> 2, cores |-> 8, mem |-> 8]

MCSpec0 == h1 :> Mac({"xcode"}, "p1") @@ h2 :> Mac({}, "p2")

Interchangeable == Permutations(Names) \cup Permutations(VMIds)
============================================================================
