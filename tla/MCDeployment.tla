---------------------------- MODULE MCDeployment ----------------------------
(***************************************************************************)
(* Configuration files and names for the run of Deployment.                *)
(***************************************************************************)
EXTENDS Deployment, TLC

Letters == {"a", "0"}
UpperToLower == "A" :> "a"

\* Names that sanitize alike, that are each other's prefix, and that leave room
\* for all, some or none of the uuid; alone, or two in one file.
SetNames == {<<<<"-", "_">>>>, <<<<"a", "_", "a">>>>, <<<<"a", "a">>>>, <<<<"a", "-", "a", "a">>>>,
             <<<<"a">>, <<"A">>>>, <<<<"a", "_">>, <<"a", "-", "0">>>>}

ShortUUIDs == {<<"0", "a">>}

Set(name) == [name |-> name, url |-> "u", image |-> "i", cpu |-> 0]
Pat    == [appID |-> 0, installationID |-> 0, key |-> Unset, token |-> "t"]
NoAuth == [Pat EXCEPT !.token = Unset]

Base == [address |-> "o", maxVMAge |-> Unset, maxPendingAge |-> Unset, workerStaleAfter |-> Unset,
         workerPruneAfter |-> Unset, github |-> Pat, scaleSets |-> <<Set(<<"a", "-", "a", "a">>)>>]

Durations == {Unset, Bad, -1, 0, 1, 3, 4, 5}

Files ==
    {[Base EXCEPT !.workerStaleAfter = s, !.workerPruneAfter = p] : s, p \in Durations}
    \cup {[Base EXCEPT !.maxVMAge = d] : d \in Durations}
    \cup {[Base EXCEPT !.maxPendingAge = d] : d \in Durations}
    \cup {[Base EXCEPT !.github = g] : g \in {NoAuth, [NoAuth EXCEPT !.key = "k", !.installationID = 1]}}
    \cup {[Base EXCEPT !.address = Unset], [Base EXCEPT !.scaleSets = <<>>],
          [Base EXCEPT !.scaleSets = <<Set(<<>>)>>],
          [Base EXCEPT !.scaleSets = <<[Set(<<"a">>) EXCEPT !.image = Unset]>>]}
    \cup {[Base EXCEPT !.scaleSets = [i \in DOMAIN names |-> Set(names[i])]] : names \in SetNames}

AppEnv == [token |-> Unset, key |-> Unset, appID |-> 7, installationID |-> Bad]
============================================================================
