------------------------ MODULE MCGarbageCollector ------------------------
(* Small instances of GarbageCollector. *)
EXTENDS GarbageCollector, SequencesExt

\* The addresses in some order; the first groups take one, the last the rest.
Listed == SetToSeq(Addrs)
MCOrder == [a \in Addrs |-> CHOOSE i \in DOMAIN Listed : Listed[i] = a]
MCGroup == [a \in Addrs |-> IF MCOrder[a] < NumGroups THEN MCOrder[a] ELSE NumGroups]

\* The keys of the third address sort against its timestamps.
MCEncoded ==
    [a \in Addrs |->
        [v \in Ts |-> IF MCOrder[a] = 3 THEN MaxTs - v ELSE v]]

\* All of them do.
MCInverted == [a \in Addrs |-> [v \in Ts |-> MaxTs - v]]

===========================================================================
