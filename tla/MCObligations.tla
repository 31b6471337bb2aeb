---------------------------- MODULE MCObligations ----------------------------
(* Small instances of Obligations for TLC. *)
EXTENDS Obligations, Functions

\* Addresses spread over the groups, one by one.
MCGroup == CHOOSE f \in Injection(Addrs, 1..NumGroups) : TRUE

\* One address per group: META orders the debts of an address by target, then
\* by timestamp.
MCTargetOrder == CHOOSE f \in Injection(Targets, 0..Cardinality(Targets) - 1) : TRUE

MCAddrOrder == CHOOSE f \in Injection(Addrs, 0..Cardinality(Addrs) - 1) : TRUE

MCRank ==
    [d \in Debts |-> 1 + d.ts + (MaxTs + 1) *
        (MCAddrOrder[d.addr] + Cardinality(Addrs) * MCTargetOrder[d.target])]

\* The LOGS keys of one address sort as its timestamps do, those of every other
\* address the other way round.
MCEncoded ==
    [a \in Addrs |-> [v \in Ts |-> IF MCAddrOrder[a] = 0 THEN v ELSE MaxTs - v]]

\* A single address whose keys sort the other way round.
MCInverted == [a \in Addrs |-> [v \in Ts |-> MaxTs - v]]

==============================================================================
