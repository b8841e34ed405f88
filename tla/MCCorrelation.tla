--------------------------- MODULE MCCorrelation ---------------------------
(* Instances of Correlation for TLC.  Each configuration takes the rules   *)
(* and the conditions its question is about; a rule none of whose          *)
(* conditions can occur does nothing, so it is left out of RuleSeq.        *)
EXTENDS Correlation, TLC

CONSTANTS h1, h2, r1, r2

(* Topologies: no parents; h2 behind h1.                                   *)
Flat == [h \in Hosts |-> NoParent]
Chain == [h \in Hosts |-> IF h = h2 THEN h1 ELSE NoParent]

OneSubnet == [h \in Hosts |-> "lan"]
AllOnH1 == [i \in Integrations |-> h1]

NoSignals == {}

DownRules == <<"host_down_syslog">>
DownConditions == {Down(h1), Down(h2), Errors(h1), DiskFull}
OneDownConditions == {Down(h1), Errors(h1)}
DownAndPrecursors == <<"host_down_syslog", "precursor_observed">>

RowSymmetry == Permutations(Ids)
=============================================================================
