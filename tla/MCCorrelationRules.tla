------------------------- MODULE MCCorrelationRules -------------------------
(* Two instances of Correlation over one table of incidents for TLC: the   *)
(* rules about several hosts and their services, and the rules about logs. *)
(* A rule none of whose conditions can occur does nothing, so it is left   *)
(* out of RuleSeq.                                                         *)
EXTENDS Naturals, TLC

CONSTANTS
    h1, h2, h3, i1, NoParent, Rows,
    MinCycles, MaxDelay, MaxAcks, MaxChanges, MaxRestarts

VARIABLES
    part,   \* the rules this behaviour is about
    world, inc, hits, seen, phase, pos, known, offline, allOk, toResolve, acking, restarts, changed

(* Two templates of the fleet rule share one incident ([0] as host ids)    *)
(* and have a streak each; a precursor of a known host.                    *)
Fleet1 == [job |-> "fleet_wide", rule |-> "fleet_wide_issue", subject |-> "t1", hosts |-> {}]
Fleet2 == [job |-> "fleet_wide", rule |-> "fleet_wide_issue", subject |-> "t2", hosts |-> {}]
Precursor == [job |-> "precursor_observed", rule |-> "learned_precursor", subject |-> "p1", hosts |-> {h1}]

Hosts == {h1, h2, h3}
S == INSTANCE Correlation WITH
    Parent <- [h \in Hosts |-> NoParent], Subnet <- [h \in Hosts |-> "lan"],
    Integrations <- {i1}, HostOf <- [i \in {i1} |-> h1], Signals <- {},
    RuleSeq <- <<"multi_host_down", "integration_host", "port_error">>,
    Conditions <- {<<"down", h>> : h \in Hosts} \cup {<<"snap", i1>>, <<"port", h1>>, <<"maint", h1>>},
    ResolveAfter <- 1, Ids <- Rows
L == INSTANCE Correlation WITH
    Hosts <- {h1}, Parent <- [h \in {h1} |-> NoParent], Subnet <- [h \in {h1} |-> "lan"],
    Integrations <- {}, HostOf <- [i \in {} |-> h1], Signals <- {Fleet1, Fleet2, Precursor},
    RuleSeq <- <<"fleet_wide", "precursor_observed">>,
    Conditions <- {<<"signal", s>> : s \in {Fleet1, Fleet2, Precursor}} \cup {<<"disk", "full">>},
    ResolveAfter <- 2, Ids <- Rows

vars ==
    <<part, world, inc, hits, seen, phase, pos, known, offline, allOk, toResolve, acking, restarts, changed>>
Init ==
    \/ part = "services" /\ S!Init
    \/ part = "logs" /\ L!Init
Next ==
    \/ part = "services" /\ S!Next /\ UNCHANGED part
    \/ part = "logs" /\ L!Next /\ UNCHANGED part
Spec == Init /\ [][Next]_vars

(* The rows of the table are alike.                                        *)
RowSymmetry == Permutations(Rows)

(* "Auto-resolve incidents where all affected hosts are back online": an   *)
(* incident of the multi-host, integration and port rules is resolved      *)
(* automatically only if at some point of the cycle its hosts were fine.   *)
ResolvedHonestly == S!ResolvedHonestly

(* "error rate returned to normal": a complete cycle that counted a        *)
(* confirmed streak does not time out the incident of that streak, also    *)
(* when two templates share the incident.                                  *)
QuietResolvedHonestly == L!QuietResolvedHonestly
=============================================================================
