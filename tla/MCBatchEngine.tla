---------------------------- MODULE MCBatchEngine ----------------------------
(***************************************************************************)
(* Small instances of BatchEngine.                                         *)
(***************************************************************************)
EXTENDS BatchEngine

Target(host, port, named, latency) ==
    [host |-> host, port |-> port, named |-> named, latency |-> latency]

Two   == << Target(2, 443, FALSE, 30), Target(1, 443, TRUE, 30) >>
Three == << Target(2, 443, FALSE, 30), Target(1, 80, TRUE, 50), Target(2, 443, FALSE, 10) >>
One   == << Target(1, 443, FALSE, 30) >>

OneProvider    == << "iplogs" >>
TwoProviders   == << "iplogs", "blackbox" >>
ThreeProviders == << "iplogs", "blackbox", "rustyip" >>

Shape(score, anonymizer, purity, country) ==
    [score |-> score, anonymizer |-> anonymizer, datacenter |-> FALSE,
     purity |-> purity, country |-> country]

CleanReport == Shape(0, FALSE, "", "US")
VpnReport   == Shape(85, TRUE, "vpn_detected", "DE")
CleanOnly   == {CleanReport}
BothReports == {CleanReport, VpnReport}

Options(sort, filter, abuse) == [sort |-> sort, filter |-> filter, abuse |-> abuse]

\* Every sort and filter without --abuse, and two that Run rejects.
PoolConfigs ==
    {Options(s, "all", FALSE) : s \in {"latency", "host", "port"}}
      \cup {Options("", f, FALSE) : f \in {"reachable", "unreachable", "errors"}}
      \cup {Options("speed", "all", FALSE), Options("", "fast", FALSE)}
AbuseConfigs == {Options("abuse", "all", TRUE)}
CleanConfigs == {Options("abuse", "clean", TRUE)}
=============================================================================
