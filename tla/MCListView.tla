------------------------------ MODULE MCListView ------------------------------
(***************************************************************************)
(* Small instances of ListView.                                            *)
(***************************************************************************)
EXTENDS ListView

Target(host, port, latency) ==
    [host |-> host, port |-> port, named |-> FALSE, latency |-> latency]

\* Position 4 is the endpoint of position 1 again.
FourTargets == << Target(2, 443, 30), Target(1, 80, 20), Target(3, 443, 10),
                  Target(2, 443, 30) >>
NoProviders == <<>>

Item(at, protocol, country, reachable, score, purity) ==
    [at |-> at, protocol |-> protocol, country |-> country, reachable |-> reachable,
     latency |-> Endpoints[at].latency, score |-> score, purity |-> purity,
     errs |-> <<>>, successes |-> 0, total |-> 0]

\* As a provider has judged it.
Judged(at, protocol, country, reachable, score, purity) ==
    [Item(at, protocol, country, reachable, score, purity)
        EXCEPT !.successes = 1, !.total = 1]

\* A batch with a repeated endpoint, sorted by abuse.  Two providers write the
\* name of a country in two ways.
Batch == << Judged(1, "", "Korea, Republic of", TRUE, 85, "vpn_detected"),
            Judged(4, "", "Korea, Republic of", TRUE, 85, "vpn_detected"),
            Judged(3, "", "Korea (Republic of)", FALSE, 60, "suspicious"),
            Judged(2, "", "", TRUE, 0, "clean") >>

\* An import, of which the UI gets each reachable endpoint once.
Imported == << Judged(1, "vless", "Korea, Republic of", TRUE, 85, "vpn_detected"),
               Judged(2, "vless", "", TRUE, 0, "clean") >>

StartLists   == { <<>>, Batch, Imported }
DedupedLists == { << Item(2, "", "", FALSE, 0, "unknown") >> }

\* Results of a batch, reachable or not, and of an import.
Results == { Item(1, "", "", TRUE, 0, "clean"),
             Item(1, "", "", FALSE, 0, "unknown"),
             Item(3, "vless", "", FALSE, 0, "unknown") }

\* "4" is in a port, "vpn" in a verdict and in the name of a host.
Typed == [text \in {"4", "vpn"} |->
            IF text = "4" THEN [texts |-> {}, hosts |-> {}, ports |-> {443}]
            ELSE [texts |-> {"vpn_detected", "vpn_likely"}, hosts |-> {1}, ports |-> {}]]

AllLabels == << "Korea (Republic of)", "Korea, Republic of",
                "Unknown Protocol", "Unknown Region", "vless" >>
Slugs == [label \in {AllLabels[i] : i \in DOMAIN AllLabels} |->
            CASE label \in {AllLabels[1], AllLabels[2]} -> "korea-republic-of"
              [] label = "Unknown Protocol"  -> "unknown-protocol"
              [] label = "Unknown Region"    -> "unknown-region"
              [] label = "vless"             -> "vless"]
=============================================================================
