--------------------------- MODULE MCEvidenceMerge ---------------------------
(***************************************************************************)
(* Answers of the built-in services, and the reports made of them.         *)
(***************************************************************************)
EXTENDS EvidenceMerge, ProviderReports

\* Scores below the scale, at its ends, at the thresholds and above it.
Lookups ==
    [anonymizer: BOOLEAN, hosting: BOOLEAN, score: {-5, 0, 20, 50, 150}, country: {"DE"}]

Signals == [anonymizer: BOOLEAN, hosting: BOOLEAN, score: {0}, country: {NoCountry, "US"}]

\* iplogs states a verdict, or leaves it to the signals.
Stating ==
    [verdict: {NoVerdict, "residential", "not_detected", "unknown", "no_vpn"}, score: {0},
     anonymizer: {FALSE}, hosting: {FALSE}, signals: {{}, {"monitored"}, {"hosting"}}, country: {"US"}]
    \cup
    [verdict: {"clean", "vpn", "hosting", "detected", "not_suspicious"}, score: {0, 49, 100, 6000},
     anonymizer: {FALSE}, hosting: {FALSE}, signals: {{}}, country: {NoCountry}]

AllReports ==
    {DNS} \cup {Blackbox(f) : f \in BOOLEAN}
    \cup {IPAPI(a) : a \in Lookups} \cup {IPPriv(a) : a \in Lookups} \cup {IPLookup(a) : a \in Lookups}
    \cup {IPAPICom(a) : a \in Signals} \cup {RustyIP(a) : a \in Signals}
    \cup {IPLogs(a) : a \in Stating}
=============================================================================
