---------------------------- MODULE MCCliCommands ----------------------------
(***************************************************************************)
(* Invocations on two endpoints, with the flags that matter to each        *)
(* command.                                                                *)
(***************************************************************************)
EXTENDS CliCommands

TwoEndpoints == << [host |-> 1, port |-> 443, named |-> FALSE, latency |-> 20],
                   [host |-> 2, port |-> 443, named |-> TRUE,  latency |-> 30] >>
TwoProviders == << "iplogs", "blackbox" >>

AnOutcome(reachable, score, purity, total, successes, errs) ==
    [at |-> 0, reachable |-> reachable, latency |-> 20, score |-> score, purity |-> purity,
     total |-> total, successes |-> successes, errs |-> errs]

\* Without providers: reachable is clean, unreachable is unknown.
PlainOutcomes == { AnOutcome(TRUE, 0, "clean", 0, 0, <<>>), AnOutcome(FALSE, 0, "unknown", 0, 0, <<>>) }

JudgedOutcomes ==
    { AnOutcome(TRUE,  0,  "clean",        2, 2, <<>>),
      AnOutcome(TRUE,  0,  "clean",        2, 1, << "blackbox" >>),
      AnOutcome(TRUE,  0,  "unknown",      2, 0, << "blackbox", "iplogs" >>),
      AnOutcome(FALSE, 0,  "unknown",      0, 0, << DnsFailed >>),
      AnOutcome(FALSE, 0,  "clean",        2, 2, <<>>),
      AnOutcome(TRUE,  60, "clean",        2, 2, <<>>),
      AnOutcome(TRUE,  20, "vpn_likely",   2, 2, <<>>),
      AnOutcome(FALSE, 85, "vpn_detected", 2, 1, << "blackbox" >>) }

Shape(score, anonymizer, datacenter, purity) ==
    [score |-> score, anonymizer |-> anonymizer, datacenter |-> datacenter,
     purity |-> purity, country |-> NoCountry]

ProviderReports ==
    { Shape(0,   FALSE, FALSE, ""),        Shape(0,  FALSE, FALSE, "clean"),
      Shape(60,  FALSE, FALSE, "clean"),   Shape(30, TRUE,  FALSE, ""),
      Shape(40,  FALSE, TRUE,  ""),        Shape(20, FALSE, FALSE, ""),
      Shape(150, FALSE, FALSE, "unknown"), Shape(30, TRUE,  FALSE, "other") }

Invocation(command, failOnAbuse, asks, interactive, resolves, export, filter) ==
    [command |-> command, failOnAbuse |-> failOnAbuse, asks |-> asks,
     interactive |-> interactive, resolves |-> resolves, export |-> export, filter |-> filter]

AllInvocations ==
    {Invocation(command, fail, asks, FALSE, resolves, "none", "all") :
        command \in {"check", "report"}, fail \in BOOLEAN, asks \in BOOLEAN, resolves \in BOOLEAN}
    \cup
    {Invocation(command, fail, asks, interactive, TRUE, export, filter) :
        command \in {"batch", "import"}, fail \in BOOLEAN, asks \in BOOLEAN,
        interactive \in BOOLEAN, export \in {"none", "endpoints", "links", "unsupported"},
        filter \in {"all", "clean", "errors"}}
=============================================================================
