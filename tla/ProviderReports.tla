--------------------------- MODULE ProviderReports ---------------------------
(***************************************************************************)
(* What the clients of the intelligence services make of their answers:    *)
(* the Check methods of pkg/abuse/providers.  An answer that names VPN,    *)
(* proxy or Tor is an anonymizer's, as in PurityVerdict; hosting is any of *)
(* the keys hosting and datacenter.  Whether a value was a Boolean, a word *)
(* or a number (boolFromKeys, intFromKeys) is left out, and so are the     *)
(* rounding of fractions and the fields no verdict reads.                  *)
(***************************************************************************)
EXTENDS PurityVerdict

MakeReport(score, anonymizer, datacenter, purity, country) ==
    [score |-> score, anonymizer |-> anonymizer, datacenter |-> datacenter,
     purity |-> purity, country |-> country]

\* The score of a service that gives none.
SignalScore(a) == IF a.anonymizer THEN 70 ELSE IF a.hosting THEN 40 ELSE 0

Blackbox(flagged) ==
    MakeReport(IF flagged THEN 60 ELSE 0, flagged, flagged, NoVerdict, NoCountry)

\* google-dns and cloudflare-dns: an answer is no evidence of anything.
DNS == MakeReport(0, FALSE, FALSE, NoVerdict, NoCountry)

\* ipapi.is: the service's own score, whatever the flags.
IPAPI(a) == MakeReport(a.score, a.anonymizer, a.hosting, NoVerdict, a.country)

\* ip-api.com.
IPAPICom(a) == MakeReport(SignalScore(a), a.anonymizer, a.hosting, NoVerdict, a.country)

RustyIP(a) == MakeReport(SignalScore(a), a.anonymizer, a.hosting, NoVerdict, NoCountry)

\* A score of 0 counts as none.
IPPriv(a) ==
    MakeReport(IF a.score = 0 THEN SignalScore(a) ELSE a.score,
               a.anonymizer, a.hosting, NoVerdict, a.country)

\* iplookup.it looks for the same under fewer names.
IPLookup(a) == IPPriv(a)

\* The words iplogs may use for its verdict; any other word stands for itself.
NormalizeIPLogsVerdict(word) ==
    CASE word \in {"vpn_detected", "detected"}                            -> "vpn_detected"
      [] word \in {"vpn_likely", "vpn", "proxy", "proxy_detected"}        -> "vpn_likely"
      [] word \in {"suspicious", "datacenter", "hosting", "data_center"}  -> "suspicious"
      [] word \in {"clean", "residential", "ok", "safe"}                  -> "clean"
      [] OTHER                                                            -> word

\* Words are searched for others within them: "not_detected" says "detected".
\* Here "vpn" stands for vpn and proxy.
Says(word, part) ==
    word \in CASE part = "detected"   -> {"vpn_detected", "not_detected"}
               [] part = "vpn"        -> {"vpn_detected", "vpn_likely", "no_vpn"}
               [] part = "suspicious" -> {"suspicious", "not_suspicious"}

\* Names of signals are searched as well, for vpn, proxy and tor before hosting
\* and datacenter: "monitored" counts as tor, "vpn_hosting" as vpn alone.
AnonymizerSignals == {"vpn", "open_proxy", "tor_exit", "monitored", "vpn_hosting"}
HostingSignals    == {"hosting", "datacenter_range"}

\* Scores from 0 to 1 are fractions, 1 itself too.  Here in hundredths.
NormalizedIPLogsScore(hundredths) ==
    IF hundredths \in 0..100 THEN hundredths ELSE hundredths \div 100

ScoreFromIPLogsVerdict(verdict, anonymizer, datacenter) ==
    IF Says(verdict, "detected") \/ anonymizer THEN 70
    ELSE IF Says(verdict, "vpn") THEN 60
    ELSE IF Says(verdict, "suspicious") \/ datacenter THEN 50
    ELSE 0

\* iplogs, the one service whose verdict is taken as it is.
IPLogs(a) ==
    LET verdict    == NormalizeIPLogsVerdict(a.verdict)
        score      == NormalizedIPLogsScore(a.score)
        anonymizer == a.anonymizer \/ a.signals \cap AnonymizerSignals # {}
        datacenter == a.hosting \/ a.signals \cap HostingSignals # {}
    IN  MakeReport(IF score = 0 THEN ScoreFromIPLogsVerdict(verdict, anonymizer, datacenter)
                   ELSE score,
                   anonymizer, datacenter,
                   IF verdict \in Stated THEN verdict ELSE "other", a.country)
=============================================================================
