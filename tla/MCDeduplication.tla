--------------------------- MODULE MCDeduplication ---------------------------
(***************************************************************************)
(* Two files of up to three lines to dedupe; texts of up to four parts to  *)
(* import, one or two at a time.                                           *)
(***************************************************************************)
EXTENDS Deduplication

\* No endpoint, one, two on one line (a subscription's JSON), a line to reject.
\* A file that cannot be read fails like one that holds nothing.
Lines == { <<>>, << "a" >>, << "b" >>, << "a", "b" >>, Malformed }
Files == {[kind |-> "file", lines |-> l] : l \in UNION {[1..n -> Lines] : n \in 0..3}}

PartOf(kind, key, spaced, length) ==
    [kind |-> kind, key |-> key, spaced |-> spaced, length |-> length]

Part(kind, key, spaced) == PartOf(kind, key, spaced, "short")

Links   == {Part("link", "a", FALSE), Part("link", "b", TRUE)}
Peers   == {Part("peer", "a", FALSE), Part("peer", "c", TRUE)}
Servers == {Part("server", "b", FALSE), Part("server", "c", FALSE)}
Others  == {Part("blob", "c", FALSE), Part("nothing", "a", FALSE)}

PartsOf(kinds, sizes) == UNION {[1..n -> kinds] : n \in sizes}

\* Plain or encoded once, twice or three times.
Texts ==
    [wrapped: {0, 1}, json: {TRUE}, parts: PartsOf(Servers, {1, 2})]
    \cup [wrapped: 0..3, json: {FALSE}, parts: PartsOf(Links \cup Peers \cup Others, {1, 2})]
    \cup [wrapped: {0}, json: {FALSE}, parts: PartsOf(Links \cup {Part("link", "c", FALSE)}, {3, 4})]

\* Links and peers before, on and after lines that are too long for a scanner.
Long == {PartOf("nothing", "a", TRUE, "long"), PartOf("link", "b", FALSE, "long")}
Huge == {PartOf("nothing", "a", FALSE, "huge")}
Unscanned(parts) ==
    [wrapped: {0, 1}, json: {FALSE},
     parts: PartsOf({Part("link", "a", FALSE), Part("peer", "c", FALSE)} \cup parts, {1, 2, 3})]

FewTexts ==
    [wrapped: {0, 1}, json: {FALSE}, parts: PartsOf(Links, {1, 2}) \cup PartsOf(Peers, {1})]
    \cup [wrapped: {0, 1}, json: {TRUE}, parts: PartsOf(Servers, {1})]

URL(scheme, status, broken, text) ==
    [kind |-> "url", scheme |-> scheme, status |-> status, broken |-> broken, text |-> text]

URLs(texts) ==
    {URL("https", 200, broken, text) : broken \in BOOLEAN, text \in texts}
    \cup {URL(scheme, status, FALSE, CHOOSE text \in texts : TRUE) :
              scheme \in {"http", "ftp"}, status \in {0, 199, 200, 299, 300, 404}}

Given(command, sources) == [command |-> command, sources |-> sources]

Row(type, null, key) == [type |-> type, null |-> null, key |-> key]
Rows == [type: {"known", "unknown", "custom"}, null: BOOLEAN, key: {"a", "b"}]

Pasted(texts) == {[kind |-> "text", text |-> t] : t \in texts}

AllInputs ==
    {Given("dedupe", << f, g >>) : f \in Files, g \in Files}
    \cup {Given("link", << [kind |-> "document", exists |-> e, text |-> t] >>) :
             e \in BOOLEAN, t \in Texts \cup Unscanned(Long \cup Huge)}
    \cup {Given("url", << u >>) : u \in URLs(Texts \cup Unscanned(Long))}
    \cup {Given("url", << u, [kind |-> "blank"], v >>) : u \in URLs(FewTexts), v \in URLs(FewTexts)}
    \cup {Given("paste", << u, v >>) :
             u \in URLs(FewTexts) \cup Pasted(FewTexts), v \in URLs(FewTexts) \cup Pasted(FewTexts)}
    \cup {Given("paste", << t >>) : t \in Pasted(Texts)}
    \cup {Given("v2rayn", << [kind |-> "folder", database |-> d, guiConfig |-> g, binConfig |-> b,
                              opens |-> o, rows |-> r] >>) :
             d \in BOOLEAN, g \in BOOLEAN, b \in BOOLEAN, o \in BOOLEAN,
             r \in PartsOf(Rows, {0, 1, 2})}
=============================================================================
