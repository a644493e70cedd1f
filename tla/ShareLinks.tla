----------------------------- MODULE ShareLinks -----------------------------
(***************************************************************************)
(* What the import formats hold: pkg/v2rayn, uri_parser.go, scanner.go and *)
(* sqlite_reader.go.                                                       *)
(*                                                                         *)
(* A text is [wrapped, json, parts]: how many times it was encoded in      *)
(* base64, whether it is a JSON document, and its parts in order.  A part  *)
(* is [kind, key, spaced, length]: one endpoint as a share link, as a      *)
(* server of a JSON document (SIP008) or as a peer of a WireGuard file, or *)
(* a blob, a line of base64 beside others; "nothing" is a line that names  *)
(* no endpoint.  An endpoint is its comparison key; spaced tells that the  *)
(* part has spaces within it, and length that it has a line of 64 KiB      *)
(* ("long") or of 8 MiB ("huge") and more, or none ("short").  A parsed    *)
(* endpoint is [key, link]: link tells that its share link was kept        *)
(* (RawURI).                                                               *)
(***************************************************************************)
EXTENDS Lists

\* A bufio.Scanner stops for good at a line over its limit, and nobody asks it
\* for the error: the line and all that follow are as if they were not there.
Scanned(text, over) ==
    {n \in DOMAIN text.parts : \A m \in 1..n : text.parts[m].length \notin over}

\* The endpoints of one kind among the parts at some places.
OfKind(text, kind, places) ==
    LET chosen == Keep(text.parts, {n \in places : text.parts[n].kind = kind})
    IN  [n \in DOMAIN chosen |-> [key |-> chosen[n].key, link |-> kind = "link"]]

\* Only a text that is JSON as a whole has servers; only links keep their text.
ParseSIP008(text) == IF text.json THEN OfKind(text, "server", DOMAIN text.parts) ELSE <<>>

\* The scanner's own limit is 64 KiB a line.
ParseWireGuardINI(text) == OfKind(text, "peer", Scanned(text, {"long", "huge"}))

\* parseContentDepth gives its scanner a limit of 8 MiB.
ParseLines(text) == OfKind(text, "link", Scanned(text, {"huge"}))

Found(text) ==
    IF text.wrapped > 0 THEN <<>>
    ELSE ParseSIP008(text) \o ParseWireGuardINI(text) \o ParseLines(text)

\* The look at what a base64 text decodes to; base64 itself never looks so.
LooksLikeSubscriptionContent(text) ==
    text.wrapped = 0 /\ (text.json \/ \E n \in DOMAIN text.parts : text.parts[n].kind \in {"link", "peer"})

\* A text is decoded only when it holds nothing as it is, and what it decodes
\* to is parsed as a subscription in turn.
ParseOrDecode(text, Parse(_)) ==
    LET decoded == [text EXCEPT !.wrapped = @ - 1]
    IN  CASE Found(text) # <<>> -> Found(text)
          [] /\ Found(text) = <<>>
             /\ text.wrapped > 0
             /\ LooksLikeSubscriptionContent(decoded) -> Parse(decoded)
          [] OTHER -> <<>>

\* parseContentDepth, at depth 2, 1 and 0; it decodes at depths below 2.
ParseInnermost(text) == Found(text)
ParseInner(text)     == ParseOrDecode(text, ParseInnermost)
ParseContent(text)   == ParseOrDecode(text, ParseInner)

\* splitSubscriptionTokens cuts at spaces and commas: the fields of a server
\* come apart, and so does a peer with spaces; a link keeps its beginning.
\* Base64 stays whole, but beside other tokens it is not decoded.
Shattered(text) ==
    [n \in DOMAIN text.parts |->
        LET part == text.parts[n]
        IN  IF \/ text.wrapped > 0
               \/ part.kind = "server"
               \/ part.kind = "peer" /\ part.spaced
            THEN [part EXCEPT !.kind = "nothing"]
            ELSE part]

\* The tokens of pasted texts, put together again line by line.  (Of several
\* base64 texts in one paste the padding of the first makes all undecodable.)
Joined(texts) ==
    IF Len(texts) = 1 /\ texts[1].wrapped > 0 THEN texts[1]
    ELSE [wrapped |-> 0, json |-> FALSE,
          parts |-> Flatten([i \in DOMAIN texts |-> Shattered(texts[i])])]

\* Which file of a v2rayN folder is looked at.
Discover(folder) ==
    CASE folder.database                                       -> "database"
      [] ~folder.database /\ (folder.guiConfig \/ folder.binConfig)  -> "config"
      [] OTHER                                                 -> "nothing"

\* The rows the query selects: custom profiles and those without an address or
\* a port are left out before anything is scanned.
Selected(folder) ==
    Keep(folder.rows, {n \in DOMAIN folder.rows : folder.rows[n].type # "custom"})

\* A NULL in one selected row fails the whole read.
ProfilesReadable(folder) ==
    folder.opens /\ \A n \in DOMAIN Selected(folder) : ~Selected(folder)[n].null

\* Rows of a type the program does not know are passed over.
ReadProfiles(folder) ==
    LET selected == Selected(folder)
        known == Keep(selected, {n \in DOMAIN selected : selected[n].type = "known"})
    IN  [n \in DOMAIN known |-> [key |-> known[n].key, link |-> FALSE]]
=============================================================================
