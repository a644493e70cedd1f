---------------------------- MODULE Deduplication ----------------------------
(***************************************************************************)
(* From sources to a list without repetitions.  purelink dedupe reads      *)
(* files in turn, all or nothing, and reports collisions                   *)
(* (internal/engine/dedupe.go, ParseReader of parser.go).  The imports     *)
(* read a file of links, subscriptions, what was pasted or a v2rayN        *)
(* folder, all or nothing as well, and keep the first of each endpoint     *)
(* (internal/importer).                                                    *)
(*                                                                         *)
(* An endpoint is its comparison key (Endpoint.Normalize); which spelling  *)
(* of it was kept is told by the position in the inputs it was kept from.  *)
(* A line of a file is the sequence of the endpoints on it, empty for a    *)
(* blank line or a comment, and Malformed when it does not parse; for what *)
(* the imports read see ShareLinks.                                        *)
(***************************************************************************)
EXTENDS ShareLinks

CONSTANTS Keys,         \* the endpoints
          Inputs,       \* commands with their sources
          MaxBytes      \* the limit of a subscription, in parts

Malformed == << "?" >>

Commands == {"dedupe", "link", "url", "paste", "v2rayn"}

\* What a command may be given.
AnyPart == [kind: {"link", "peer", "server", "blob", "nothing"}, key: Keys, spaced: BOOLEAN,
            length: {"short", "long", "huge"}]
AnyText == [wrapped: Nat, json: BOOLEAN, parts: Seq(AnyPart)]
AnyRow  == [type: {"known", "unknown", "custom"}, null: BOOLEAN, key: Keys]

AnySource ==
    [kind: {"file"}, lines: Seq(Seq(Keys) \cup {Malformed})]
    \cup [kind: {"document"}, exists: BOOLEAN, text: AnyText]
    \cup [kind: {"url"}, scheme: STRING, status: Nat, broken: BOOLEAN, text: AnyText]
    \cup [kind: {"text"}, text: AnyText]
    \cup [kind: {"blank"}]
    \cup [kind: {"folder"}, database: BOOLEAN, guiConfig: BOOLEAN, binConfig: BOOLEAN,
          opens: BOOLEAN, rows: Seq(AnyRow)]

\* A server is a part of a JSON document, and the input of the terminal UI takes
\* 8192 characters at most.
WellFormed(source) ==
    source.kind \in {"document", "url", "text"} =>
        \A n \in DOMAIN source.text.parts :
            /\ source.text.parts[n].kind = "server" => source.text.json
            /\ source.kind = "text" => source.text.parts[n].length = "short"

ASSUME KeysAssumption == "?" \notin Keys
ASSUME InputsAssumption ==
    /\ Inputs \subseteq [command: Commands, sources: Seq(AnySource)]
    /\ \A given \in Inputs :
          \A s \in DOMAIN given.sources : WellFormed(given.sources[s])
ASSUME MaxBytesAssumption == MaxBytes \in Nat \ {0}

VARIABLES
    input,          \* the command and its sources, one of Inputs
    phase,          \* "reading", "deduping", "done" or "failed"
    read,           \* sources read so far
    rawParts,       \* rawParts: the pasted texts met so far
    inputs,         \* the endpoints read so far, each with its source
    at,             \* inputs gone through by the loop of Dedupe
    seen,           \* seen: key to an index
    unique,         \* positions in the inputs of the endpoints kept
    collisions      \* key to the sources recorded for it

vars == <<input, phase, read, rawParts, inputs, at, seen, unique, collisions>>

EmptyMap == [k \in {} |-> 0]
Put(map, key, value) == [k \in DOMAIN map \cup {key} |-> IF k = key THEN value ELSE map[k]]

Init ==
    /\ input \in Inputs
    /\ phase = "reading"
    /\ read = 0
    /\ rawParts = <<>>
    /\ inputs = <<>>
    /\ at = 0
    /\ seen = EmptyMap
    /\ unique = <<>>
    /\ collisions = EmptyMap

Sources == input.sources
Current == Sources[read + 1]

\* A source of that kind is up next.
UpNext(kind) ==
    /\ phase = "reading"
    /\ read < Len(Sources)
    /\ Current.kind = kind
    /\ UNCHANGED <<input, at, seen, unique, collisions>>

\* The next source holds the entries, or fails and with it the command.
TakeOrFail(ok, entries) ==
    IF ok
    THEN /\ inputs' = inputs \o entries
         /\ read' = read + 1
         /\ UNCHANGED <<phase, rawParts>>
    ELSE /\ phase' = "failed"
         /\ UNCHANGED <<inputs, read, rawParts>>

-----------------------------------------------------------------------------
(* dedupe: files of endpoints.                                             *)

\* ParseReader: each endpoint with the file and the number of its line, which
\* counts blank lines and comments.
Entries(file, f) ==
    Flatten([n \in DOMAIN file.lines |->
        [k \in DOMAIN file.lines[n] |->
            [key |-> file.lines[n][k], link |-> FALSE, source |-> [file |-> f, line |-> n]]]])

\* A line that does not parse, or nothing in the file, fails the whole file.
Readable(file) == Malformed \notin Members(file.lines) /\ Entries(file, 1) # <<>>

\* One iteration of the loop of DedupeFiles.
ReadFile == UpNext("file") /\ TakeOrFail(Readable(Current), Entries(Current, read + 1))

-----------------------------------------------------------------------------
(* import: links, subscriptions, pasted text, v2rayN.                      *)

\* The endpoints of a source; 0 is the source "pasted".
From(endpoints, s) ==
    [n \in DOMAIN endpoints |-> [key |-> endpoints[n].key, link |-> endpoints[n].link,
                                 source |-> [file |-> s, line |-> 0]]]

\* DeduplicateImported, as it is called for each pasted URL by itself.
DeduplicateImported(endpoints) ==
    Keep(endpoints, {n \in DOMAIN endpoints :
                        \A m \in 1..(n - 1) : endpoints[m].key # endpoints[n].key})

\* ImportLinkFile.
ReadDocument ==
    UpNext("document") /\ TakeOrFail(Current.exists, From(ParseContent(Current.text), read + 1))

\* Mutant of ReadBody: the reader stops at the limit, not one beyond it.
ReadBodyCut(body) == SubSeq(body, 1, IF Len(body) < MaxBytes THEN Len(body) ELSE MaxBytes)

\* FetchSubscription reads one byte more than the limit, to see that it is one
\* too many; a body of the limit itself is taken.
ReadBody(body) == SubSeq(body, 1, IF Len(body) <= MaxBytes THEN Len(body) ELSE MaxBytes + 1)

\* A URL without a host counts as one of another scheme.
WebSchemes == {"http", "https"}

\* status is 0 when no answer came within the time limit, broken tells that the
\* body breaks off.
FetchSucceeds(url) ==
    /\ url.scheme \in WebSchemes
    /\ url.status \in 200..299
    /\ ~url.broken
    /\ Len(ReadBody(url.text.parts)) <= MaxBytes

FetchSubscription(url) == [url.text EXCEPT !.parts = ReadBody(@)]

\* ImportPastedSubscriptions puts aside what is not a URL it can fetch, one of
\* another scheme included.
Aside(given, source) ==
    \/ source.kind = "text"
    \/ given.command = "paste" /\ source.kind = "url" /\ source.scheme \notin WebSchemes

\* One iteration of the loop of ImportSubscriptionURLs, or of the loop of
\* ImportPastedSubscriptions for a token that is a URL.
ReadURL ==
    /\ UpNext("url")
    /\ ~Aside(input, Current)
    /\ LET fetched == From(ParseContent(FetchSubscription(Current)), read + 1)
       IN  TakeOrFail(FetchSucceeds(Current),
                      IF input.command = "paste" THEN DeduplicateImported(fetched) ELSE fetched)

\* An empty argument among the URLs.
SkipBlank == UpNext("blank") /\ TakeOrFail(TRUE, <<>>)

\* A URL put aside is a line that is no share link.
Remainder(source) ==
    IF source.kind = "text" THEN source.text ELSE [wrapped |-> 0, json |-> FALSE, parts |-> <<>>]

\* One iteration of that loop for a token that is put aside.
SetAside ==
    /\ UpNext("text") \/ UpNext("url")
    /\ Aside(input, Current)
    /\ rawParts' = Append(rawParts, Remainder(Current))
    /\ read' = read + 1
    /\ UNCHANGED <<phase, inputs>>

\* What was put aside is parsed as one text, after all URLs.
ParsePasted ==
    /\ phase = "reading"
    /\ read = Len(Sources)
    /\ rawParts # <<>>
    /\ inputs' = inputs \o From(ParseContent(Joined(rawParts)), 0)
    /\ rawParts' = <<>>
    /\ UNCHANGED <<input, phase, read, at, seen, unique, collisions>>

\* ImportV2rayN: a folder with a configuration but no database has no endpoints.
ReadFolder ==
    /\ UpNext("folder")
    /\ LET found == Discover(Current)
       IN  TakeOrFail(found = "config" \/ (found = "database" /\ ProfilesReadable(Current)),
                      IF found = "database" THEN From(ReadProfiles(Current), read + 1) ELSE <<>>)

AllRead ==
    /\ phase = "reading"
    /\ read = Len(Sources)
    /\ rawParts = <<>>
    /\ phase' = "deduping"
    /\ UNCHANGED <<input, read, rawParts, inputs, at, seen, unique, collisions>>

-----------------------------------------------------------------------------
(* The loop of Dedupe, and of DeduplicateImported.                         *)

Entry == inputs[at + 1]

\* The next endpoint was or was not seen before.
AtEntry(repeated) ==
    /\ phase = "deduping"
    /\ at < Len(inputs)
    /\ repeated <=> Entry.key \in DOMAIN seen
    /\ at' = at + 1
    /\ UNCHANGED <<input, phase, read, rawParts, inputs>>

\* The index of an endpoint is that in unique; Go counts from 0.
KeepFirst ==
    /\ AtEntry(FALSE)
    /\ seen' = Put(seen, Entry.key, Len(unique))
    /\ unique' = Append(unique, at + 1)
    /\ UNCHANGED collisions

\* Mutant of RecordCollision: the last spelling replaces the kept one.
RecordCollisionKeepingLast ==
    /\ AtEntry(TRUE)
    /\ unique' = [unique EXCEPT ![seen[Entry.key] + 1] = at + 1]
    /\ UNCHANGED <<seen, collisions>>

\* Mutant of RecordCollision: a list starts with the second occurrence.
RecordCollisionWithoutFirst ==
    /\ AtEntry(TRUE)
    /\ LET key   == Entry.key
           known == IF key \in DOMAIN collisions THEN collisions[key] ELSE <<>>
       IN  collisions' = Put(collisions, key, Append(known, Entry.source))
    /\ UNCHANGED <<seen, unique>>

\* The first collision of a key starts its list with the source found at the
\* remembered index of the inputs.  An import has no such lists.
RecordCollision ==
    /\ AtEntry(TRUE)
    /\ LET key   == Entry.key
           first == inputs[seen[key] + 1].source
           known == IF key \in DOMAIN collisions THEN collisions[key] ELSE << first >>
       IN  collisions' = IF input.command = "dedupe"
                         THEN Put(collisions, key, Append(known, Entry.source))
                         ELSE collisions
    /\ UNCHANGED <<seen, unique>>

Finish ==
    /\ phase = "deduping"
    /\ at = Len(inputs)
    /\ phase' = "done"
    /\ UNCHANGED <<input, read, rawParts, inputs, at, seen, unique, collisions>>

Next ==
    \/ ReadFile \/ ReadDocument \/ ReadURL \/ SkipBlank \/ SetAside \/ ReadFolder
    \/ ParsePasted \/ AllRead
    \/ KeepFirst \/ RecordCollision \/ Finish

Spec == Init /\ [][Next]_vars

-----------------------------------------------------------------------------
(* Properties.                                                             *)

\* The places of a key among the inputs, up to one of them.
OccurrencesTo(key, i) == {j \in 1..i : inputs[j].key = key}

KeysRead == {inputs[i].key : i \in DOMAIN inputs}

\* The places at which an endpoint occurs for the first time.
FirstPlaces == {i \in DOMAIN inputs : OccurrencesTo(inputs[i].key, i) = {i}}

\* What is kept of every endpoint is its first spelling, in the order it was
\* read, and nothing else is kept; what was fetched comes before what was pasted.
FirstsKept ==
    phase = "done" =>
        /\ Members(unique) = FirstPlaces
        /\ \A m, n \in DOMAIN unique : m < n => unique[m] < unique[n]
        /\ \A i, j \in DOMAIN inputs :
              i < j => \/ inputs[j].source.file = 0
                       \/ inputs[i].source.file \in 1..inputs[j].source.file

\* The totals and the lists agree: an endpoint is listed as a collision exactly
\* when it occurs more than once, with one source per occurrence, and after
\* the first one with the sources of the later occurrences, in their order.
CollisionsComplete ==
    phase = "done" /\ input.command = "dedupe" =>
        LET Count(key, i) == Cardinality(OccurrencesTo(key, i))
            InAll(key)    == Count(key, Len(inputs))
        IN  /\ DOMAIN collisions = {key \in KeysRead : InAll(key) > 1}
            /\ \A key \in DOMAIN collisions : Len(collisions[key]) = InAll(key)
            /\ \A i \in DOMAIN inputs :
                  LET key == inputs[i].key
                  IN  Count(key, i) > 1 => collisions[key][Count(key, i)] = inputs[i].source

\* At most one of the sources is put aside.
Alone(given) ==
    \A s, t \in DOMAIN given.sources :
        Aside(given, given.sources[s]) /\ Aside(given, given.sources[t]) => s = t

\* The endpoints one of the sources names in a form and at a place the program
\* looks for them.  Given up are those encoded twice, base64 beside other lines
\* or tokens, links from a line of 8 MiB on and peers from a line of 64 KiB on,
\* and of what is pasted JSON, peers with spaces in them, and URLs that are not
\* of the web.
NamedIn(source, given) ==
    CASE source.kind = "file"   -> UNION {Members(line) : line \in Members(source.lines)}
      [] source.kind = "folder" ->
            IF source.database
            THEN {row.key : row \in {r \in Members(source.rows) : r.type = "known"}}
            ELSE {}
      [] source.kind = "blank"  -> {}
      [] source.kind = "url" /\ Aside(given, source) -> {}
      [] OTHER ->
            LET text  == source.text
                parts == text.parts
                cut   == source.kind = "text" /\ text.wrapped = 0
                InReach(n, lengths) == \A m \in 1..n : parts[m].length \in lengths
                taken == {n \in DOMAIN parts :
                            \/ parts[n].kind = "link" /\ InReach(n, {"short", "long"})
                            \/ parts[n].kind = "peer" /\ InReach(n, {"short"}) /\ ~(cut /\ parts[n].spaced)
                            \/ parts[n].kind = "server" /\ ~cut}
            IN  IF \/ text.wrapped > 1
                   \/ source.kind = "text" /\ text.wrapped = 1 /\ ~Alone(given)
                THEN {}
                ELSE {parts[n].key : n \in taken}

\* All or nothing: a command that comes to its end has every endpoint that any
\* of its sources names in such a form and place, whichever formats, failures
\* and repetitions they mix.  Beyond what NamedIn lists as given up, no failed
\* fetch and no cut at the limit of a subscription goes unnoticed.
NothingLost ==
    phase = "done" =>
        \A s \in DOMAIN Sources :
            NamedIn(Sources[s], input) \subseteq {inputs[unique[n]].key : n \in DOMAIN unique}
=============================================================================
