-------------------------- MODULE Deduplication_proofs --------------------------
(***************************************************************************)
(* From sources to a list without repetitions, for any files, texts, URLs, *)
(* folders and limits: what is kept is the first of each endpoint, exactly *)
(* the repeated endpoints are listed with their places, and a command that *)
(* ends well has everything that its sources name.                         *)
(***************************************************************************)
EXTENDS Deduplication, BatchItems_proofs

-----------------------------------------------------------------------------
(* What the formats hold.                                                  *)

\* An endpoint as a parser returns it.
Parsed == [key: Keys, link: BOOLEAN]

KeysOf(list) == {x.key : x \in Members(list)}

LEMMA ConcatKeys ==
    ASSUME NEW T, NEW a \in Seq(T), NEW b \in Seq(T)
    PROVE  a \o b \in Seq(T) /\ KeysOf(a \o b) = KeysOf(a) \cup KeysOf(b)
<1>1. a \o b \in Seq(T) /\ Members(a \o b) = Members(a) \cup Members(b)
  BY ConcatMembers
<1> DEFINE c == a \o b
<1>2. Members(c) = Members(a) \cup Members(b) /\ c \in Seq(T)
  BY <1>1
<1> HIDE DEF c
<1>3. KeysOf(c) = KeysOf(a) \cup KeysOf(b)
  BY <1>2 DEF KeysOf
<1> QED
  BY <1>2, <1>3 DEF c

LEMMA OfKindHas ==
    ASSUME NEW text \in AnyText, NEW kind, NEW places \in SUBSET (DOMAIN text.parts)
    PROVE  /\ OfKind(text, kind, places) \in Seq(Parsed)
           /\ KeysOf(OfKind(text, kind, places)) =
                 {text.parts[n].key : n \in {k \in places : text.parts[k].kind = kind}}
<1> DEFINE S      == {n \in places : text.parts[n].kind = kind}
           chosen == Keep(text.parts, S)
           of     == OfKind(text, kind, places)
<1>1. text.parts \in Seq(AnyPart) /\ S \in SUBSET (DOMAIN text.parts)
  BY DEF AnyText
<1>2. chosen \in Seq(AnyPart) /\ Members(chosen) = {text.parts[i] : i \in S}
  <2> HIDE DEF S
  <2> QED
    BY <1>1, KeepMembers
<1>3. of = [n \in DOMAIN chosen |-> [key |-> chosen[n].key, link |-> kind = "link"]]
  BY DEF OfKind
<1> HIDE DEF S, chosen, of
<1>4. PICK m \in Nat : DOMAIN chosen = 1..m /\ \A n \in 1..m : chosen[n] \in AnyPart
  BY <1>2, LenProperties, ElementOfSeq
<1>5. of \in Seq(Parsed)
  <2>1. \A n \in 1..m : [key |-> chosen[n].key, link |-> kind = "link"] \in Parsed
    BY <1>4 DEF AnyPart, Parsed
  <2>2. of \in [1..m -> Parsed]
    BY <1>3, <1>4, <2>1
  <2> QED
    BY <2>2, SeqDef
<1>6. KeysOf(of) = {x.key : x \in Members(chosen)}
  <2>1. DOMAIN of = DOMAIN chosen /\ \A n \in DOMAIN chosen : of[n].key = chosen[n].key
    BY <1>3
  <2> QED
    BY <2>1 DEF KeysOf, Members
<1>7. KeysOf(of) = {text.parts[n].key : n \in S}
  BY <1>2, <1>6
<1> QED
  BY <1>5, <1>7 DEF of, S

\* The places of a text that name an endpoint where its form is looked for.
Naming(text) ==
    {n \in DOMAIN text.parts :
        \/ text.parts[n].kind = "link" /\ n \in Scanned(text, {"huge"})
        \/ text.parts[n].kind = "peer" /\ n \in Scanned(text, {"long", "huge"})
        \/ text.parts[n].kind = "server" /\ text.json}

KeysNamed(text) == {text.parts[n].key : n \in Naming(text)}

LEMMA FoundHas ==
    ASSUME NEW text \in AnyText
    PROVE  /\ Found(text) \in Seq(Parsed)
           /\ text.wrapped = 0 => KeysOf(Found(text)) = KeysNamed(text)
           /\ text.wrapped # 0 => Found(text) = <<>>
<1> DEFINE parts == text.parts
           ofKind(kind, places) == {parts[n].key : n \in {k \in places : parts[k].kind = kind}}
<1>1. text.wrapped \in Nat /\ <<>> \in Seq(Parsed)
  BY EmptySeq DEF AnyText
<1>2. CASE text.wrapped # 0
  BY <1>1, <1>2 DEF Found
<1>3. CASE text.wrapped = 0
  <2>1. PICK a \in Seq(Parsed) :
           a = ParseSIP008(text)
           /\ KeysOf(a) = {parts[n].key : n \in {k \in DOMAIN parts : parts[k].kind = "server" /\ text.json}}
    <3>1. CASE text.json
      <4>1. /\ OfKind(text, "server", DOMAIN parts) \in Seq(Parsed)
            /\ KeysOf(OfKind(text, "server", DOMAIN parts)) = ofKind("server", DOMAIN parts)
        BY OfKindHas
      <4> QED
        BY <3>1, <4>1 DEF ParseSIP008
    <3>2. CASE ~text.json
      <4>1. KeysOf(<<>>) = {}
        BY DEF KeysOf, Members
      <4> QED
        BY <1>1, <3>2, <4>1 DEF ParseSIP008
    <3> QED
      BY <3>1, <3>2
  <2>2. PICK b \in Seq(Parsed) :
           b = ParseWireGuardINI(text) /\ KeysOf(b) = ofKind("peer", Scanned(text, {"long", "huge"}))
    <3>1. Scanned(text, {"long", "huge"}) \in SUBSET (DOMAIN text.parts)
      BY DEF Scanned
    <3> QED
      BY <3>1, OfKindHas DEF ParseWireGuardINI
  <2>3. PICK c \in Seq(Parsed) :
           c = ParseLines(text) /\ KeysOf(c) = ofKind("link", Scanned(text, {"huge"}))
    <3>1. Scanned(text, {"huge"}) \in SUBSET (DOMAIN text.parts)
      BY DEF Scanned
    <3> QED
      BY <3>1, OfKindHas DEF ParseLines
  <2>4. Found(text) = (a \o b) \o c
    BY <1>3, <2>1, <2>2, <2>3 DEF Found
  <2>5. PICK ab \in Seq(Parsed) : ab = a \o b /\ KeysOf(ab) = KeysOf(a) \cup KeysOf(b)
    BY ConcatKeys
  <2>6. ab \o c \in Seq(Parsed) /\ KeysOf(ab \o c) = KeysOf(ab) \cup KeysOf(c)
    BY ConcatKeys
  <2>7. KeysOf(a) \cup KeysOf(b) \cup KeysOf(c) = KeysNamed(text)
    BY <2>1, <2>2, <2>3 DEF KeysNamed, Naming, Scanned
  <2> QED
    BY <1>3, <2>4, <2>5, <2>6, <2>7
<1> QED
  BY <1>2, <1>3

\* A text that is encoded once at most yields all that it names where it is read.
LEMMA ContentHas ==
    ASSUME NEW text \in AnyText
    PROVE  /\ ParseContent(text) \in Seq(Parsed)
           /\ text.wrapped <= 1 => KeysNamed(text) \subseteq KeysOf(ParseContent(text))
<1> DEFINE decoded == [text EXCEPT !.wrapped = @ - 1]
<1>1. text.wrapped \in Nat
  BY DEF AnyText
<1>2. /\ text.wrapped > 0 => decoded \in AnyText
      /\ decoded.wrapped = text.wrapped - 1
      /\ decoded.json = text.json /\ decoded.parts = text.parts
  BY <1>1 DEF AnyText
<1>3. Naming(decoded) = Naming(text) /\ KeysNamed(decoded) = KeysNamed(text)
  BY <1>2 DEF KeysNamed, Naming, Scanned
<1>4. /\ Found(text) \in Seq(Parsed) /\ <<>> \in Seq(Parsed)
      /\ text.wrapped > 0 => Found(decoded) \in Seq(Parsed)
  BY <1>2, FoundHas, EmptySeq
<1>5. LooksLikeSubscriptionContent(decoded) => decoded.wrapped = 0
  BY DEF LooksLikeSubscriptionContent
<1>6. decoded.wrapped = 0 => ParseInner(decoded) = Found(decoded)
  <2> HIDE DEF decoded
  <2> QED
    BY DEF ParseInner, ParseOrDecode
<1>7. ParseContent(text) =
        IF Found(text) # <<>> THEN Found(text)
        ELSE IF text.wrapped > 0 /\ LooksLikeSubscriptionContent(decoded)
        THEN ParseInner(decoded) ELSE <<>>
  BY DEF ParseContent, ParseOrDecode
<1> HIDE DEF decoded
<1>8. ParseContent(text) \in Seq(Parsed)
  BY <1>4, <1>5, <1>6, <1>7
<1>9. CASE text.wrapped = 0
  BY <1>7, <1>9, FoundHas
<1>10. CASE text.wrapped = 1
  <2>1. Found(text) = <<>> /\ decoded.wrapped = 0
    BY <1>2, <1>10, FoundHas
  <2>2. CASE Naming(text) = {}
    BY <1>8, <2>2 DEF KeysNamed
  <2>3. CASE Naming(text) # {}
    <3>1. LooksLikeSubscriptionContent(decoded)
      BY <1>2, <2>1, <2>3 DEF LooksLikeSubscriptionContent, Naming
    <3>2. ParseContent(text) = Found(decoded)
      BY <1>6, <1>7, <1>10, <2>1, <3>1
    <3>3. KeysOf(Found(decoded)) = KeysNamed(decoded)
      BY <1>2, <1>10, <2>1, FoundHas
    <3> QED
      BY <1>3, <1>8, <3>2, <3>3
  <2> QED
    BY <2>2, <2>3
<1> QED
  BY <1>1, <1>8, <1>9, <1>10

-----------------------------------------------------------------------------
(* What a source yields.                                                   *)

\* An entry of the inputs that was read from the source f.
EntryOf(f) == [key: Keys, link: BOOLEAN, source: [file: {f}, line: Nat]]

LEMMA Least ==
    ASSUME NEW S \in SUBSET Nat, S # {}
    PROVE  \E i \in S : \A j \in S : i <= j
<1>1. PICK i \in S : \A j \in S : <<j, i>> \notin OpToRel(<, Nat)
  BY WFMin, NatLessThanWellFounded
<1>2. \A j \in S : ~(j < i)
  BY <1>1 DEF OpToRel
<1> QED
  BY <1>2

LEMMA FromHas ==
    ASSUME NEW list \in Seq(Parsed), NEW f
    PROVE  From(list, f) \in Seq(EntryOf(f)) /\ KeysOf(From(list, f)) = KeysOf(list)
<1> DEFINE from == From(list, f)
<1>1. PICK m \in Nat : DOMAIN list = 1..m /\ \A n \in 1..m : list[n] \in Parsed
  BY LenProperties, ElementOfSeq
<1>2. from = [n \in 1..m |-> [key |-> list[n].key, link |-> list[n].link,
                              source |-> [file |-> f, line |-> 0]]]
  BY <1>1 DEF From
<1>3. \A n \in 1..m : from[n] \in EntryOf(f) /\ from[n].key = list[n].key
  BY <1>1, <1>2 DEF Parsed, EntryOf
<1>4. DOMAIN from = 1..m
  BY <1>2
<1>5. from \in [1..m -> EntryOf(f)]
  BY <1>2, <1>3
<1> HIDE DEF from
<1>6. from \in Seq(EntryOf(f))
  BY <1>5, SeqDef
<1>7. KeysOf(from) = KeysOf(list)
  BY <1>1, <1>3, <1>4 DEF KeysOf, Members
<1> QED
  BY <1>6, <1>7 DEF from

\* The first of each endpoint is enough to have every endpoint.
LEMMA DeduplicatedHas ==
    ASSUME NEW T, NEW list \in Seq(T)
    PROVE  /\ DeduplicateImported(list) \in Seq(T)
           /\ KeysOf(DeduplicateImported(list)) = KeysOf(list)
<1> DEFINE S    == {n \in DOMAIN list : \A m \in 1..(n - 1) : list[m].key # list[n].key}
           left == DeduplicateImported(list)
<1>1. PICK l \in Nat : DOMAIN list = 1..l
  BY LenProperties
<1>2. left \in Seq(T) /\ Members(left) = {list[i] : i \in S}
  <2>1. S \in SUBSET (DOMAIN list)
    OBVIOUS
  <2>2. left = Keep(list, S)
    BY DEF DeduplicateImported
  <2> HIDE DEF S, left
  <2> QED
    BY <2>1, <2>2, KeepMembers
<1>3. \A n \in 1..l : \E m \in S : list[m].key = list[n].key
  <2> SUFFICES ASSUME NEW n \in 1..l PROVE \E m \in S : list[m].key = list[n].key
    OBVIOUS
  <2> DEFINE same == {m \in 1..l : list[m].key = list[n].key}
  <2>1. same \in SUBSET Nat /\ same # {}
    <3>1. n \in same
      OBVIOUS
    <3>2. 1..l \subseteq Nat
      OBVIOUS
    <3> QED
      BY <3>1, <3>2
  <2>2. PICK m \in same : \A j \in same : m <= j
    <3> HIDE DEF same
    <3> QED
      BY <2>1, Least
  <2>3. m \in S
    BY <1>1, <2>2
  <2> QED
    BY <2>2, <2>3
<1>4. S \subseteq 1..l
  BY <1>1
<1> HIDE DEF S, left
<1>5. KeysOf(left) = KeysOf(list)
  <2>1. \A x : x \in KeysOf(left) <=> \E i \in S : x = list[i].key
    BY <1>2 DEF KeysOf
  <2>2. \A x : x \in KeysOf(list) <=> \E i \in 1..l : x = list[i].key
    BY <1>1 DEF KeysOf, Members
  <2> QED
    BY <1>3, <1>4, <2>1, <2>2
<1> QED
  BY <1>2, <1>5 DEF left

LEMMA EntriesHas ==
    ASSUME NEW given, NEW file \in [kind: {"file"}, lines: Seq(Seq(Keys) \cup {Malformed})],
           Malformed \notin Members(file.lines), NEW f
    PROVE  /\ Entries(file, f) \in Seq(EntryOf(f))
           /\ NamedIn(file, given) \subseteq KeysOf(Entries(file, f))
<1> DEFINE lines == file.lines
           entry(n, k) == [key |-> lines[n][k], link |-> FALSE,
                           source |-> [file |-> f, line |-> n]]
           told  == [n \in DOMAIN lines |-> [k \in DOMAIN lines[n] |-> entry(n, k)]]
<1>1. PICK l \in Nat : DOMAIN lines = 1..l /\ \A n \in 1..l : lines[n] \in Seq(Keys)
  <2>1. lines \in Seq(Seq(Keys) \cup {Malformed})
    OBVIOUS
  <2>2. PICK l \in Nat : DOMAIN lines = 1..l /\ \A n \in 1..l : lines[n] \in Seq(Keys) \cup {Malformed}
    <3> HIDE DEF lines
    <3> QED
      BY <2>1, LenProperties, ElementOfSeq
  <2>3. \A n \in 1..l : lines[n] # Malformed
    BY <2>2 DEF Members
  <2> QED
    BY <2>2, <2>3
<1>2. Entries(file, f) = Flatten(told)
  BY DEF Entries
<1> HIDE DEF lines
<1>3. \A n \in 1..l : told[n] \in Seq(EntryOf(f)) /\ DOMAIN told[n] = DOMAIN lines[n]
  <2> SUFFICES ASSUME NEW n \in 1..l
               PROVE  told[n] \in Seq(EntryOf(f)) /\ DOMAIN told[n] = DOMAIN lines[n]
    OBVIOUS
  <2>1. PICK m \in Nat : DOMAIN lines[n] = 1..m /\ \A k \in 1..m : lines[n][k] \in Keys
    BY <1>1, LenProperties, ElementOfSeq
  <2>2. told[n] = [k \in 1..m |-> entry(n, k)]
    BY <1>1, <2>1
  <2>3. \A k \in 1..m : entry(n, k) \in EntryOf(f)
    BY <2>1 DEF EntryOf
  <2> HIDE DEF told, entry
  <2>4. told[n] \in [1..m -> EntryOf(f)]
    BY <2>2, <2>3
  <2> QED
    BY <2>1, <2>4, SeqDef
<1>4. told \in Seq(Seq(EntryOf(f))) /\ DOMAIN told = 1..l
  <2>1. told \in [1..l -> Seq(EntryOf(f))]
    BY <1>1, <1>3
  <2> HIDE DEF told
  <2> QED
    BY <2>1, SeqDef
<1>5. \A n \in 1..l : \A k \in DOMAIN lines[n] : told[n][k].key = lines[n][k]
  BY <1>1
<1> HIDE DEF told
<1>6. /\ Flatten(told) \in Seq(EntryOf(f))
      /\ Members(Flatten(told)) = UNION {Members(told[n]) : n \in DOMAIN told}
  BY <1>4, FlattenMembers
<1>7. \A n \in 1..l : \A k \in DOMAIN lines[n] : lines[n][k] \in KeysOf(Flatten(told))
  <2> SUFFICES ASSUME NEW n \in 1..l, NEW k \in DOMAIN lines[n]
               PROVE  lines[n][k] \in KeysOf(Flatten(told))
    OBVIOUS
  <2>1. told[n][k] \in Members(told[n])
    BY <1>3 DEF Members
  <2>2. told[n][k] \in Members(Flatten(told))
    BY <1>4, <1>6, <2>1
  <2> QED
    BY <1>5, <2>2 DEF KeysOf
<1>8. NamedIn(file, given) = UNION {Members(line) : line \in Members(lines)}
  BY DEF NamedIn, lines
<1>9. \A key \in NamedIn(file, given) : key \in KeysOf(Flatten(told))
  BY <1>1, <1>7, <1>8 DEF Members
<1> QED
  BY <1>2, <1>6, <1>9

\* A body that is taken was read to its end.
LEMMA FetchedWhole ==
    ASSUME NEW url, url.text \in AnyText, FetchSucceeds(url)
    PROVE  FetchSubscription(url) = url.text
<1> DEFINE parts == url.text.parts
<1>1. parts \in Seq(AnyPart)
  BY DEF AnyText
<1>2. Len(parts) \in Nat /\ MaxBytes \in Nat /\ \A i \in 1..Len(parts) : parts[i] \in AnyPart
  BY <1>1, LenProperties, ElementOfSeq, MaxBytesAssumption
<1>3. Len(ReadBody(parts)) <= MaxBytes
  BY DEF FetchSucceeds
<1> HIDE DEF parts
<1>4. CASE Len(parts) <= MaxBytes
  <2>1. ReadBody(parts) = parts
    BY <1>1, <1>4, SubSeqFull DEF ReadBody
  <2> QED
    BY <2>1 DEF FetchSubscription, AnyText, parts
<1>5. CASE ~(Len(parts) <= MaxBytes)
  <2>1. PICK n \in Nat : n = MaxBytes + 1
    BY <1>2
  <2>2. \A i \in 1..n : parts[i] \in AnyPart
    BY <1>2, <1>5, <2>1
  <2>3. Len(SubSeq(parts, 1, n)) = n
    <3>1. 1 \in Int /\ n \in Int
      OBVIOUS
    <3>2. Len(SubSeq(parts, 1, n)) = IF 1 <= n THEN n - 1 + 1 ELSE 0
      BY <2>2, <3>1, SubSeqProperties
    <3> QED
      BY <1>2, <2>1, <3>2
  <2>4. ReadBody(parts) = SubSeq(parts, 1, n)
    BY <1>5, <2>1 DEF ReadBody
  <2> QED
    BY <1>2, <1>3, <2>1, <2>3, <2>4
<1> QED
  BY <1>4, <1>5

LEMMA FolderHas ==
    ASSUME NEW given, NEW folder, folder.kind = "folder", folder.rows \in Seq(AnyRow)
    PROVE  /\ ReadProfiles(folder) \in Seq(Parsed)
           /\ NamedIn(folder, given) \subseteq
                 IF folder.database THEN KeysOf(ReadProfiles(folder)) ELSE {}
<1> DEFINE rows     == folder.rows
           A        == {n \in DOMAIN rows : rows[n].type # "custom"}
           selected == Keep(rows, A)
           B        == {n \in DOMAIN selected : selected[n].type = "known"}
           known    == Keep(selected, B)
           read1    == [n \in DOMAIN known |-> [key |-> known[n].key, link |-> FALSE]]
<1>1. ReadProfiles(folder) = read1
  BY DEF ReadProfiles, Selected
<1>2. selected \in Seq(AnyRow) /\ Members(selected) = {rows[n] : n \in A}
  <2>1. A \in SUBSET (DOMAIN rows) /\ rows \in Seq(AnyRow)
    OBVIOUS
  <2> HIDE DEF A, rows
  <2> QED
    BY <2>1, KeepMembers
<1>3. Members(selected) = {row \in Members(rows) : row.type # "custom"}
  BY <1>2 DEF Members
<1> HIDE DEF selected
<1>4. known \in Seq(AnyRow) /\ Members(known) = {selected[n] : n \in B}
  <2>1. B \in SUBSET (DOMAIN selected)
    OBVIOUS
  <2> HIDE DEF B
  <2> QED
    BY <1>2, <2>1, KeepMembers
<1>5. Members(known) = {row \in Members(rows) : row.type = "known"}
  <2>1. Members(known) = {row \in Members(selected) : row.type = "known"}
    BY <1>4 DEF Members
  <2> HIDE DEF known, rows
  <2> QED
    BY <1>3, <2>1
<1> HIDE DEF known
<1>6. PICK m \in Nat : DOMAIN known = 1..m /\ \A n \in 1..m : known[n] \in AnyRow
  BY <1>4, LenProperties, ElementOfSeq
<1>7. read1 \in Seq(Parsed)
  <2>1. \A n \in 1..m : [key |-> known[n].key, link |-> FALSE] \in Parsed
    BY <1>6 DEF AnyRow, Parsed
  <2>2. read1 \in [1..m -> Parsed]
    BY <1>6, <2>1
  <2> HIDE DEF read1
  <2> QED
    BY <2>2, SeqDef
<1>8. KeysOf(read1) = {row.key : row \in Members(known)}
  <2>1. DOMAIN read1 = DOMAIN known /\ \A n \in DOMAIN known : read1[n].key = known[n].key
    OBVIOUS
  <2> HIDE DEF read1
  <2>2. \A x : x \in KeysOf(read1) <=> \E n \in DOMAIN known : x = known[n].key
    BY <2>1 DEF KeysOf, Members
  <2> QED
    BY <2>2 DEF Members
<1>9. NamedIn(folder, given) = IF folder.database
                        THEN {row.key : row \in {r \in Members(rows) : r.type = "known"}} ELSE {}
  BY DEF NamedIn
<1> HIDE DEF read1, rows
<1> QED
  BY <1>1, <1>5, <1>7, <1>8, <1>9

-----------------------------------------------------------------------------
(* What was pasted.                                                        *)

\* The parts that are still what they were once a text is cut into tokens.
Lasting(text) ==
    {x \in Members(text.parts) : x.kind = "link" \/ (x.kind = "peer" /\ ~x.spaced)}

\* A text without lines that are too long for a scanner.
Short(text) == \A x \in Members(text.parts) : x.length = "short"

LEMMA ShatteredHas ==
    ASSUME NEW text \in AnyText
    PROVE  /\ Shattered(text) \in Seq(AnyPart)
           /\ Short(text) => \A x \in Members(Shattered(text)) : x.length = "short"
           /\ text.wrapped = 0 => Lasting(text) \subseteq Members(Shattered(text))
<1> DEFINE parts     == text.parts
           shattered == Shattered(text)
<1>1. PICK m \in Nat : DOMAIN parts = 1..m /\ \A n \in 1..m : parts[n] \in AnyPart
  <2>1. parts \in Seq(AnyPart)
    BY DEF AnyText
  <2> HIDE DEF parts
  <2> QED
    BY <2>1, LenProperties, ElementOfSeq
<1>2. DOMAIN shattered = 1..m
  BY <1>1 DEF Shattered
<1>3. \A n \in 1..m :
        shattered[n] = IF \/ text.wrapped > 0
                          \/ parts[n].kind = "server"
                          \/ parts[n].kind = "peer" /\ parts[n].spaced
                       THEN [parts[n] EXCEPT !.kind = "nothing"]
                       ELSE parts[n]
  BY <1>1 DEF Shattered
<1>4. \A n \in 1..m : shattered[n] \in AnyPart
  BY <1>1, <1>3 DEF AnyPart
<1>5. shattered = [n \in 1..m |-> shattered[n]]
  BY <1>1 DEF Shattered
<1> HIDE DEF shattered, parts
<1>6. shattered \in Seq(AnyPart)
  <2>1. shattered \in [1..m -> AnyPart]
    BY <1>4, <1>5
  <2> QED
    BY <2>1, SeqDef
<1>7. ASSUME text.wrapped = 0, NEW x \in Lasting(text)
      PROVE  x \in Members(shattered)
  <2>1. PICK n \in 1..m : x = parts[n]
    BY <1>1 DEF Lasting, Members, parts
  <2>2. ~(parts[n].kind = "server" \/ (parts[n].kind = "peer" /\ parts[n].spaced))
    BY <1>1, <2>1 DEF Lasting, AnyPart
  <2>3. ~(text.wrapped > 0)
    BY <1>7
  <2>4. shattered[n] = x
    BY <1>3, <2>1, <2>2, <2>3, Zenon
  <2> QED
    BY <1>2, <2>4 DEF Members
<1>8. ASSUME Short(text), NEW x \in Members(shattered) PROVE x.length = "short"
  <2>1. PICK n \in 1..m : x = shattered[n]
    BY <1>2 DEF Members
  <2>2. parts[n].length = "short"
    BY <1>1, <1>8 DEF Short, Members, parts
  <2>3. [parts[n] EXCEPT !.kind = "nothing"].length = parts[n].length
    BY <1>1 DEF AnyPart
  <2> QED
    BY <1>3, <2>1, <2>2, <2>3
<1> QED
  BY <1>6, <1>7, <1>8 DEF shattered

LEMMA JoinedHas ==
    ASSUME NEW texts \in Seq(AnyText), texts # <<>>
    PROVE  /\ Joined(texts) \in AnyText
           /\ Len(texts) = 1 /\ texts[1].wrapped > 0 => Joined(texts) = texts[1]
           /\ (\A n \in DOMAIN texts : Short(texts[n])) => Short(Joined(texts))
           /\ \A n \in DOMAIN texts :
                 texts[n].wrapped = 0 =>
                    /\ Joined(texts).wrapped = 0
                    /\ Lasting(texts[n]) \subseteq Members(Joined(texts).parts)
<1>1. PICK m \in Nat : m = Len(texts) /\ DOMAIN texts = 1..m /\ \A n \in 1..m : texts[n] \in AnyText
  BY LenProperties, ElementOfSeq
<1>2. m # 0
  BY <1>1, EmptySeq
<1>3. CASE m = 1 /\ texts[1].wrapped > 0
  <2>1. Joined(texts) = texts[1]
    BY <1>1, <1>3 DEF Joined
  <2> QED
    BY <1>1, <1>3, <2>1
<1>4. CASE ~(m = 1 /\ texts[1].wrapped > 0)
  <2> DEFINE lists == [i \in DOMAIN texts |-> Shattered(texts[i])]
             all   == Flatten(lists)
  <2>1. Joined(texts) = [wrapped |-> 0, json |-> FALSE, parts |-> all]
    BY <1>1, <1>4 DEF Joined
  <2>2. \A i \in 1..m : lists[i] = Shattered(texts[i]) /\ lists[i] \in Seq(AnyPart)
    BY <1>1, ShatteredHas
  <2>3. lists \in Seq(Seq(AnyPart)) /\ DOMAIN lists = 1..m
    <3>1. lists = [i \in 1..m |-> lists[i]]
      BY <1>1
    <3> HIDE DEF lists
    <3>2. lists \in [1..m -> Seq(AnyPart)]
      BY <2>2, <3>1
    <3> QED
      BY <3>2, SeqDef
  <2> HIDE DEF lists
  <2>4. /\ all \in Seq(AnyPart)
        /\ Members(all) = UNION {Members(lists[n]) : n \in DOMAIN lists}
    BY <2>3, FlattenMembers
  <2> HIDE DEF all
  <2>5. Joined(texts) \in AnyText /\ Joined(texts).wrapped = 0 /\ Joined(texts).parts = all
    BY <2>1, <2>4 DEF AnyText
  <2>6. \A n \in 1..m : texts[n].wrapped = 0 => Lasting(texts[n]) \subseteq Members(all)
    BY <1>1, <2>2, <2>3, <2>4, ShatteredHas
  <2>7. ASSUME \A n \in DOMAIN texts : Short(texts[n]) PROVE Short(Joined(texts))
    <3>1. \A n \in 1..m : \A x \in Members(lists[n]) : x.length = "short"
      BY <1>1, <2>2, <2>7, ShatteredHas
    <3> QED
      BY <2>3, <2>4, <2>5, <3>1 DEF Short
  <2> QED
    BY <1>1, <1>4, <2>5, <2>6, <2>7
<1> QED
  BY <1>3, <1>4

\* A document or what was fetched is parsed by itself.
LEMMA TextHas ==
    ASSUME NEW given, NEW source, source.kind \in {"document", "url"}, source.text \in AnyText,
           WellFormed(source), ~Aside(given, source)
    PROVE  NamedIn(source, given) \subseteq KeysOf(ParseContent(source.text))
<1> DEFINE text == source.text
<1>1. text.wrapped \in Nat
  BY DEF AnyText
<1>2. \A n \in DOMAIN text.parts : text.parts[n].kind = "server" => text.json
  BY DEF WellFormed
<1>3. \A n : text.parts[n].length \in STRING =>
         /\ text.parts[n].length \in {"short", "long"} => text.parts[n].length \notin {"huge"}
         /\ text.parts[n].length \in {"short"} => text.parts[n].length \notin {"long", "huge"}
  OBVIOUS
<1>4. NamedIn(source, given) \subseteq IF text.wrapped > 1 THEN {} ELSE KeysNamed(text)
  BY <1>2 DEF NamedIn, KeysNamed, Naming, Scanned
<1>5. text.wrapped <= 1 => KeysNamed(text) \subseteq KeysOf(ParseContent(text))
  BY ContentHas
<1> QED
  BY <1>1, <1>4, <1>5

\* One of the texts that were put aside.
LEMMA PastedHas ==
    ASSUME NEW given, NEW source, source.kind = "text", source.text \in AnyText, WellFormed(source),
           NEW texts \in Seq(AnyText), \A k \in DOMAIN texts : Short(texts[k]),
           NEW n \in DOMAIN texts, texts[n] = source.text,
           Alone(given) => Len(texts) = 1
    PROVE  NamedIn(source, given) \subseteq KeysOf(ParseContent(Joined(texts)))
<1> DEFINE text   == source.text
           joined == Joined(texts)
<1>1. text \in AnyText /\ text.wrapped \in Nat /\ text = texts[n] /\ Short(text)
  BY DEF AnyText
<1>2. PICK m \in Nat : m = Len(texts) /\ DOMAIN texts = 1..m
  BY LenProperties
<1>3. texts # <<>>
  BY <1>2
<1>4. /\ joined \in AnyText /\ Short(joined)
      /\ m = 1 /\ texts[1].wrapped > 0 => joined = texts[1]
      /\ text.wrapped = 0 => joined.wrapped = 0 /\ Lasting(text) \subseteq Members(joined.parts)
  <2> HIDE DEF text, joined
  <2> QED
    BY <1>1, <1>2, <1>3, JoinedHas DEF joined
<1>5. /\ text.wrapped > 1 => NamedIn(source, given) = {}
      /\ text.wrapped = 1 /\ ~Alone(given) => NamedIn(source, given) = {}
      /\ text.wrapped = 1 => NamedIn(source, given) \subseteq
            {x.key : x \in {y \in Members(text.parts) : y.kind \in {"link", "peer", "server"}}}
      /\ text.wrapped = 0 => NamedIn(source, given) \subseteq {x.key : x \in Lasting(text)}
  <2>1. source.kind \notin {"file", "folder", "blank", "url", "document"}
    OBVIOUS
  <2>2. NamedIn(source, given) \subseteq
           {text.parts[k].key : k \in {k \in DOMAIN text.parts :
               \/ text.parts[k].kind = "link"
               \/ text.parts[k].kind = "peer" /\ ~(text.wrapped = 0 /\ text.parts[k].spaced)
               \/ text.parts[k].kind = "server" /\ ~(text.wrapped = 0)}}
    BY <2>1 DEF NamedIn
  <2>3. text.wrapped > 1 \/ (text.wrapped = 1 /\ ~Alone(given)) => NamedIn(source, given) = {}
    BY <2>1 DEF NamedIn
  <2>4. text.wrapped = 1 => ~(text.wrapped = 0)
    OBVIOUS
  <2> HIDE DEF text
  <2> QED
    BY <2>2, <2>3, <2>4 DEF Lasting, Members
<1>6. \A x \in Members(text.parts) : x.kind = "server" => text.json
  BY DEF WellFormed, Members
<1> HIDE DEF text, joined
<1>7. ASSUME NEW t \in AnyText, Short(t)
      PROVE  Scanned(t, {"huge"}) = DOMAIN t.parts /\ Scanned(t, {"long", "huge"}) = DOMAIN t.parts
  <2>1. PICK l \in Nat : DOMAIN t.parts = 1..l
    <3>1. t.parts \in Seq(AnyPart)
      BY DEF AnyText
    <3> QED
      BY <3>1, LenProperties
  <2>2. \A i \in 1..l : t.parts[i].length = "short"
    BY <1>7, <2>1 DEF Short, Members
  <2>3. \A i \in 1..l : 1..i \subseteq 1..l
    OBVIOUS
  <2> QED
    BY <2>1, <2>2, <2>3 DEF Scanned
<1>8. joined.wrapped <= 1 => KeysNamed(joined) \subseteq KeysOf(ParseContent(joined))
  BY <1>4, ContentHas
<1>9. CASE text.wrapped > 1 \/ (text.wrapped = 1 /\ ~Alone(given))
  BY <1>5, <1>9
<1>10. CASE text.wrapped = 1 /\ Alone(given)
  <2>1. joined = text
    BY <1>1, <1>2, <1>4, <1>10
  <2>2. {x.key : x \in {y \in Members(text.parts) : y.kind \in {"link", "peer", "server"}}}
           \subseteq KeysNamed(text)
    BY <1>1, <1>6, <1>7 DEF KeysNamed, Naming, Members
  <2> QED
    BY <1>5, <1>8, <1>10, <2>1, <2>2 DEF joined
<1>11. CASE text.wrapped = 0
  <2>1. {x.key : x \in Lasting(text)} \subseteq KeysNamed(joined)
    BY <1>4, <1>7, <1>11 DEF Lasting, KeysNamed, Naming, Members
  <2>2. joined.wrapped <= 1
    BY <1>4, <1>11
  <2> QED
    BY <1>5, <1>8, <1>11, <2>1, <2>2 DEF joined
<1> QED
  BY <1>1, <1>9, <1>10, <1>11

-----------------------------------------------------------------------------
(* The loop, after n entries of a list.                                    *)

Occurrences(list, key, i) == {j \in 1..i : list[j].key = key}

CountAt(list, key, i) == Cardinality(Occurrences(list, key, i))

KeysTo(list, n) == {list[j].key : j \in 1..n}

IsFirst(list, i) == \A j \in 1..(i - 1) : list[j].key # list[i].key

\* What is kept and what is remembered of it.
KeptSoFar(list, n, kept, index) ==
    /\ kept \in Seq(Nat)
    /\ Len(kept) <= n
    /\ Members(kept) = {i \in 1..n : IsFirst(list, i)}
    /\ \A k, m \in DOMAIN kept : k < m => kept[k] < kept[m]
    /\ DOMAIN index = KeysTo(list, n)
    /\ \A key \in DOMAIN index : index[key] \in Nat /\ index[key] < n

\* The lists of collisions.
ListedSoFar(list, n, listed) ==
    /\ DOMAIN listed = {key \in KeysTo(list, n) : CountAt(list, key, n) > 1}
    /\ \A key \in DOMAIN listed : listed[key] \in Seq([file: Nat, line: Nat])
    /\ \A key \in DOMAIN listed : Len(listed[key]) = CountAt(list, key, n)
    /\ \A i \in 1..n :
          CountAt(list, list[i].key, i) > 1 =>
              listed[list[i].key][CountAt(list, list[i].key, i)] = list[i].source

LEMMA CountIsNat ==
    ASSUME NEW list, NEW key, NEW i \in Nat
    PROVE  IsFiniteSet(Occurrences(list, key, i)) /\ CountAt(list, key, i) \in Nat
<1>1. IsFiniteSet(1..i)
  <2>1. 1 \in Int /\ i \in Int
    OBVIOUS
  <2> QED
    BY <2>1, FS_Interval
<1>2. Occurrences(list, key, i) \subseteq 1..i
  BY DEF Occurrences
<1> QED
  BY <1>1, <1>2, FS_Subset, FS_CardinalityType DEF CountAt

LEMMA CountGrows ==
    ASSUME NEW list, NEW key, NEW i \in Nat, NEW n \in Nat, i <= n
    PROVE  CountAt(list, key, i) <= CountAt(list, key, n)
<1>1. Occurrences(list, key, i) \subseteq Occurrences(list, key, n)
  BY DEF Occurrences
<1> QED
  BY <1>1, CountIsNat, FS_Subset DEF CountAt

LEMMA CountNext ==
    ASSUME NEW list, NEW key, NEW i \in Nat
    PROVE  CountAt(list, key, i + 1) =
              IF list[i + 1].key = key THEN CountAt(list, key, i) + 1 ELSE CountAt(list, key, i)
<1> DEFINE before == Occurrences(list, key, i)
           after  == Occurrences(list, key, i + 1)
<1>1. CASE list[i + 1].key = key
  <2>1. after = before \cup {i + 1} /\ i + 1 \notin before
    BY <1>1 DEF Occurrences
  <2> HIDE DEF before, after
  <2>2. IsFiniteSet(before)
    BY CountIsNat DEF before
  <2>3. Cardinality(after) = Cardinality(before) + 1
    BY <2>1, <2>2, FS_AddElement
  <2> QED
    BY <1>1, <2>3 DEF CountAt, before, after
<1>2. CASE list[i + 1].key # key
  <2>1. after = before
    BY <1>2 DEF Occurrences
  <2> QED
    BY <1>2, <2>1 DEF CountAt
<1> QED
  BY <1>1, <1>2

\* A key was read exactly when it was counted.
LEMMA CountOfRead ==
    ASSUME NEW list, NEW key, NEW n \in Nat
    PROVE  key \in KeysTo(list, n) <=> CountAt(list, key, n) > 0
<1> DEFINE S == Occurrences(list, key, n)
<1>1. IsFiniteSet(S) /\ Cardinality(S) \in Nat
  BY CountIsNat DEF CountAt
<1>2. key \in KeysTo(list, n) <=> S # {}
  BY DEF KeysTo, Occurrences
<1> HIDE DEF S
<1>3. S = {} <=> Cardinality(S) = 0
  BY <1>1, FS_EmptySet
<1> QED
  BY <1>1, <1>2, <1>3 DEF CountAt, S

LEMMA KeysNext ==
    ASSUME NEW list, NEW n \in Nat
    PROVE  KeysTo(list, n + 1) = KeysTo(list, n) \cup {list[n + 1].key}
<1>1. 1..(n + 1) = (1..n) \cup {n + 1}
  OBVIOUS
<1> QED
  BY <1>1 DEF KeysTo

\* An endpoint that was not seen before is kept.
LEMMA KeepsFirst ==
    ASSUME NEW list, NEW n \in Nat, NEW kept, NEW index,
           KeptSoFar(list, n, kept, index), list[n + 1].key \notin DOMAIN index
    PROVE  KeptSoFar(list, n + 1, Append(kept, n + 1), Put(index, list[n + 1].key, Len(kept)))
<1> DEFINE key  == list[n + 1].key
           more == Append(kept, n + 1)
           put  == Put(index, key, Len(kept))
<1>1. PICK l \in Nat : l = Len(kept) /\ DOMAIN kept = 1..l /\ \A k \in 1..l : kept[k] \in Nat
  BY LenProperties, ElementOfSeq DEF KeptSoFar
<1>2. /\ more \in Seq(Nat) /\ Len(more) = l + 1 /\ DOMAIN more = 1..(l + 1)
      /\ more[l + 1] = n + 1 /\ \A k \in 1..l : more[k] = kept[k]
  <2>1. kept \in Seq(Nat) /\ n + 1 \in Nat
    BY DEF KeptSoFar
  <2> QED
    BY <1>1, <2>1, AppendProperties
<1>3. \A k \in 1..l : kept[k] \in 1..n /\ IsFirst(list, kept[k])
  BY <1>1 DEF KeptSoFar, Members
<1>4. DOMAIN put = DOMAIN index \cup {key} /\ put[key] = l
      /\ \A k \in DOMAIN index : k # key => put[k] = index[k]
  BY <1>1 DEF Put
<1>5. IsFirst(list, n + 1)
  <2>1. \A j \in 1..n : list[j].key # key
    BY DEF KeptSoFar, KeysTo
  <2>2. (n + 1) - 1 = n
    OBVIOUS
  <2> QED
    BY <2>1, <2>2 DEF IsFirst
<1> HIDE DEF more, put, key
<1>6. Members(more) = {i \in 1..(n + 1) : IsFirst(list, i)}
  <2>1. \A i : i \in Members(more) <=> (i = n + 1 \/ i \in Members(kept))
    <3>1. 1..(l + 1) = (1..l) \cup {l + 1}
      OBVIOUS
    <3> QED
      BY <1>1, <1>2, <3>1 DEF Members
  <2>2. 1..(n + 1) = (1..n) \cup {n + 1}
    OBVIOUS
  <2>3. Members(kept) = {i \in 1..n : IsFirst(list, i)}
    BY DEF KeptSoFar
  <2> QED
    BY <1>5, <2>1, <2>2, <2>3
<1>7. \A k, m \in DOMAIN more : k < m => more[k] < more[m]
  <2> SUFFICES ASSUME NEW k \in 1..(l + 1), NEW m \in 1..(l + 1), k < m
               PROVE  more[k] < more[m]
    BY <1>2
  <2>1. k \in 1..l /\ more[k] = kept[k] /\ kept[k] \in 1..n
    BY <1>2, <1>3
  <2>2. CASE m = l + 1
    BY <1>2, <2>1, <2>2
  <2>3. CASE m # l + 1
    <3>1. m \in 1..l /\ more[m] = kept[m]
      BY <1>2, <2>3
    <3>2. kept[k] < kept[m]
      BY <1>1, <2>1, <3>1 DEF KeptSoFar
    <3> QED
      BY <2>1, <3>1, <3>2
  <2> QED
    BY <2>2, <2>3
<1>8. DOMAIN put = KeysTo(list, n + 1)
  BY <1>4, KeysNext DEF KeptSoFar, key
<1>9. \A k \in DOMAIN put : put[k] \in Nat /\ put[k] < n + 1
  <2>1. l <= n /\ \A k \in DOMAIN index : index[k] \in Nat /\ index[k] < n
    BY <1>1 DEF KeptSoFar
  <2>2. key \notin DOMAIN index
    BY DEF key
  <2> QED
    BY <1>1, <1>4, <2>1, <2>2
<1>10. Len(more) <= n + 1
  BY <1>1, <1>2 DEF KeptSoFar
<1> QED
  BY <1>2, <1>6, <1>7, <1>8, <1>9, <1>10 DEF KeptSoFar, more, put, key

\* An endpoint that was seen before is not kept again.
LEMMA KeepsNoRepetition ==
    ASSUME NEW list, NEW n \in Nat, NEW kept, NEW index,
           KeptSoFar(list, n, kept, index), list[n + 1].key \in DOMAIN index
    PROVE  KeptSoFar(list, n + 1, kept, index)
<1>1. KeysTo(list, n + 1) = KeysTo(list, n)
  BY KeysNext DEF KeptSoFar
<1>2. ~IsFirst(list, n + 1)
  <2>1. PICK j \in 1..n : list[j].key = list[n + 1].key
    BY DEF KeptSoFar, KeysTo
  <2>2. j \in 1..((n + 1) - 1)
    BY <2>1
  <2> QED
    BY <2>1, <2>2 DEF IsFirst
<1>3. {i \in 1..(n + 1) : IsFirst(list, i)} = {i \in 1..n : IsFirst(list, i)}
  <2>1. 1..(n + 1) = (1..n) \cup {n + 1}
    OBVIOUS
  <2> QED
    BY <1>2, <2>1
<1>4. Len(kept) <= n + 1
  <2>1. Len(kept) \in Nat /\ Len(kept) <= n
    BY LenProperties DEF KeptSoFar
  <2> QED
    BY <2>1
<1>5. \A key \in DOMAIN index : index[key] \in Nat /\ index[key] < n + 1
  BY DEF KeptSoFar
<1> QED
  BY <1>1, <1>3, <1>4, <1>5 DEF KeptSoFar

\* The lists do not change with an endpoint that was not seen before.
LEMMA ListsNoFirst ==
    ASSUME NEW list, NEW n \in Nat, NEW listed,
           ListedSoFar(list, n, listed), list[n + 1].key \notin KeysTo(list, n)
    PROVE  ListedSoFar(list, n + 1, listed)
<1> DEFINE key == list[n + 1].key
<1>1. \A k : k # key => CountAt(list, k, n + 1) = CountAt(list, k, n)
  BY CountNext
<1>2. CountAt(list, key, n) = 0 /\ CountAt(list, key, n + 1) = 1
  BY CountNext, CountOfRead, CountIsNat
<1>3. KeysTo(list, n + 1) = KeysTo(list, n) \cup {key}
  BY KeysNext
<1> HIDE DEF key
<1>4. {k \in KeysTo(list, n + 1) : CountAt(list, k, n + 1) > 1}
        = {k \in KeysTo(list, n) : CountAt(list, k, n) > 1}
  BY <1>1, <1>2, <1>3
<1>5. \A k \in DOMAIN listed : k # key
  BY <1>2 DEF ListedSoFar
<1>6. \A k \in DOMAIN listed : Len(listed[k]) = CountAt(list, k, n + 1)
  BY <1>1, <1>5 DEF ListedSoFar
<1>7. \A i \in 1..(n + 1) :
        CountAt(list, list[i].key, i) > 1 =>
            listed[list[i].key][CountAt(list, list[i].key, i)] = list[i].source
  <2>1. 1..(n + 1) = (1..n) \cup {n + 1}
    OBVIOUS
  <2>2. ~(CountAt(list, list[n + 1].key, n + 1) > 1)
    BY <1>2 DEF key
  <2> QED
    BY <2>1, <2>2 DEF ListedSoFar
<1> QED
  BY <1>4, <1>6, <1>7 DEF ListedSoFar

\* A repetition is put at the end of the list of its endpoint.
LEMMA ListsRepetition ==
    ASSUME NEW list, NEW n \in Nat, NEW listed, NEW first \in [file: Nat, line: Nat],
           ListedSoFar(list, n, listed), list[n + 1].key \in KeysTo(list, n),
           list[n + 1].source \in [file: Nat, line: Nat],
           NEW known, known = IF list[n + 1].key \in DOMAIN listed
                              THEN listed[list[n + 1].key] ELSE << first >>
    PROVE  ListedSoFar(list, n + 1, Put(listed, list[n + 1].key, Append(known, list[n + 1].source)))
<1> DEFINE key    == list[n + 1].key
           source == list[n + 1].source
           Places == [file: Nat, line: Nat]
           longer == Append(known, source)
           put    == Put(listed, key, longer)
<1>1. \A k : k # key => CountAt(list, k, n + 1) = CountAt(list, k, n)
  BY CountNext
<1>2. PICK c \in Nat : c = CountAt(list, key, n) /\ c > 0 /\ CountAt(list, key, n + 1) = c + 1
  BY CountNext, CountOfRead, CountIsNat
<1>3. KeysTo(list, n + 1) = KeysTo(list, n)
  <2> HIDE DEF longer, put, source, Places
  <2>1. KeysTo(list, n + 1) = KeysTo(list, n) \cup {key} /\ key \in KeysTo(list, n)
    BY KeysNext
  <2> HIDE DEF key
  <2> QED
    BY <2>1
<1>4. known \in Seq(Places) /\ Len(known) = c
  <2>1. CASE key \in DOMAIN listed
    BY <1>2, <2>1 DEF ListedSoFar
  <2>2. CASE key \notin DOMAIN listed
    <3>1. c = 1
      BY <1>2, <2>2 DEF ListedSoFar
    <3>2. << first >> \in Seq(Places) /\ Len(<< first >>) = 1
      OBVIOUS
    <3> QED
      BY <2>2, <3>1, <3>2
  <2> QED
    BY <2>1, <2>2
<1>5. key \in KeysTo(list, n) /\ source \in Places
  OBVIOUS
<1> HIDE DEF key, source, Places
<1>6. /\ longer \in Seq(Places) /\ Len(longer) = c + 1 /\ longer[c + 1] = source
      /\ \A m \in 1..c : longer[m] = known[m]
  BY <1>4, <1>5, AppendProperties
<1>7. /\ DOMAIN put = DOMAIN listed \cup {key} /\ put[key] = longer
      /\ \A k \in DOMAIN listed : k # key => put[k] = listed[k]
  BY DEF Put
<1> HIDE DEF longer, put
<1>8. DOMAIN put = {k \in KeysTo(list, n + 1) : CountAt(list, k, n + 1) > 1}
  BY <1>1, <1>2, <1>3, <1>5, <1>7 DEF ListedSoFar
<1>9. \A k \in DOMAIN put : put[k] \in Seq(Places) /\ Len(put[k]) = CountAt(list, k, n + 1)
  BY <1>1, <1>2, <1>6, <1>7 DEF ListedSoFar, Places
<1>10. ASSUME NEW i \in 1..(n + 1), CountAt(list, list[i].key, i) > 1
       PROVE  put[list[i].key][CountAt(list, list[i].key, i)] = list[i].source
  <2>1. CASE i = n + 1
    BY <1>2, <1>6, <1>7, <2>1 DEF key, source
  <2>2. CASE i # n + 1 /\ list[i].key # key
    <3>1. i \in 1..n /\ n \in Nat /\ i \in Nat /\ i <= n
      BY <2>2
    <3>2. CountAt(list, list[i].key, i) <= CountAt(list, list[i].key, n)
      BY <3>1, CountGrows
    <3>3. list[i].key \in DOMAIN listed
      BY <1>10, <3>1, <3>2, CountIsNat DEF ListedSoFar, KeysTo
    <3> QED
      BY <1>7, <1>10, <2>2, <3>1, <3>3 DEF ListedSoFar
  <2>3. CASE i # n + 1 /\ list[i].key = key
    <3>1. i \in 1..n /\ n \in Nat /\ i \in Nat /\ i <= n
      BY <2>3
    <3>2. PICK m \in Nat : m = CountAt(list, key, i) /\ m <= c /\ m > 1
      BY <1>2, <1>10, <2>3, <3>1, CountGrows, CountIsNat
    <3>3. key \in DOMAIN listed
      BY <1>2, <1>5, <3>2 DEF ListedSoFar
    <3>4. known[m] = list[i].source
      BY <1>10, <2>3, <3>1, <3>2, <3>3 DEF ListedSoFar, key
    <3> QED
      BY <1>6, <1>7, <2>3, <3>2, <3>4
  <2> QED
    BY <2>1, <2>2, <2>3
<1> QED
  BY <1>8, <1>9, <1>10 DEF ListedSoFar, put, longer, key, source, Places

-----------------------------------------------------------------------------
(* The inductive invariant.                                                *)

AnyEntry == [key: Keys, link: BOOLEAN, source: [file: Nat, line: Nat]]

Types ==
    /\ input \in Inputs
    /\ phase \in {"reading", "deduping", "done", "failed"}
    /\ read \in 0..Len(Sources)
    /\ rawParts \in Seq(AnyText)
    /\ inputs \in Seq(AnyEntry)
    /\ at \in 0..Len(inputs)
    /\ phase \in {"reading", "failed"} =>
          at = 0 /\ seen = EmptyMap /\ unique = <<>> /\ collisions = EmptyMap
    /\ phase \in {"deduping", "done"} => read = Len(Sources) /\ rawParts = <<>>
    /\ phase = "done" => at = Len(inputs)

\* Where the entries come from: source by source, and what was pasted last.
Placed ==
    /\ \A i \in DOMAIN inputs : inputs[i].source.file <= read
    /\ \A i \in DOMAIN inputs :
          inputs[i].source.file = 0 => read = Len(Sources) /\ rawParts = <<>>
    /\ \A i, j \in DOMAIN inputs :
          i < j => \/ inputs[j].source.file = 0
                   \/ inputs[i].source.file \in 1..inputs[j].source.file

PutAside(source, texts) ==
    source.kind = "text" /\ \E n \in DOMAIN texts : texts[n] = source.text

\* What a source that was read names is there, or waits among the pasted texts.
Covered ==
    /\ \A s \in 1..read :
          NamedIn(Sources[s], input) \subseteq KeysOf(inputs) \/ PutAside(Sources[s], rawParts)
    /\ rawParts # <<>> => \E s \in 1..read : Aside(input, Sources[s])
    /\ Alone(input) => Len(rawParts) <= 1
    /\ \A n \in DOMAIN rawParts : Short(rawParts[n])

Kept == KeptSoFar(inputs, at, unique, seen)

Listed == input.command = "dedupe" => ListedSoFar(inputs, at, collisions)

IInv == Types /\ Placed /\ Covered /\ Kept /\ Listed

LEMMA SourceKnown ==
    ASSUME NEW given \in Inputs, NEW s \in DOMAIN given.sources
    PROVE  /\ given.sources[s].kind = "file" =>
                 given.sources[s] \in [kind: {"file"}, lines: Seq(Seq(Keys) \cup {Malformed})]
           /\ given.sources[s].kind \in {"document", "url", "text"} => given.sources[s].text \in AnyText
           /\ given.sources[s].kind = "folder" => given.sources[s].rows \in Seq(AnyRow)
           /\ WellFormed(given.sources[s])
<1>1. given.sources \in Seq(AnySource) /\ WellFormed(given.sources[s])
  BY InputsAssumption
<1>2. PICK source : source = given.sources[s] /\ source \in AnySource
  BY <1>1, ElementOfSeq, LenProperties
<1>3. /\ source.kind = "file" => source \in [kind: {"file"}, lines: Seq(Seq(Keys) \cup {Malformed})]
      /\ source.kind \in {"document", "url", "text"} => source.text \in AnyText
      /\ source.kind = "folder" => source.rows \in Seq(AnyRow)
  <2>1. CASE source \in [kind: {"file"}, lines: Seq(Seq(Keys) \cup {Malformed})]
    BY <2>1
  <2>2. CASE source \in [kind: {"document"}, exists: BOOLEAN, text: AnyText]
    BY <2>2
  <2>3. CASE source \in [kind: {"url"}, scheme: STRING, status: Nat, broken: BOOLEAN, text: AnyText]
    BY <2>3
  <2>4. CASE source \in [kind: {"text"}, text: AnyText]
    BY <2>4
  <2>5. CASE source \in [kind: {"blank"}]
    BY <2>5
  <2>6. CASE source \in [kind: {"folder"}, database: BOOLEAN, guiConfig: BOOLEAN,
                         binConfig: BOOLEAN, opens: BOOLEAN, rows: Seq(AnyRow)]
    BY <2>6
  <2> QED
    BY <1>2, <2>1, <2>2, <2>3, <2>4, <2>5, <2>6 DEF AnySource
<1> QED
  BY <1>1, <1>2, <1>3

\* The next source is read, all of it, or the command fails.
Takes ==
    /\ phase = "reading" /\ read < Len(Sources) /\ ~Aside(input, Current)
    /\ \E entries \in Seq(EntryOf(read + 1)) :
          inputs' = inputs \o entries /\ NamedIn(Current, input) \subseteq KeysOf(entries)
    /\ read' = read + 1
    /\ UNCHANGED <<input, phase, rawParts, at, seen, unique, collisions>>

Fails ==
    /\ phase = "reading" /\ phase' = "failed"
    /\ UNCHANGED <<input, read, rawParts, inputs, at, seen, unique, collisions>>

LEMMA Reading ==
    ASSUME Types, ReadFile \/ ReadDocument \/ ReadURL \/ SkipBlank \/ ReadFolder
    PROVE  Takes \/ Fails
<1>1. PICK f : f = read + 1
  OBVIOUS
<1>2. PICK source, given : source = Current /\ given = input
  OBVIOUS
<1>3. /\ phase = "reading" /\ read < Len(Sources)
      /\ UNCHANGED <<input, at, seen, unique, collisions>>
  BY DEF ReadFile, ReadDocument, ReadURL, SkipBlank, ReadFolder, UpNext
<1>4. given \in Inputs /\ f \in DOMAIN given.sources /\ source = given.sources[f]
  <2>1. input \in Inputs /\ read \in 0..Len(Sources)
    BY DEF Types
  <2>2. input.sources \in Seq(AnySource)
    BY <2>1, InputsAssumption
  <2>3. Len(input.sources) \in Nat /\ DOMAIN input.sources = 1..Len(input.sources)
    BY <2>2, LenProperties
  <2> QED
    BY <1>1, <1>2, <1>3, <2>1, <2>3 DEF Sources, Current
<1>5. /\ source.kind = "file" => source \in [kind: {"file"}, lines: Seq(Seq(Keys) \cup {Malformed})]
      /\ source.kind \in {"document", "url", "text"} => source.text \in AnyText
      /\ source.kind = "folder" => source.rows \in Seq(AnyRow)
      /\ WellFormed(source)
  BY <1>4, SourceKnown
<1>6. ASSUME NEW ok, NEW entries, TakeOrFail(ok, entries), ~Aside(given, source),
             ok => entries \in Seq(EntryOf(f)) /\ NamedIn(source, given) \subseteq KeysOf(entries)
      PROVE  Takes \/ Fails
  <2>1. CASE ok
    <3>1. inputs' = inputs \o entries /\ read' = read + 1 /\ UNCHANGED <<phase, rawParts>>
      BY <1>6, <2>1 DEF TakeOrFail
    <3>2. entries \in Seq(EntryOf(read + 1)) /\ NamedIn(Current, input) \subseteq KeysOf(entries)
      BY <1>1, <1>2, <1>6, <2>1
    <3> QED
      BY <1>2, <1>3, <1>6, <3>1, <3>2 DEF Takes
  <2>2. CASE ~ok
    BY <1>3, <1>6, <2>2 DEF TakeOrFail, Fails
  <2> QED
    BY <2>1, <2>2
<1>7. CASE ReadFile
  <2>1. source.kind = "file" /\ TakeOrFail(Readable(source), Entries(source, f))
    BY <1>1, <1>2, <1>7 DEF ReadFile, UpNext
  <2>2. Readable(source) =>
          /\ Entries(source, f) \in Seq(EntryOf(f))
          /\ NamedIn(source, given) \subseteq KeysOf(Entries(source, f))
    BY <1>5, <2>1, EntriesHas DEF Readable
  <2> QED
    BY <1>6, <2>1, <2>2 DEF Aside
<1>8. CASE ReadDocument
  <2>1. source.kind = "document" /\ TakeOrFail(source.exists, From(ParseContent(source.text), f))
    BY <1>1, <1>2, <1>8 DEF ReadDocument, UpNext
  <2>2. /\ From(ParseContent(source.text), f) \in Seq(EntryOf(f))
        /\ NamedIn(source, given) \subseteq KeysOf(From(ParseContent(source.text), f))
    <3>1. ~Aside(given, source)
      BY <2>1 DEF Aside
    <3> QED
      BY <1>5, <2>1, <3>1, TextHas, ContentHas, FromHas
  <2> QED
    BY <1>6, <2>1, <2>2 DEF Aside
<1>9. CASE ReadURL
  <2> DEFINE fetched == From(ParseContent(FetchSubscription(source)), f)
             left    == IF given.command = "paste" THEN DeduplicateImported(fetched) ELSE fetched
  <2>1. source.kind = "url" /\ ~Aside(given, source) /\ TakeOrFail(FetchSucceeds(source), left)
    BY <1>1, <1>2, <1>9 DEF ReadURL, UpNext
  <2>2. ASSUME FetchSucceeds(source)
        PROVE  left \in Seq(EntryOf(f)) /\ NamedIn(source, given) \subseteq KeysOf(left)
    <3>1. FetchSubscription(source) = source.text
      BY <1>5, <2>1, <2>2, FetchedWhole
    <3>2. fetched \in Seq(EntryOf(f)) /\ NamedIn(source, given) \subseteq KeysOf(fetched)
      BY <1>5, <2>1, <3>1, TextHas, ContentHas, FromHas
    <3> HIDE DEF fetched
    <3> QED
      BY <3>2, DeduplicatedHas
  <2> HIDE DEF left
  <2> QED
    BY <1>6, <2>1, <2>2
<1>10. CASE SkipBlank
  <2>1. source.kind = "blank" /\ TakeOrFail(TRUE, <<>>)
    BY <1>2, <1>10 DEF SkipBlank, UpNext
  <2>2. <<>> \in Seq(EntryOf(f)) /\ NamedIn(source, given) = {}
    BY <2>1, EmptySeq DEF NamedIn
  <2> QED
    BY <1>6, <2>1, <2>2 DEF Aside
<1>11. CASE ReadFolder
  <2> DEFINE found == Discover(source)
             taken == IF found = "database" THEN From(ReadProfiles(source), f) ELSE <<>>
             ok    == found = "config" \/ (found = "database" /\ ProfilesReadable(source))
  <2>1. source.kind = "folder" /\ TakeOrFail(ok, taken)
    BY <1>1, <1>2, <1>11 DEF ReadFolder, UpNext
  <2>2. /\ ReadProfiles(source) \in Seq(Parsed)
        /\ NamedIn(source, given) \subseteq
              IF source.database THEN KeysOf(ReadProfiles(source)) ELSE {}
    BY <1>5, <2>1, FolderHas
  <2>3. /\ From(ReadProfiles(source), f) \in Seq(EntryOf(f))
        /\ KeysOf(From(ReadProfiles(source), f)) = KeysOf(ReadProfiles(source))
    BY <2>2, FromHas
  <2>4. found = "database" <=> source.database
    BY DEF Discover
  <2>5. taken \in Seq(EntryOf(f)) /\ NamedIn(source, given) \subseteq KeysOf(taken)
    BY <2>2, <2>3, <2>4, EmptySeq
  <2>6. ~Aside(given, source)
    BY <2>1 DEF Aside
  <2> HIDE DEF taken, ok
  <2> QED
    BY <1>6, <2>1, <2>5, <2>6
<1> QED
  BY <1>7, <1>8, <1>9, <1>10, <1>11

LEMMA Nothing ==
    ASSUME NEW list
    PROVE  KeptSoFar(list, 0, <<>>, EmptyMap) /\ ListedSoFar(list, 0, EmptyMap)
<1>1. KeysTo(list, 0) = {}
  BY DEF KeysTo
<1>2. DOMAIN EmptyMap = {}
  BY DEF EmptyMap
<1>3. Members(<<>>) = {} /\ DOMAIN (<<>>) = {}
  BY DEF Members
<1>4. 1..0 = {}
  OBVIOUS
<1>5. KeptSoFar(list, 0, <<>>, EmptyMap)
  BY <1>1, <1>2, <1>3, <1>4, EmptySeq DEF KeptSoFar
<1>6. ListedSoFar(list, 0, EmptyMap)
  BY <1>1, <1>2, <1>4 DEF ListedSoFar
<1> QED
  BY <1>5, <1>6

LEMMA Appended ==
    ASSUME NEW a \in Seq(AnyEntry), NEW f \in Nat, NEW e \in Seq(EntryOf(f))
    PROVE  /\ a \o e \in Seq(AnyEntry) /\ Len(a \o e) \in Nat /\ Len(a) \in Nat
           /\ DOMAIN a = 1..Len(a) /\ DOMAIN (a \o e) = 1..Len(a \o e)
           /\ KeysOf(a \o e) = KeysOf(a) \cup KeysOf(e)
           /\ \A i \in DOMAIN (a \o e) :
                 IF i \in DOMAIN a THEN (a \o e)[i] = a[i] ELSE (a \o e)[i].source.file = f
<1> DEFINE b == a \o e
<1>1. PICK m \in Nat : m = Len(a) /\ DOMAIN a = 1..m
  BY LenProperties
<1>2. PICK n \in Nat : n = Len(e) /\ DOMAIN e = 1..n /\ \A i \in 1..n : e[i] \in EntryOf(f)
  BY LenProperties, ElementOfSeq
<1>3. e \in Seq(AnyEntry)
  <2>1. EntryOf(f) \subseteq AnyEntry
    BY DEF EntryOf, AnyEntry
  <2>2. e \in [1..n -> AnyEntry]
    <3>1. e = [i \in 1..n |-> e[i]]
      <4>1. e \in [1..Len(e) -> EntryOf(f)]
        BY LenProperties
      <4> QED
        BY <1>2, <4>1
    <3> QED
      BY <1>2, <2>1, <3>1
  <2> QED
    BY <2>2, SeqDef
<1>4. b \in Seq(AnyEntry) /\ KeysOf(b) = KeysOf(a) \cup KeysOf(e)
  BY <1>3, ConcatKeys
<1>5. /\ Len(b) = m + n
      /\ \A i \in 1..(m + n) : b[i] = IF i <= m THEN a[i] ELSE e[i - m]
  BY <1>1, <1>2, <1>3, ConcatProperties
<1> HIDE DEF b
<1>6. DOMAIN b = 1..(m + n)
  BY <1>4, <1>5, LenProperties
<1>7. \A i \in 1..(m + n) : IF i \in 1..m THEN b[i] = a[i] ELSE b[i].source.file = f
  <2> SUFFICES ASSUME NEW i \in 1..(m + n)
               PROVE  IF i \in 1..m THEN b[i] = a[i] ELSE b[i].source.file = f
    OBVIOUS
  <2>1. CASE i \in 1..m
    BY <1>5, <2>1
  <2>2. CASE i \notin 1..m
    <3>1. i - m \in 1..n /\ b[i] = e[i - m]
      BY <1>5, <2>2
    <3>2. e[i - m] \in EntryOf(f)
      BY <1>2, <3>1
    <3>3. b[i].source.file = f
      BY <3>1, <3>2 DEF EntryOf
    <3> QED
      BY <2>2, <3>3
  <2> QED
    BY <2>1, <2>2
<1> QED
  BY <1>1, <1>4, <1>5, <1>6, <1>7 DEF b

LEMMA InitInv == Init => IInv
<1> SUFFICES ASSUME Init PROVE IInv
  OBVIOUS
<1>1. /\ input \in Inputs /\ phase = "reading" /\ read = 0 /\ rawParts = <<>> /\ inputs = <<>>
      /\ at = 0 /\ seen = EmptyMap /\ unique = <<>> /\ collisions = EmptyMap
  BY Zenon DEF Init
<1>2. Len(Sources) \in Nat
  <2>1. input.sources \in Seq(AnySource)
    BY <1>1, InputsAssumption
  <2> QED
    BY <2>1, LenProperties DEF Sources
<1>3. 1..0 = {} /\ DOMAIN (<<>>) = {} /\ Len(<<>>) = 0
  OBVIOUS
<1>4. Types
  BY <1>1, <1>2, <1>3, EmptySeq DEF Types
<1>5. Placed
  BY <1>1, <1>3 DEF Placed
<1>6. Covered
  BY <1>1, <1>3 DEF Covered, Short
<1>7. Kept /\ Listed
  BY <1>1, Nothing DEF Kept, Listed
<1> QED
  BY <1>4, <1>5, <1>6, <1>7 DEF IInv

\* The loop has not started before everything was read.
LEMMA NotStarted ==
    ASSUME Types, phase \in {"reading", "failed"}, UNCHANGED <<at, seen, unique, collisions>>
    PROVE  Kept' /\ Listed'
<1>1. at' = 0 /\ seen' = EmptyMap /\ unique' = <<>> /\ collisions' = EmptyMap
  BY DEF Types
<1>2. KeptSoFar(inputs', 0, <<>>, EmptyMap) /\ ListedSoFar(inputs', 0, EmptyMap)
  BY Nothing
<1>3. KeptSoFar(inputs', at', unique', seen') /\ ListedSoFar(inputs', at', collisions')
  BY <1>1, <1>2
<1> QED
  BY <1>3 DEF Kept, Listed

LEMMA TakesInv ==
    ASSUME IInv, Takes
    PROVE  IInv'
<1>1. Types /\ Placed /\ Covered
  BY DEF IInv
<1>2. PICK given, r, texts, a : given = input /\ r = read /\ texts = rawParts /\ a = inputs
  OBVIOUS
<1>3. /\ given \in Inputs /\ r \in Nat /\ texts \in Seq(AnyText) /\ a \in Seq(AnyEntry)
      /\ r < Len(given.sources) /\ phase = "reading" /\ at = 0
      /\ seen = EmptyMap /\ unique = <<>> /\ collisions = EmptyMap
  BY <1>1, <1>2 DEF Types, Takes, Sources
<1>4. PICK n \in Nat : n = Len(given.sources)
  <2>1. given.sources \in Seq(AnySource)
    BY <1>3, InputsAssumption
  <2> QED
    BY <2>1, LenProperties
<1>5. PICK f \in Nat : f = r + 1
  BY <1>3
<1>6. PICK e \in Seq(EntryOf(f)) :
        inputs' = a \o e /\ NamedIn(given.sources[f], given) \subseteq KeysOf(e)
  BY <1>2, <1>5 DEF Takes, Sources, Current
<1> DEFINE b == a \o e
<1>7. inputs' = b
  BY <1>6
<1>8. /\ b \in Seq(AnyEntry) /\ Len(b) \in Nat /\ Len(a) \in Nat
      /\ DOMAIN a = 1..Len(a) /\ DOMAIN b = 1..Len(b)
      /\ KeysOf(b) = KeysOf(a) \cup KeysOf(e)
      /\ \A i \in DOMAIN b : IF i \in DOMAIN a THEN b[i] = a[i] ELSE b[i].source.file = f
  BY <1>3, Appended
<1> HIDE DEF b
<1>9. /\ input' = given /\ read' = f /\ rawParts' = texts /\ inputs' = b /\ phase' = "reading"
      /\ at' = 0 /\ seen' = EmptyMap /\ unique' = <<>> /\ collisions' = EmptyMap
  BY <1>2, <1>3, <1>5, <1>7 DEF Takes
<1>10. Types'
  BY <1>3, <1>4, <1>5, <1>8, <1>9 DEF Types, Sources
<1>11. /\ \A i \in DOMAIN a : a[i].source.file \in 1..r
       /\ \A i, j \in DOMAIN a : i < j => a[i].source.file \in 1..a[j].source.file
  <2>1. \A i \in DOMAIN a : a[i].source.file <= r /\ a[i].source.file # 0
    BY <1>1, <1>2, <1>3, <1>4 DEF Placed, Sources
  <2>2. \A i \in DOMAIN a : a[i].source.file \in Nat
    <3>1. \A i \in DOMAIN a : a[i] \in AnyEntry
      BY <1>3, <1>8, ElementOfSeq
    <3> QED
      BY <3>1 DEF AnyEntry
  <2> QED
    BY <1>1, <1>2, <1>3, <2>1, <2>2 DEF Placed
<1>12. /\ \A i \in DOMAIN b : b[i].source.file \in 1..f
       /\ \A i, j \in DOMAIN b : i < j => b[i].source.file \in 1..b[j].source.file
  <2>1. \A i \in DOMAIN b : b[i].source.file \in 1..f
    BY <1>3, <1>5, <1>8, <1>11
  <2>2. ASSUME NEW i \in DOMAIN b, NEW j \in DOMAIN b, i < j
        PROVE  b[i].source.file \in 1..b[j].source.file
    <3>1. CASE j \in DOMAIN a
      <4>1. i \in DOMAIN a
        BY <1>8, <2>2, <3>1
      <4> QED
        BY <1>8, <1>11, <2>2, <3>1, <4>1
    <3>2. CASE j \notin DOMAIN a
      BY <1>8, <2>1, <3>2
    <3> QED
      BY <3>1, <3>2
  <2> QED
    BY <2>1, <2>2
<1>13. Placed'
  <2>1. \A i \in DOMAIN b : b[i].source.file <= f /\ b[i].source.file # 0
    BY <1>5, <1>12
  <2> QED
    BY <1>9, <1>12, <2>1 DEF Placed
<1>14. Covered'
  <2>1. \A s \in 1..r : \/ NamedIn(given.sources[s], given) \subseteq KeysOf(a)
                        \/ PutAside(given.sources[s], texts)
    BY <1>1, <1>2 DEF Covered, Sources
  <2>2. 1..f = (1..r) \cup {f}
    BY <1>3, <1>5
  <2>3. \A s \in 1..f : \/ NamedIn(given.sources[s], given) \subseteq KeysOf(b)
                        \/ PutAside(given.sources[s], texts)
    BY <1>6, <1>8, <2>1, <2>2
  <2>4. /\ texts # <<>> => \E s \in 1..f : Aside(given, given.sources[s])
        /\ Alone(given) => Len(texts) <= 1
        /\ \A k \in DOMAIN texts : Short(texts[k])
    BY <1>1, <1>2, <2>2 DEF Covered, Sources
  <2> QED
    BY <1>9, <2>3, <2>4 DEF Covered, Sources
<1>15. Kept' /\ Listed'
  BY <1>1, <1>3, <1>9, NotStarted
<1> QED
  BY <1>10, <1>13, <1>14, <1>15 DEF IInv

LEMMA SameRead ==
    ASSUME Placed, Covered, UNCHANGED <<input, read, rawParts, inputs>>
    PROVE  Placed' /\ Covered'
<1>1. PICK given, r, texts, a : given = input /\ r = read /\ texts = rawParts /\ a = inputs
  OBVIOUS
<1>2. given = input' /\ r = read' /\ texts = rawParts' /\ a = inputs'
  BY <1>1
<1>3. /\ \A i \in DOMAIN a : a[i].source.file <= r
      /\ \A i \in DOMAIN a : a[i].source.file = 0 => r = Len(given.sources) /\ texts = <<>>
      /\ \A i, j \in DOMAIN a :
            i < j => a[j].source.file = 0 \/ a[i].source.file \in 1..a[j].source.file
  BY <1>1 DEF Placed, Sources
<1>4. /\ \A s \in 1..r : \/ NamedIn(given.sources[s], given) \subseteq KeysOf(a)
                         \/ PutAside(given.sources[s], texts)
      /\ texts # <<>> => \E s \in 1..r : Aside(given, given.sources[s])
      /\ Alone(given) => Len(texts) <= 1
      /\ \A k \in DOMAIN texts : Short(texts[k])
  BY <1>1 DEF Covered, Sources
<1>5. Placed'
  BY <1>2, <1>3 DEF Placed, Sources
<1>6. Covered'
  BY <1>2, <1>4 DEF Covered, Sources
<1> QED
  BY <1>5, <1>6

LEMMA SameLists ==
    ASSUME Kept, Listed, UNCHANGED <<input, inputs, at, seen, unique, collisions>>
    PROVE  Kept' /\ Listed'
<1>1. PICK given, a, n, s, u, c :
         given = input /\ a = inputs /\ n = at /\ s = seen /\ u = unique /\ c = collisions
  OBVIOUS
<1>2. KeptSoFar(a, n, u, s) /\ (given.command = "dedupe" => ListedSoFar(a, n, c))
  BY <1>1 DEF Kept, Listed
<1>3. given = input' /\ a = inputs' /\ n = at' /\ s = seen' /\ u = unique' /\ c = collisions'
  BY <1>1
<1> QED
  BY <1>2, <1>3 DEF Kept, Listed

LEMMA FailsInv == ASSUME IInv, Fails PROVE IInv'
<1>1. Types'
  BY DEF IInv, Types, Fails, Sources
<1>2. Placed' /\ Covered' /\ Kept' /\ Listed'
  BY SameRead, SameLists DEF IInv, Fails
<1> QED
  BY <1>1, <1>2 DEF IInv

LEMMA AllReadInv == ASSUME IInv, AllRead PROVE IInv'
<1>1. Types'
  BY DEF IInv, Types, AllRead, Sources
<1>2. Placed' /\ Covered' /\ Kept' /\ Listed'
  BY SameRead, SameLists DEF IInv, AllRead
<1> QED
  BY <1>1, <1>2 DEF IInv

LEMMA FinishInv == ASSUME IInv, Finish PROVE IInv'
<1>1. Types'
  BY DEF IInv, Types, Finish, Sources
<1>2. Placed' /\ Covered' /\ Kept' /\ Listed'
  BY SameRead, SameLists DEF IInv, Finish
<1> QED
  BY <1>1, <1>2 DEF IInv

LEMMA StutterInv == ASSUME IInv, UNCHANGED vars PROVE IInv'
<1>1. Types'
  BY DEF IInv, Types, vars, Sources
<1>2. Placed' /\ Covered' /\ Kept' /\ Listed'
  BY SameRead, SameLists DEF IInv, vars
<1> QED
  BY <1>1, <1>2 DEF IInv

LEMMA KeepFirstInv == ASSUME IInv, KeepFirst PROVE IInv'
<1>1. PICK given, a, n, s, u, c :
         given = input /\ a = inputs /\ n = at /\ s = seen /\ u = unique /\ c = collisions
  OBVIOUS
<1>2. /\ n \in Nat /\ n < Len(a) /\ a[n + 1].key \notin DOMAIN s
      /\ KeptSoFar(a, n, u, s) /\ (given.command = "dedupe" => ListedSoFar(a, n, c))
  <2>1. n \in Nat /\ n < Len(a) /\ a[n + 1].key \notin DOMAIN s
    BY <1>1, LenProperties DEF IInv, Types, KeepFirst, AtEntry, Entry
  <2> QED
    BY <1>1, <2>1 DEF IInv, Kept, Listed
<1>3. /\ input' = given /\ inputs' = a /\ at' = n + 1 /\ collisions' = c
      /\ seen' = Put(s, a[n + 1].key, Len(u)) /\ unique' = Append(u, n + 1)
  BY <1>1 DEF KeepFirst, AtEntry, Entry
<1>4. Types'
  <2>1. at + 1 \in 0..Len(inputs) /\ phase = "deduping"
    BY <1>1, <1>2, LenProperties DEF IInv, Types, KeepFirst, AtEntry
  <2>2. UNCHANGED <<input, phase, read, rawParts, inputs>> /\ at' = at + 1
    BY DEF KeepFirst, AtEntry
  <2> QED
    BY <2>1, <2>2 DEF IInv, Types, Sources
<1>5. Placed' /\ Covered'
  BY SameRead DEF IInv, KeepFirst, AtEntry
<1>6. KeptSoFar(a, n + 1, Append(u, n + 1), Put(s, a[n + 1].key, Len(u)))
  BY <1>2, KeepsFirst
<1>7. given.command = "dedupe" => ListedSoFar(a, n + 1, c)
  <2>1. DOMAIN s = KeysTo(a, n)
    BY <1>2 DEF KeptSoFar
  <2> QED
    BY <1>2, <2>1, ListsNoFirst
<1>8. Kept' /\ Listed'
  <2>1. PICK s1, u1, n1 : s1 = seen' /\ u1 = unique' /\ n1 = at'
    OBVIOUS
  <2>2. KeptSoFar(a, n1, u1, s1)
    BY <1>3, <1>6, <2>1
  <2>3. given.command = "dedupe" => ListedSoFar(a, n1, c)
    BY <1>3, <1>7, <2>1
  <2> QED
    BY <1>3, <2>1, <2>2, <2>3 DEF Kept, Listed
<1> QED
  BY <1>4, <1>5, <1>8 DEF IInv

LEMMA RecordCollisionInv == ASSUME IInv, RecordCollision PROVE IInv'
<1>1. PICK given, a, n, s, u, c :
         given = input /\ a = inputs /\ n = at /\ s = seen /\ u = unique /\ c = collisions
  OBVIOUS
<1>2. /\ n \in Nat /\ n < Len(a) /\ a[n + 1].key \in DOMAIN s /\ a \in Seq(AnyEntry)
      /\ KeptSoFar(a, n, u, s) /\ (given.command = "dedupe" => ListedSoFar(a, n, c))
  <2>1. n \in Nat /\ n < Len(a) /\ a[n + 1].key \in DOMAIN s /\ a \in Seq(AnyEntry)
    BY <1>1, LenProperties DEF IInv, Types, RecordCollision, AtEntry, Entry
  <2> QED
    BY <1>1, <2>1 DEF IInv, Kept, Listed
<1>3. PICK key, first, source, known :
        /\ key = a[n + 1].key /\ first = a[s[key] + 1].source /\ source = a[n + 1].source
        /\ known = IF key \in DOMAIN c THEN c[key] ELSE << first >>
  OBVIOUS
<1>4. /\ input' = given /\ inputs' = a /\ at' = n + 1 /\ seen' = s /\ unique' = u
      /\ given.command = "dedupe" => collisions' = Put(c, key, Append(known, source))
  BY <1>1, <1>3 DEF RecordCollision, AtEntry, Entry
<1>5. Types'
  <2>1. at + 1 \in 0..Len(inputs) /\ phase = "deduping"
    BY <1>1, <1>2, LenProperties DEF IInv, Types, RecordCollision, AtEntry
  <2>2. UNCHANGED <<input, phase, read, rawParts, inputs>> /\ at' = at + 1
    BY DEF RecordCollision, AtEntry
  <2> QED
    BY <2>1, <2>2 DEF IInv, Types, Sources
<1>6. Placed' /\ Covered'
  BY SameRead DEF IInv, RecordCollision, AtEntry
<1>7. KeptSoFar(a, n + 1, u, s)
  BY <1>2, KeepsNoRepetition
<1>8. first \in [file: Nat, line: Nat] /\ source \in [file: Nat, line: Nat]
  <2>1. PICK l \in Nat : l = Len(a) /\ \A i \in 1..l : a[i] \in AnyEntry
    BY <1>2, LenProperties, ElementOfSeq
  <2>2. s[key] + 1 \in 1..l /\ n + 1 \in 1..l
    BY <1>2, <1>3, <2>1 DEF KeptSoFar
  <2>3. a[s[key] + 1] \in AnyEntry /\ a[n + 1] \in AnyEntry
    BY <2>1, <2>2
  <2> QED
    BY <1>3, <2>3 DEF AnyEntry
<1>9. given.command = "dedupe" => ListedSoFar(a, n + 1, Put(c, key, Append(known, source)))
  <2>1. DOMAIN s = KeysTo(a, n)
    BY <1>2 DEF KeptSoFar
  <2> QED
    BY <1>2, <1>3, <1>8, <2>1, ListsRepetition
<1>10. Kept' /\ Listed'
  <2>1. PICK n1, c1 : n1 = at' /\ c1 = collisions'
    OBVIOUS
  <2>2. KeptSoFar(a, n1, u, s) /\ (given.command = "dedupe" => ListedSoFar(a, n1, c1))
    BY <1>4, <1>7, <1>9, <2>1
  <2> QED
    BY <1>4, <2>1, <2>2 DEF Kept, Listed
<1> QED
  BY <1>5, <1>6, <1>10 DEF IInv

LEMMA SetAsideInv == ASSUME IInv, SetAside PROVE IInv'
<1>1. Types /\ Placed /\ Covered
  BY DEF IInv
<1>2. PICK given, r, texts, a : given = input /\ r = read /\ texts = rawParts /\ a = inputs
  OBVIOUS
<1>3. /\ given \in Inputs /\ r \in Nat /\ texts \in Seq(AnyText)
      /\ r < Len(given.sources) /\ phase = "reading" /\ Aside(given, given.sources[r + 1])
  BY <1>1, <1>2 DEF Types, SetAside, UpNext, Sources, Current
<1>4. PICK n \in Nat : n = Len(given.sources) /\ DOMAIN given.sources = 1..n
  <2>1. given.sources \in Seq(AnySource)
    BY <1>3, InputsAssumption
  <2> QED
    BY <2>1, LenProperties
<1>5. PICK f, source, text : f = r + 1 /\ source = given.sources[f] /\ text = Remainder(source)
  OBVIOUS
<1>6. /\ f \in 1..n /\ f \in DOMAIN given.sources /\ text \in AnyText /\ Short(text)
      /\ Aside(given, source)
      /\ IF source.kind = "text" THEN text = source.text ELSE NamedIn(source, given) = {}
  <2>1. f \in 1..n /\ f \in DOMAIN given.sources /\ Aside(given, source)
    BY <1>3, <1>4, <1>5
  <2>2. CASE source.kind = "text"
    <3>1. text = source.text /\ text \in AnyText /\ WellFormed(source)
      BY <1>3, <1>5, <2>1, <2>2, SourceKnown DEF Remainder
    <3>2. Short(text)
      BY <2>2, <3>1 DEF WellFormed, Short, Members
    <3> QED
      BY <2>1, <2>2, <3>1, <3>2
  <2>3. CASE source.kind # "text"
    <3>1. source.kind = "url"
      BY <2>1, <2>3 DEF Aside
    <3>2. NamedIn(source, given) = {}
      BY <2>1, <3>1 DEF NamedIn
    <3>3. text = [wrapped |-> 0, json |-> FALSE, parts |-> <<>>]
      BY <1>5, <2>3 DEF Remainder
    <3>4. text \in AnyText /\ Short(text)
      BY <3>3, EmptySeq DEF AnyText, Short, Members
    <3> QED
      BY <2>1, <2>3, <3>2, <3>4
  <2> QED
    BY <2>2, <2>3
<1>7. PICK m \in Nat : m = Len(texts) /\ DOMAIN texts = 1..m
  BY <1>3, LenProperties
<1>8. PICK more : more = Append(texts, text)
  OBVIOUS
<1>9. /\ more \in Seq(AnyText) /\ Len(more) = m + 1 /\ DOMAIN more = 1..(m + 1)
      /\ more[m + 1] = text /\ \A i \in 1..m : more[i] = texts[i]
  <2>1. /\ Append(texts, text) \in Seq(AnyText)
        /\ Len(Append(texts, text)) = m + 1 /\ DOMAIN Append(texts, text) = 1..(m + 1)
        /\ Append(texts, text)[m + 1] = text
        /\ \A i \in 1..m : Append(texts, text)[i] = texts[i]
    BY <1>3, <1>6, <1>7, AppendProperties
  <2> QED
    BY <1>8, <2>1
<1>10. /\ input' = given /\ read' = f /\ rawParts' = more /\ inputs' = a
       /\ UNCHANGED <<input, phase, inputs, at, seen, unique, collisions>>
  BY <1>2, <1>5, <1>8 DEF SetAside, UpNext, Sources, Current
<1>11. Types'
  BY <1>1, <1>2, <1>3, <1>4, <1>6, <1>9, <1>10 DEF Types, Sources
<1>12. Placed'
  <2>1. \A i \in DOMAIN a : a[i].source.file <= r /\ a[i].source.file # 0
    BY <1>1, <1>2, <1>3, <1>4 DEF Placed, Sources
  <2>2. \A i \in DOMAIN a : a[i].source.file \in Nat
    <3>1. a \in Seq(AnyEntry)
      BY <1>1, <1>2 DEF Types
    <3>2. \A i \in DOMAIN a : a[i] \in AnyEntry
      BY <3>1, LenProperties, ElementOfSeq
    <3> QED
      BY <3>2 DEF AnyEntry
  <2>3. \A i \in DOMAIN a : a[i].source.file <= f /\ a[i].source.file # 0
    BY <1>3, <1>5, <2>1, <2>2
  <2>4. \A i, j \in DOMAIN a :
           i < j => a[j].source.file = 0 \/ a[i].source.file \in 1..a[j].source.file
    BY <1>1, <1>2 DEF Placed
  <2> QED
    BY <1>10, <2>3, <2>4 DEF Placed
<1>13. Covered'
  <2>1. /\ \A s \in 1..r : \/ NamedIn(given.sources[s], given) \subseteq KeysOf(a)
                           \/ PutAside(given.sources[s], texts)
        /\ texts # <<>> => \E s \in 1..r : Aside(given, given.sources[s])
    BY <1>1, <1>2 DEF Covered, Sources
  <2>2. 1..f = (1..r) \cup {f}
    BY <1>3, <1>5
  <2>3. \A x : PutAside(x, texts) => PutAside(x, more)
    BY <1>7, <1>9 DEF PutAside
  <2>4. NamedIn(given.sources[f], given) \subseteq KeysOf(a) \/ PutAside(given.sources[f], more)
    <3>1. m + 1 \in DOMAIN more
      BY <1>7, <1>9
    <3> QED
      BY <1>5, <1>6, <1>9, <3>1 DEF PutAside
  <2>5. \A s \in 1..f : \/ NamedIn(given.sources[s], given) \subseteq KeysOf(a)
                        \/ PutAside(given.sources[s], more)
    BY <2>1, <2>2, <2>3, <2>4
  <2>6. ASSUME Alone(given) PROVE Len(more) <= 1
    <3>1. ~ \E s \in 1..r : Aside(given, given.sources[s])
      BY <1>3, <1>4, <1>5, <1>6, <2>6 DEF Alone
    <3>2. texts = <<>>
      BY <2>1, <3>1
    <3>3. m = 0
      BY <1>7, <3>2
    <3> QED
      BY <1>9, <3>3
  <2>7. \E s \in 1..f : Aside(given, given.sources[s])
    BY <1>5, <1>6, <2>2
  <2>8. \A k \in DOMAIN more : Short(more[k])
    <3>1. \A k \in 1..m : Short(texts[k])
      BY <1>1, <1>2, <1>7 DEF Covered
    <3>2. 1..(m + 1) = (1..m) \cup {m + 1}
      BY <1>7
    <3> QED
      BY <1>6, <1>9, <3>1, <3>2
  <2> QED
    BY <1>10, <2>5, <2>6, <2>7, <2>8 DEF Covered, Sources
<1>14. Kept' /\ Listed'
  BY <1>10, SameLists DEF IInv
<1> QED
  BY <1>11, <1>12, <1>13, <1>14 DEF IInv

LEMMA ParsePastedInv == ASSUME IInv, ParsePasted PROVE IInv'
<1>1. Types /\ Placed /\ Covered
  BY DEF IInv
<1>2. PICK given, r, texts, a : given = input /\ r = read /\ texts = rawParts /\ a = inputs
  OBVIOUS
<1>3. /\ given \in Inputs /\ r \in Nat /\ texts \in Seq(AnyText) /\ texts # <<>>
      /\ a \in Seq(AnyEntry) /\ r = Len(given.sources) /\ phase = "reading" /\ at = 0
      /\ seen = EmptyMap /\ unique = <<>> /\ collisions = EmptyMap
  BY <1>1, <1>2 DEF Types, ParsePasted, Sources
<1>4. DOMAIN given.sources = 1..r
  <2>1. given.sources \in Seq(AnySource)
    BY <1>3, InputsAssumption
  <2> QED
    BY <1>3, <2>1, LenProperties
<1> DEFINE parsed == ParseContent(Joined(texts))
           e      == From(parsed, 0)
           b      == a \o e
<1>5. e \in Seq(EntryOf(0)) /\ KeysOf(e) = KeysOf(parsed)
  BY <1>3, JoinedHas, ContentHas, FromHas
<1>6. inputs' = b
  BY <1>2 DEF ParsePasted
<1> HIDE DEF e
<1>7. /\ b \in Seq(AnyEntry) /\ Len(b) \in Nat /\ Len(a) \in Nat
      /\ DOMAIN a = 1..Len(a) /\ DOMAIN b = 1..Len(b)
      /\ KeysOf(b) = KeysOf(a) \cup KeysOf(e)
      /\ \A i \in DOMAIN b : IF i \in DOMAIN a THEN b[i] = a[i] ELSE b[i].source.file = 0
  BY <1>3, <1>5, Appended
<1> HIDE DEF b
<1>8. /\ input' = given /\ read' = r /\ rawParts' = <<>> /\ inputs' = b /\ phase' = "reading"
      /\ at' = 0 /\ seen' = EmptyMap /\ unique' = <<>> /\ collisions' = EmptyMap
      /\ UNCHANGED <<at, seen, unique, collisions>>
  BY <1>2, <1>3, <1>6 DEF ParsePasted
<1>9. Types'
  BY <1>3, <1>7, <1>8, EmptySeq DEF Types, Sources
<1>10. Placed'
  <2>1. \A i \in DOMAIN a : a[i].source.file <= r /\ a[i].source.file # 0
    BY <1>1, <1>2, <1>3 DEF Placed
  <2>2. \A i \in DOMAIN b : b[i].source.file <= r
    BY <1>3, <1>7, <2>1
  <2>3. ASSUME NEW i \in DOMAIN b, NEW j \in DOMAIN b, i < j
        PROVE  b[j].source.file = 0 \/ b[i].source.file \in 1..b[j].source.file
    <3>1. CASE j \in DOMAIN a
      <4>1. i \in DOMAIN a
        BY <1>7, <2>3, <3>1
      <4>2. a[j].source.file = 0 \/ a[i].source.file \in 1..a[j].source.file
        BY <1>1, <1>2, <2>3, <3>1, <4>1 DEF Placed
      <4> QED
        BY <1>7, <3>1, <4>1, <4>2
    <3>2. CASE j \notin DOMAIN a
      BY <1>7, <3>2
    <3> QED
      BY <3>1, <3>2
  <2> QED
    BY <1>3, <1>8, <2>2, <2>3 DEF Placed, Sources
<1>11. Covered'
  <2>1. /\ \A s \in 1..r : \/ NamedIn(given.sources[s], given) \subseteq KeysOf(a)
                           \/ PutAside(given.sources[s], texts)
        /\ Alone(given) => Len(texts) <= 1
        /\ \A k \in DOMAIN texts : Short(texts[k])
    BY <1>1, <1>2 DEF Covered, Sources
  <2>2. Alone(given) => Len(texts) = 1
    <3>1. PICK m \in Nat : m = Len(texts) /\ DOMAIN texts = 1..m
      BY <1>3, LenProperties
    <3>2. m # 0
      BY <1>3, <3>1, EmptySeq
    <3> QED
      BY <2>1, <3>1, <3>2
  <2>3. ASSUME NEW s \in 1..r PROVE NamedIn(given.sources[s], given) \subseteq KeysOf(b)
    <3>1. CASE NamedIn(given.sources[s], given) \subseteq KeysOf(a)
      BY <1>7, <3>1
    <3>2. CASE PutAside(given.sources[s], texts)
      <4>1. PICK source : source = given.sources[s]
        OBVIOUS
      <4>2. source.kind = "text" /\ source.text \in AnyText /\ WellFormed(source)
        BY <1>3, <1>4, <3>2, <4>1, SourceKnown DEF PutAside
      <4>3. PICK n \in DOMAIN texts : texts[n] = source.text
        BY <3>2, <4>1 DEF PutAside
      <4>4. NamedIn(source, given) \subseteq KeysOf(parsed)
        BY <1>3, <2>1, <2>2, <4>2, <4>3, PastedHas
      <4> QED
        BY <1>5, <1>7, <4>1, <4>4
    <3> QED
      BY <2>1, <3>1, <3>2
  <2>4. Len(<<>>) <= 1 /\ DOMAIN (<<>>) = {}
    OBVIOUS
  <2> QED
    BY <1>8, <2>3, <2>4 DEF Covered, Sources
<1>12. Kept' /\ Listed'
  BY <1>1, <1>3, <1>8, NotStarted
<1> QED
  BY <1>9, <1>10, <1>11, <1>12 DEF IInv

LEMMA Inductive == IInv /\ [Next]_vars => IInv'
<1> SUFFICES ASSUME IInv, [Next]_vars PROVE IInv'
  OBVIOUS
<1>1. CASE ReadFile \/ ReadDocument \/ ReadURL \/ SkipBlank \/ ReadFolder
  <2>1. Types
    BY DEF IInv
  <2> QED
    BY <1>1, <2>1, Reading, TakesInv, FailsInv
<1>2. CASE SetAside
  BY <1>2, SetAsideInv
<1>3. CASE ParsePasted
  BY <1>3, ParsePastedInv
<1>4. CASE AllRead
  BY <1>4, AllReadInv
<1>5. CASE KeepFirst
  BY <1>5, KeepFirstInv
<1>6. CASE RecordCollision
  BY <1>6, RecordCollisionInv
<1>7. CASE Finish
  BY <1>7, FinishInv
<1>8. CASE UNCHANGED vars
  BY <1>8, StutterInv
<1> QED
  BY <1>1, <1>2, <1>3, <1>4, <1>5, <1>6, <1>7, <1>8 DEF Next

-----------------------------------------------------------------------------
(* What a command that has come to its end shows.                          *)

\* The first places among the inputs are those that have no equal before them.
LEMMA FirstPlacesAre ==
    ASSUME Types
    PROVE  FirstPlaces = {i \in 1..Len(inputs) : IsFirst(inputs, i)}
<1>1. PICK a, n : a = inputs /\ n = Len(inputs)
  OBVIOUS
<1>2. n \in Nat /\ DOMAIN a = 1..n
  BY <1>1, LenProperties DEF Types
<1>3. \A i \in 1..n : {j \in 1..i : a[j].key = a[i].key} = {i} <=> IsFirst(a, i)
  <2> SUFFICES ASSUME NEW i \in 1..n
               PROVE  {j \in 1..i : a[j].key = a[i].key} = {i} <=> IsFirst(a, i)
    OBVIOUS
  <2>1. 1..i = (1..(i - 1)) \cup {i} /\ i \notin 1..(i - 1)
    BY <1>2
  <2>2. ASSUME IsFirst(a, i) PROVE {j \in 1..i : a[j].key = a[i].key} = {i}
    BY <2>1, <2>2 DEF IsFirst
  <2>3. ASSUME {j \in 1..i : a[j].key = a[i].key} = {i} PROVE IsFirst(a, i)
    BY <2>1, <2>3 DEF IsFirst
  <2> QED
    BY <2>2, <2>3
<1>4. FirstPlaces = {i \in DOMAIN a : {j \in 1..i : a[j].key = a[i].key} = {i}}
  BY <1>1 DEF FirstPlaces, OccurrencesTo
<1> QED
  BY <1>1, <1>2, <1>3, <1>4

LEMMA ShowsFirsts == IInv => FirstsKept
<1> SUFFICES ASSUME IInv, phase = "done" PROVE FirstsKept
  BY DEF FirstsKept
<1>1. PICK a, n, u : a = inputs /\ n = Len(inputs) /\ u = unique
  OBVIOUS
<1>2. at = n
  BY <1>1 DEF IInv, Types
<1>3. KeptSoFar(a, n, u, seen)
  BY <1>1, <1>2 DEF IInv, Kept
<1>4. Members(u) = FirstPlaces
  <2>1. Members(u) = {i \in 1..n : IsFirst(a, i)}
    BY <1>3 DEF KeptSoFar
  <2>2. FirstPlaces = {i \in 1..n : IsFirst(a, i)}
    BY <1>1, FirstPlacesAre DEF IInv
  <2> QED
    BY <2>1, <2>2
<1>5. \A k, m \in DOMAIN u : k < m => u[k] < u[m]
  BY <1>3 DEF KeptSoFar
<1>6. \A i, j \in DOMAIN a :
        i < j => a[j].source.file = 0 \/ a[i].source.file \in 1..a[j].source.file
  BY <1>1 DEF IInv, Placed
<1> QED
  BY <1>1, <1>4, <1>5, <1>6 DEF FirstsKept

\* Whatever the sources were, what is kept of each endpoint is its first
\* spelling, in the order in which they were read (Dedupe, DeduplicateImported).
THEOREM FirstsAreKept == Spec => []FirstsKept
  BY InitInv, Inductive, ShowsFirsts, PTL DEF Spec

LEMMA ShowsCollisions == IInv => CollisionsComplete
<1> SUFFICES ASSUME IInv, phase = "done", input.command = "dedupe" PROVE CollisionsComplete
  BY DEF CollisionsComplete
<1>1. PICK a, n, c : a = inputs /\ n = Len(inputs) /\ c = collisions
  OBVIOUS
<1>2. at = n
  BY <1>1 DEF IInv, Types
<1>3. ListedSoFar(a, n, c)
  BY <1>1, <1>2 DEF IInv, Listed
<1>4. DOMAIN a = 1..n
  BY <1>1, LenProperties DEF IInv, Types
<1>5. \A key, i : Cardinality(OccurrencesTo(key, i)) = CountAt(a, key, i)
  BY <1>1 DEF OccurrencesTo, CountAt, Occurrences
<1>6. KeysRead = KeysTo(a, n)
  BY <1>1, <1>4 DEF KeysRead, KeysTo
<1>7. c = collisions /\ a = inputs /\ n = Len(inputs)
  BY <1>1
<1>8. DOMAIN collisions =
        {key \in KeysRead : Cardinality(OccurrencesTo(key, Len(inputs))) > 1}
  BY <1>3, <1>5, <1>6, <1>7 DEF ListedSoFar
<1>9. \A key \in DOMAIN collisions :
        Len(collisions[key]) = Cardinality(OccurrencesTo(key, Len(inputs)))
  BY <1>3, <1>5, <1>7 DEF ListedSoFar
<1>10. \A i \in DOMAIN inputs :
         Cardinality(OccurrencesTo(inputs[i].key, i)) > 1 =>
             collisions[inputs[i].key][Cardinality(OccurrencesTo(inputs[i].key, i))] = inputs[i].source
  BY <1>3, <1>4, <1>5, <1>7 DEF ListedSoFar
<1> QED
  BY <1>8, <1>9, <1>10 DEF CollisionsComplete

\* The lists of collisions are complete for any files: exactly the endpoints
\* that occur more than once, each with the sources of its occurrences (Dedupe).
THEOREM CollisionsAreComplete == Spec => []CollisionsComplete
  BY InitInv, Inductive, ShowsCollisions, PTL DEF Spec

LEMMA ShowsAll == IInv => NothingLost
<1> SUFFICES ASSUME IInv, phase = "done" PROVE NothingLost
  BY DEF NothingLost
<1>1. PICK given, a, n, u : given = input /\ a = inputs /\ n = Len(inputs) /\ u = unique
  OBVIOUS
<1>2. at = n /\ read = Len(given.sources) /\ rawParts = <<>>
  BY <1>1 DEF IInv, Types, Sources
<1>3. n \in Nat /\ DOMAIN a = 1..n
  BY <1>1, LenProperties DEF IInv, Types
<1>4. DOMAIN given.sources = 1..Len(given.sources)
  <2>1. given.sources \in Seq(AnySource)
    BY <1>1, InputsAssumption DEF IInv, Types
  <2> QED
    BY <2>1, LenProperties
<1>5. \A s \in DOMAIN given.sources : NamedIn(given.sources[s], given) \subseteq KeysOf(a)
  <2>1. \A s \in 1..Len(given.sources) :
           \/ NamedIn(given.sources[s], given) \subseteq KeysOf(a)
           \/ PutAside(given.sources[s], <<>>)
    BY <1>1, <1>2 DEF IInv, Covered, Sources
  <2>2. \A source : ~PutAside(source, <<>>)
    BY DEF PutAside
  <2> QED
    BY <1>4, <2>1, <2>2
<1>6. Members(u) = {i \in 1..n : IsFirst(a, i)}
  BY <1>1, <1>2 DEF IInv, Kept, KeptSoFar
<1>7. \A i \in 1..n : \E k \in DOMAIN u : a[u[k]].key = a[i].key
  <2> SUFFICES ASSUME NEW i \in 1..n PROVE \E k \in DOMAIN u : a[u[k]].key = a[i].key
    OBVIOUS
  <2> DEFINE same == {m \in 1..n : a[m].key = a[i].key}
  <2>1. same \in SUBSET Nat /\ same # {}
    <3>1. i \in same
      OBVIOUS
    <3>2. 1..n \subseteq Nat
      BY <1>3
    <3> QED
      BY <3>1, <3>2
  <2>2. PICK m \in same : \A j \in same : m <= j
    <3> HIDE DEF same
    <3> QED
      BY <2>1, Least
  <2>3. IsFirst(a, m)
    BY <1>3, <2>2 DEF IsFirst
  <2>4. m \in Members(u) /\ a[m].key = a[i].key
    BY <1>6, <2>2, <2>3
  <2> QED
    BY <2>4 DEF Members
<1>8. KeysOf(a) \subseteq {a[u[k]].key : k \in DOMAIN u}
  BY <1>3, <1>7 DEF KeysOf, Members
<1>9. \A s \in DOMAIN given.sources :
        NamedIn(given.sources[s], given) \subseteq {a[u[k]].key : k \in DOMAIN u}
  BY <1>5, <1>8
<1>10. given.sources = Sources
  BY <1>1 DEF Sources
<1>11. {a[u[k]].key : k \in DOMAIN u} = {inputs[unique[k]].key : k \in DOMAIN unique}
  BY <1>1
<1> QED
  BY <1>1, <1>9, <1>10, <1>11 DEF NothingLost

\* A command that comes to its end has every endpoint that its sources name in
\* a form and at a place the program looks for them, for any sources, limit and
\* order (all importers); what it gives up without an error is told by NamedIn.
THEOREM NothingIsLost == Spec => []NothingLost
  BY InitInv, Inductive, ShowsAll, PTL DEF Spec
=============================================================================
