-------------------------- MODULE ActionStream_proofs --------------------------
(***************************************************************************)
(* What the terminal UI keeps up for a user who waits, for any number of   *)
(* actions, of any size, and any buffer: one reader as long as there is    *)
(* something to read, rows in order and of the action on display, and      *)
(* quitting that cancels.  What the user has started is one thing in one   *)
(* place (Alone); the messages of an action, wherever they are, are a part *)
(* of its script in order (Lines); whoever is read from is on display      *)
(* (Turns), what is shown is what has come of its script (Display), and    *)
(* what was on display before has nothing left to produce (Past).          *)
(***************************************************************************)
EXTENDS ActionStream, SequenceTheorems, TLAPS

-----------------------------------------------------------------------------
(* One action: its job j, whether its context is done (d) and its stream   *)
(* closed (c), the stream s, and what is on its way to Update (hands).     *)

Job == [kind: Kinds \cup {"none"}, size: Nat, fails: BOOLEAN, step: Nat,
        phase: {"none", "launching", "producing", "ended"}]

Content       == {"result", "complete", "error", "replace"}
StreamMessage == [type: Content, by: Actions, number: Nat]

\* How many messages the script of a job has, and the one at place k.
LastStep(j) == IF j.fails \/ j.kind = "dedupe" THEN 1 ELSE j.size + 1

At(a, j, k) ==
    IF j.fails THEN Message("error", a, 0)
    ELSE IF j.kind = "dedupe" THEN Message("replace", a, 0)
    ELSE IF k <= j.size THEN Message("result", a, k)
    ELSE Message("complete", a, j.size)

JobOK(j, d, c) ==
    /\ j.phase # "none" => /\ j.step \in 1..(LastStep(j) + 1)
                           /\ j.kind \notin {"batch", "import"} => j.size = 1
    /\ j.phase = "launching" => j.step = 1
    /\ j.phase = "ended" => d /\ j.step > LastStep(j)
    /\ c => j.phase = "ended"

\* A result has been produced before the job's step; what is not a result is
\* the last there is.
Produced(a, j, s) ==
    \A i \in DOMAIN s :
        /\ s[i].by = a
        /\ s[i].type = "result" => s[i].number \in 1..(j.step - 1)
        /\ s[i].type # "result" => i = Len(s) /\ j.step > LastStep(j)

Rising(s) == \A i, k \in DOMAIN s : i < k /\ s[k].type = "result" => s[i].number < s[k].number

\* While the context is not done there is no gap.
Gapless(a, j, s) ==
    \A i \in DOMAIN s : Len(s) < j.step /\ s[i] = At(a, j, j.step - 1 - Len(s) + i)

LineOK(a, j, d, c, s) ==
    /\ JobOK(j, d, c)
    /\ j.phase \in {"none", "launching"} => s = <<>>
    /\ Produced(a, j, s)
    /\ Rising(s)
    /\ ~d => Gapless(a, j, s)

\* What is on its way comes before what is in the stream.
HandOK(a, j, d, c, s, m) ==
    /\ j.phase \in {"producing", "ended"}
    /\ m.by = a
    /\ m.type \in Content \cup {"closed"}
    /\ m.number \in Nat
    /\ m.type = "result" =>
          /\ m.number \in 1..(j.step - 1)
          /\ \A i \in DOMAIN s : s[i].type = "result" => m.number < s[i].number
    /\ m.type # "result" => s = <<>> /\ j.step > LastStep(j)
    /\ m.type = "closed" => c
    /\ ~d => Len(s) + 1 < j.step /\ m = At(a, j, j.step - 1 - Len(s))

ActionOK(a, j, d, c, s, hands) ==
    LineOK(a, j, d, c, s) /\ \A m \in hands : HandOK(a, j, d, c, s, m)

\* How many messages of the script have been handled.
Heard(j, s, hands) == j.step - 1 - Len(s) - (IF hands = {} THEN 0 ELSE 1)

Unread(j, d, s) == ~d /\ j.phase # "none" => Len(s) = j.step - 1

\* The rows of the action on display are what has come of its script so far.
ShowsOK(j, d, s, hands, rows, count) ==
    /\ \A i \in DOMAIN rows : rows[i].endpoint \in 1..(j.step - 1)
    /\ \A i, k \in DOMAIN rows : i < k => rows[i].endpoint < rows[k].endpoint
    /\ \A i \in DOMAIN rows :
          /\ \A m \in hands : m.type = "result" => rows[i].endpoint < m.number
          /\ \A k \in DOMAIN s : s[k].type = "result" => rows[i].endpoint < s[k].number
    /\ ~d => /\ count = Len(rows)
             /\ Len(rows) = IF Heard(j, s, hands) < j.size THEN Heard(j, s, hands) ELSE j.size

\* The steps of a producer.
LEMMA FailsKeeps ==
    ASSUME NEW a, NEW j \in Job, NEW d \in BOOLEAN, NEW c \in BOOLEAN,
           NEW s \in Seq(StreamMessage), NEW hands, ActionOK(a, j, d, c, s, hands),
           j.phase = "producing", j.step = 1, NEW rows, NEW count
    PROVE  LET j2 == [j EXCEPT !.fails = TRUE]
           IN  /\ ActionOK(a, j2, d, c, s, hands)
               /\ ShowsOK(j, d, s, hands, rows, count) => ShowsOK(j2, d, s, hands, rows, count)
               /\ Unread(j, d, s) => Unread(j2, d, s)
<1> DEFINE j2 == [j EXCEPT !.fails = TRUE]
<1>1. /\ j2.step = 1 /\ j2.fails = TRUE /\ j2.phase = j.phase /\ j2.size = j.size
      /\ j2.kind = j.kind /\ LastStep(j2) = 1 /\ LastStep(j) >= 1
  BY DEF Job, LastStep
<1> HIDE DEF j2
<1>2. Len(s) \in Nat /\ DOMAIN s = 1..Len(s)
  BY LenProperties
<1>3. 1..(j.step - 1) = {} /\ ~(j.step > LastStep(j))
  <2>1. PICK last \in Int : last = LastStep(j)
    BY DEF Job, LastStep
  <2>2. 1..(1 - 1) = {}
    OBVIOUS
  <2> QED
    BY <1>1, <2>1, <2>2
<1>4. DOMAIN s = {} /\ hands = {}
  <2>1. ASSUME NEW i \in DOMAIN s PROVE FALSE
    BY <1>3 DEF ActionOK, LineOK, Produced
  <2>2. ASSUME NEW m \in hands PROVE FALSE
    BY <1>3 DEF ActionOK, HandOK
  <2> QED
    BY <2>1, <2>2
<1>5. ActionOK(a, j2, d, c, s, hands)
  BY <1>1, <1>4 DEF ActionOK, LineOK, JobOK, Produced, Rising, Gapless
<1>6. ShowsOK(j, d, s, hands, rows, count) => ShowsOK(j2, d, s, hands, rows, count)
  BY <1>1 DEF ShowsOK, Heard
<1>7. Unread(j, d, s) => Unread(j2, d, s)
  BY <1>1 DEF Unread
<1> QED
  BY <1>5, <1>6, <1>7 DEF j2

LEMMA AtIs ==
    ASSUME NEW a \in Actions, NEW j \in Job, NEW k \in 1..LastStep(j)
    PROVE  /\ At(a, j, k) \in StreamMessage
           /\ At(a, j, k).by = a
           /\ At(a, j, k).type = "result" => At(a, j, k).number = k /\ k <= j.size
           /\ At(a, j, k).type # "result" => k = LastStep(j)
<1> USE DEF Job, LastStep, At, Message, StreamMessage, Content
<1>1. CASE j.fails
  BY <1>1
<1>2. CASE ~j.fails /\ j.kind = "dedupe"
  BY <1>2
<1>3. CASE ~j.fails /\ j.kind # "dedupe" /\ k <= j.size
  BY <1>3
<1>4. CASE ~j.fails /\ j.kind # "dedupe" /\ ~(k <= j.size)
  BY <1>4
<1> QED
  BY <1>1, <1>2, <1>3, <1>4

\* The number of the next message is not part of the script.
LEMMA SameScript ==
    ASSUME NEW a, NEW j, NEW j2, j2.fails = j.fails, j2.kind = j.kind, j2.size = j.size
    PROVE  LastStep(j2) = LastStep(j) /\ \A k : At(a, j2, k) = At(a, j, k)
BY DEF LastStep, At

LEMMA LastStepType == ASSUME NEW j \in Job PROVE LastStep(j) \in Nat /\ LastStep(j) >= 1
BY DEF LastStep, Job

LEMMA SendsKeeps ==
    ASSUME NEW a \in Actions, NEW j \in Job, NEW d \in BOOLEAN, NEW c \in BOOLEAN,
           NEW s \in Seq(StreamMessage), NEW hands, ActionOK(a, j, d, c, s, hands),
           j.phase = "producing", j.step \in 1..LastStep(j), NEW rows, NEW count
    PROVE  LET j2 == [j EXCEPT !.step = @ + 1]
               s2 == Append(s, At(a, j, j.step))
           IN  /\ s2 \in Seq(StreamMessage)
               /\ ActionOK(a, j2, d, c, s2, hands)
               /\ ShowsOK(j, d, s, hands, rows, count) => ShowsOK(j2, d, s2, hands, rows, count)
               /\ Unread(j, d, s) => Unread(j2, d, s2)
<1> DEFINE j2   == [j EXCEPT !.step = @ + 1]
           new  == At(a, j, j.step)
           s2   == Append(s, new)
<1>1. PICK step \in Nat, last \in Nat, size \in Nat :
        /\ step = j.step /\ last = LastStep(j) /\ size = j.size
        /\ last >= 1 /\ step \in 1..last
  BY LastStepType DEF Job
<1>2. /\ j2.step = step + 1 /\ j2.fails = j.fails /\ j2.phase = "producing"
      /\ j2.size = j.size /\ j2.kind = j.kind
  BY <1>1 DEF Job
<1>3. LastStep(j2) = last /\ \A k : At(a, j2, k) = At(a, j, k)
  <2> HIDE DEF j2
  <2> QED
    BY <1>1, <1>2, SameScript
<1>4. /\ new \in StreamMessage /\ new.by = a
      /\ new.type = "result" => new.number = step
      /\ new.type # "result" => step = last
  BY <1>1, AtIs
<1>5. PICK n \in Nat : n = Len(s) /\ DOMAIN s = 1..n
  BY LenProperties
<1>6. /\ s2 \in Seq(StreamMessage) /\ Len(s2) = n + 1 /\ DOMAIN s2 = 1..(n + 1)
      /\ \A i \in 1..n : s2[i] = s[i]
      /\ s2[n + 1] = new
  <2> HIDE DEF new
  <2> QED
    BY <1>4, <1>5, AppendProperties, LenProperties
<1> HIDE DEF j2, new, s2
<1>7. /\ LineOK(a, j, d, c, s) /\ \A m \in hands : HandOK(a, j, d, c, s, m)
  BY DEF ActionOK
<1>8. \A i \in 1..n : s[i].by = a /\ s[i].type = "result" /\ s[i].number \in 1..(step - 1)
  BY <1>1, <1>5, <1>7 DEF LineOK, Produced
<1>9. JobOK(j2, d, c)
  BY <1>1, <1>2, <1>3, <1>7 DEF LineOK, JobOK
<1>10. Produced(a, j2, s2)
  <2> SUFFICES ASSUME NEW i \in DOMAIN s2
               PROVE  /\ s2[i].by = a
                      /\ s2[i].type = "result" => s2[i].number \in 1..(j2.step - 1)
                      /\ s2[i].type # "result" => i = Len(s2) /\ j2.step > LastStep(j2)
    BY DEF Produced
  <2>1. CASE i \in 1..n
    <3>1. s2[i] = s[i] /\ s[i].number \in 1..(step - 1)
      BY <1>6, <1>8, <2>1
    <3> QED
      BY <1>1, <1>2, <1>8, <2>1, <3>1
  <2>2. CASE i = n + 1
    BY <1>1, <1>2, <1>3, <1>4, <1>6, <2>2
  <2> QED
    BY <1>5, <1>6, <2>1, <2>2
<1>11. Rising(s2)
  <2> SUFFICES ASSUME NEW i \in DOMAIN s2, NEW k \in DOMAIN s2, i < k, s2[k].type = "result"
               PROVE  s2[i].number < s2[k].number
    BY DEF Rising
  <2>1. CASE k \in 1..n
    <3>1. i \in 1..n /\ s2[i] = s[i] /\ s2[k] = s[k]
      BY <1>5, <1>6, <2>1
    <3> QED
      BY <1>5, <1>7, <2>1, <3>1 DEF LineOK, Rising
  <2>2. CASE k = n + 1
    <3>1. i \in 1..n /\ s2[i] = s[i] /\ s2[k] = new
      BY <1>5, <1>6, <2>2
    <3>2. s[i].number \in 1..(step - 1)
      BY <1>8, <3>1
    <3> QED
      BY <1>1, <1>4, <3>1, <3>2
  <2> QED
    BY <1>5, <1>6, <2>1, <2>2
<1>12. ~d => Gapless(a, j2, s2)
  <2> SUFFICES ASSUME ~d, NEW i \in DOMAIN s2
               PROVE  Len(s2) < j2.step /\ s2[i] = At(a, j2, j2.step - 1 - Len(s2) + i)
    BY DEF Gapless
  <2>1. n < step
    BY <1>1, <1>5, <1>7 DEF LineOK, Gapless
  <2>2. j2.step - 1 - Len(s2) + i = step - 1 - n + i /\ Len(s2) < j2.step
    BY <1>1, <1>2, <1>5, <1>6, <2>1
  <2>3. CASE i \in 1..n
    <3>1. s2[i] = At(a, j, step - 1 - n + i)
      BY <1>1, <1>5, <1>6, <1>7, <2>3 DEF LineOK, Gapless
    <3> QED
      BY <1>3, <2>2, <3>1
  <2>4. CASE i = n + 1
    <3>1. step - 1 - n + i = step
      BY <1>1, <1>5, <2>4
    <3>2. s2[i] = At(a, j, step)
      BY <1>1, <1>6, <2>4 DEF new
    <3> QED
      BY <1>3, <2>2, <3>1, <3>2
  <2> QED
    BY <1>5, <1>6, <2>3, <2>4
<1>13. \A m \in hands : HandOK(a, j2, d, c, s2, m)
  <2> SUFFICES ASSUME NEW m \in hands
               PROVE  HandOK(a, j2, d, c, s2, m)
    OBVIOUS
  <2>1. HandOK(a, j, d, c, s, m)
    BY <1>7
  <2>2. m.type = "result" /\ m.number \in 1..(step - 1) /\ m.by = a
    BY <1>1, <2>1 DEF HandOK
  <2>3. \A i \in DOMAIN s2 : s2[i].type = "result" => m.number < s2[i].number
    <3> SUFFICES ASSUME NEW i \in DOMAIN s2, s2[i].type = "result"
                 PROVE  m.number < s2[i].number
      OBVIOUS
    <3>1. CASE i \in 1..n
      BY <1>5, <1>6, <2>1, <2>2, <3>1 DEF HandOK
    <3>2. CASE i = n + 1
      BY <1>1, <1>4, <1>6, <2>2, <3>2
    <3> QED
      BY <1>5, <1>6, <3>1, <3>2
  <2>4. ~d => Len(s2) + 1 < j2.step /\ m = At(a, j2, j2.step - 1 - Len(s2))
    <3> SUFFICES ASSUME ~d
                 PROVE  Len(s2) + 1 < j2.step /\ m = At(a, j2, j2.step - 1 - Len(s2))
      OBVIOUS
    <3>1. n + 1 < step /\ m = At(a, j, step - 1 - n)
      BY <1>1, <1>5, <2>1 DEF HandOK
    <3>2. j2.step - 1 - Len(s2) = step - 1 - n /\ Len(s2) + 1 < j2.step
      BY <1>1, <1>2, <1>5, <1>6, <3>1
    <3> QED
      BY <1>3, <3>1, <3>2
  <2>5. m.number \in 1..(j2.step - 1)
    BY <1>1, <1>2, <2>2
  <2> QED
    BY <1>2, <2>1, <2>2, <2>3, <2>4, <2>5 DEF HandOK
<1>14. ShowsOK(j, d, s, hands, rows, count) => ShowsOK(j2, d, s2, hands, rows, count)
  <2> SUFFICES ASSUME ShowsOK(j, d, s, hands, rows, count)
               PROVE  ShowsOK(j2, d, s2, hands, rows, count)
    OBVIOUS
  <2>1. \A i \in DOMAIN rows : rows[i].endpoint \in 1..(step - 1)
    BY <1>1 DEF ShowsOK
  <2>2. \A i \in DOMAIN rows : rows[i].endpoint \in 1..(j2.step - 1)
    BY <1>1, <1>2, <2>1
  <2>3. ASSUME NEW i \in DOMAIN rows, NEW k \in DOMAIN s2, s2[k].type = "result"
        PROVE  rows[i].endpoint < s2[k].number
    <3>1. CASE k \in 1..n
      BY <1>5, <1>6, <2>3, <3>1 DEF ShowsOK
    <3>2. CASE k = n + 1
      BY <1>1, <1>4, <1>6, <2>1, <2>3, <3>2
    <3> QED
      BY <1>5, <1>6, <3>1, <3>2
  <2>4. Heard(j2, s2, hands) = Heard(j, s, hands)
    <3>1. j2.step - 1 - Len(s2) = j.step - 1 - Len(s)
      BY <1>1, <1>2, <1>5, <1>6
    <3> QED
      BY <3>1 DEF Heard
  <2> QED
    BY <1>2, <2>2, <2>3, <2>4 DEF ShowsOK
<1>15. Unread(j, d, s) => Unread(j2, d, s2)
  BY <1>1, <1>2, <1>5, <1>6 DEF Unread
<1> QED
  BY <1>2, <1>6, <1>9, <1>10, <1>11, <1>12, <1>13, <1>14, <1>15 DEF ActionOK, LineOK, j2, s2, new

\* Under a done context messages are dropped, or a batch is cut short.
LEMMA SkipsKeeps ==
    ASSUME NEW a \in Actions, NEW j \in Job, NEW c \in BOOLEAN,
           NEW s \in Seq(StreamMessage), NEW hands, ActionOK(a, j, TRUE, c, s, hands),
           j.phase = "producing", j.step \in 1..LastStep(j),
           NEW j2 \in Job, j2.phase = "producing", j2.step >= j.step,
           j2.step <= LastStep(j2) + 1, j2.kind = j.kind,
           j.kind \in {"batch", "import"} \/ j2.size = j.size,
           NEW rows, NEW count
    PROVE  /\ ActionOK(a, j2, TRUE, c, s, hands)
           /\ ShowsOK(j, TRUE, s, hands, rows, count) => ShowsOK(j2, TRUE, s, hands, rows, count)
           /\ Unread(j2, TRUE, s)
<1>1. PICK step \in Nat, last \in Nat, step2 \in Nat, last2 \in Nat :
        /\ step = j.step /\ last = LastStep(j) /\ step2 = j2.step /\ last2 = LastStep(j2)
        /\ step \in 1..last /\ step <= step2 /\ step2 <= last2 + 1
  BY LastStepType DEF Job
<1>2. LineOK(a, j, TRUE, c, s) /\ \A m \in hands : HandOK(a, j, TRUE, c, s, m)
  BY DEF ActionOK
<1>3. Len(s) \in Nat /\ DOMAIN s = 1..Len(s)
  BY LenProperties
<1>4. JobOK(j2, TRUE, c)
  BY <1>1, <1>2 DEF LineOK, JobOK
<1>5. Produced(a, j2, s)
  <2> SUFFICES ASSUME NEW i \in DOMAIN s
               PROVE  s[i].by = a /\ s[i].type = "result" /\ s[i].number \in 1..(step2 - 1)
    BY <1>1 DEF Produced
  <2>1. s[i].by = a /\ s[i].type = "result" /\ s[i].number \in 1..(step - 1)
    BY <1>1, <1>2 DEF LineOK, Produced
  <2> QED
    BY <1>1, <2>1
<1>6. \A m \in hands : HandOK(a, j2, TRUE, c, s, m)
  <2> SUFFICES ASSUME NEW m \in hands
               PROVE  HandOK(a, j2, TRUE, c, s, m)
    OBVIOUS
  <2>1. HandOK(a, j, TRUE, c, s, m) /\ m.type = "result" /\ m.number \in 1..(step - 1)
    BY <1>1, <1>2 DEF HandOK
  <2>2. m.number \in 1..(step2 - 1)
    BY <1>1, <2>1
  <2> QED
    BY <1>1, <2>1, <2>2 DEF HandOK
<1>7. ShowsOK(j, TRUE, s, hands, rows, count) => ShowsOK(j2, TRUE, s, hands, rows, count)
  <2> SUFFICES ASSUME ShowsOK(j, TRUE, s, hands, rows, count)
               PROVE  \A i \in DOMAIN rows : rows[i].endpoint \in 1..(step2 - 1)
    BY <1>1 DEF ShowsOK
  <2>1. \A i \in DOMAIN rows : rows[i].endpoint \in 1..(step - 1)
    BY <1>1 DEF ShowsOK
  <2> QED
    BY <1>1, <2>1
<1> QED
  BY <1>2, <1>4, <1>5, <1>6, <1>7 DEF ActionOK, LineOK, Unread

LEMMA EndsKeeps ==
    ASSUME NEW a \in Actions, NEW j \in Job, NEW d \in BOOLEAN, NEW c \in BOOLEAN,
           NEW s \in Seq(StreamMessage), NEW hands, ActionOK(a, j, d, c, s, hands),
           j.phase = "producing", j.step > LastStep(j), NEW rows, NEW count
    PROVE  LET j2 == [j EXCEPT !.phase = "ended"]
           IN  /\ ActionOK(a, j2, TRUE, TRUE, s, hands)
               /\ ShowsOK(j, d, s, hands, rows, count) => ShowsOK(j2, TRUE, s, hands, rows, count)
               /\ Unread(j2, TRUE, s)
<1> DEFINE j2 == [j EXCEPT !.phase = "ended"]
<1>1. /\ j2.step = j.step /\ j2.fails = j.fails /\ j2.phase = "ended"
      /\ j2.size = j.size /\ j2.kind = j.kind
  BY DEF Job
<1> HIDE DEF j2
<1>2. LastStep(j2) = LastStep(j)
  BY <1>1, SameScript
<1>3. ActionOK(a, j2, TRUE, TRUE, s, hands)
  BY <1>1, <1>2 DEF ActionOK, LineOK, JobOK, Produced, HandOK
<1>4. ShowsOK(j, d, s, hands, rows, count) => ShowsOK(j2, TRUE, s, hands, rows, count)
  BY <1>1 DEF ShowsOK
<1> QED
  BY <1>3, <1>4 DEF Unread, j2

\* An action's time is up, or it is cancelled.
LEMMA DoneKeeps ==
    ASSUME NEW a, NEW j, NEW d \in BOOLEAN, NEW c, NEW s, NEW hands,
           ActionOK(a, j, d, c, s, hands), NEW rows, NEW count
    PROVE  /\ ActionOK(a, j, TRUE, c, s, hands)
           /\ ShowsOK(j, d, s, hands, rows, count) => ShowsOK(j, TRUE, s, hands, rows, count)
           /\ Unread(j, TRUE, s)
<1>1. ActionOK(a, j, TRUE, c, s, hands)
  BY DEF ActionOK, LineOK, JobOK, HandOK
<1>2. ShowsOK(j, d, s, hands, rows, count) => ShowsOK(j, TRUE, s, hands, rows, count)
  BY DEF ShowsOK
<1> QED
  BY <1>1, <1>2 DEF Unread

\* A waiter takes the first message of a stream, or finds the stream closed.
LEMMA ReadsKeeps ==
    ASSUME NEW a \in Actions, NEW j \in Job, NEW d \in BOOLEAN, NEW c \in BOOLEAN,
           NEW s \in Seq(StreamMessage), ActionOK(a, j, d, c, s, {}), s # <<>>,
           NEW rows, NEW count
    PROVE  /\ Tail(s) \in Seq(StreamMessage)
           /\ ActionOK(a, j, d, c, Tail(s), {Head(s)})
           /\ ShowsOK(j, d, s, {}, rows, count) => ShowsOK(j, d, Tail(s), {Head(s)}, rows, count)
<1> DEFINE m == Head(s)
           t == Tail(s)
<1>1. PICK n \in Nat : n = Len(s) /\ n >= 1 /\ DOMAIN s = 1..n
  BY LenProperties, EmptySeq
<1>2. /\ t \in Seq(StreamMessage) /\ Len(t) = n - 1 /\ DOMAIN t = 1..(n - 1)
      /\ \A i \in 1..(n - 1) : t[i] = s[i + 1] /\ i + 1 \in 1..n
      /\ m = s[1] /\ 1 \in 1..n /\ m \in StreamMessage
  BY <1>1, HeadTailProperties, LenProperties, ElementOfSeq
<1> HIDE DEF m, t
<1>3. LineOK(a, j, d, c, s)
  BY DEF ActionOK
<1>4. PICK step \in Int : step = j.step
  BY DEF Job
<1>5. j.phase \in {"producing", "ended"}
  BY <1>3 DEF LineOK, Job
<1>6. Produced(a, j, t)
  <2> SUFFICES ASSUME NEW i \in DOMAIN t
               PROVE  /\ t[i].by = a
                      /\ t[i].type = "result" => t[i].number \in 1..(j.step - 1)
                      /\ t[i].type # "result" => i = Len(t) /\ j.step > LastStep(j)
    BY DEF Produced
  <2>1. t[i] = s[i + 1] /\ i + 1 \in DOMAIN s
    BY <1>1, <1>2
  <2>2. t[i].type # "result" => i + 1 = n /\ j.step > LastStep(j)
    BY <1>1, <1>3, <2>1 DEF LineOK, Produced
  <2>3. i + 1 = n => i = Len(t)
    BY <1>2
  <2> QED
    BY <1>3, <2>1, <2>2, <2>3 DEF LineOK, Produced
<1>7. Rising(t)
  <2> SUFFICES ASSUME NEW i \in DOMAIN t, NEW k \in DOMAIN t, i < k, t[k].type = "result"
               PROVE  t[i].number < t[k].number
    BY DEF Rising
  <2>1. /\ t[i] = s[i + 1] /\ i + 1 \in DOMAIN s /\ t[k] = s[k + 1] /\ k + 1 \in DOMAIN s
        /\ i + 1 < k + 1
    BY <1>1, <1>2
  <2> QED
    BY <1>3, <2>1 DEF LineOK, Rising
<1>8. ~d => Gapless(a, j, t)
  <2> SUFFICES ASSUME ~d, NEW i \in DOMAIN t
               PROVE  Len(t) < j.step /\ t[i] = At(a, j, j.step - 1 - Len(t) + i)
    BY DEF Gapless
  <2>1. t[i] = s[i + 1] /\ i + 1 \in DOMAIN s
    BY <1>1, <1>2
  <2>2. n < step /\ t[i] = At(a, j, step - 1 - n + (i + 1))
    BY <1>1, <1>3, <1>4, <2>1 DEF LineOK, Gapless
  <2>3. j.step - 1 - Len(t) + i = step - 1 - n + (i + 1) /\ Len(t) < j.step
    <3>1. i \in Int /\ n \in Int /\ Len(t) = n - 1 /\ step \in Int /\ step = j.step /\ n < step
      BY <1>1, <1>2, <1>4, <2>2
    <3> QED
      BY <3>1
  <2> QED
    BY <2>2, <2>3, Zenon
<1>9. HandOK(a, j, d, c, t, m)
  <2>1. /\ m.by = a /\ m.type \in Content /\ m.number \in Nat
        /\ m.type = "result" => m.number \in 1..(j.step - 1)
        /\ m.type # "result" => 1 = n /\ j.step > LastStep(j)
    BY <1>1, <1>2, <1>3 DEF LineOK, Produced, StreamMessage
  <2>2. 1 = n => t = <<>>
    BY <1>2, EmptySeq
  <2>3. ASSUME NEW i \in DOMAIN t, t[i].type = "result"
        PROVE  m.number < t[i].number
    <3>1. t[i] = s[i + 1] /\ i + 1 \in DOMAIN s /\ 1 < i + 1
      BY <1>1, <1>2
    <3> QED
      BY <1>1, <1>2, <1>3, <2>3, <3>1 DEF LineOK, Rising
  <2>4. ~d => Len(t) + 1 < j.step /\ m = At(a, j, j.step - 1 - Len(t))
    <3> SUFFICES ASSUME ~d
                 PROVE  Len(t) + 1 < j.step /\ m = At(a, j, j.step - 1 - Len(t))
      OBVIOUS
    <3>1. n < step /\ m = At(a, j, step - 1 - n + 1)
      BY <1>1, <1>2, <1>3, <1>4 DEF LineOK, Gapless
    <3>2. step - 1 - n + 1 = step - 1 - Len(t) /\ Len(t) + 1 < step
      BY <1>2, <1>4, <3>1
    <3> QED
      BY <1>4, <3>1, <3>2
  <2> QED
    BY <1>5, <2>1, <2>2, <2>3, <2>4, Zenon DEF HandOK, Content
<1>10. ShowsOK(j, d, s, {}, rows, count) => ShowsOK(j, d, t, {m}, rows, count)
  <2> SUFFICES ASSUME ShowsOK(j, d, s, {}, rows, count)
               PROVE  ShowsOK(j, d, t, {m}, rows, count)
    OBVIOUS
  <2>1. Heard(j, t, {m}) = Heard(j, s, {})
    <3>1. Heard(j, s, {}) = step - 1 - n - 0 /\ Heard(j, t, {m}) = step - 1 - (n - 1) - 1
      BY <1>1, <1>2, <1>4 DEF Heard
    <3> QED
      BY <1>4, <3>1
  <2>2. ASSUME NEW i \in DOMAIN rows
        PROVE  /\ m.type = "result" => rows[i].endpoint < m.number
               /\ \A k \in DOMAIN t : t[k].type = "result" => rows[i].endpoint < t[k].number
    BY <1>1, <1>2 DEF ShowsOK
  <2> QED
    BY <2>1, <2>2 DEF ShowsOK
<1> QED
  BY <1>2, <1>3, <1>6, <1>7, <1>8, <1>9, <1>10 DEF ActionOK, LineOK, m, t

LEMMA ClosedKeeps ==
    ASSUME NEW a, NEW j, NEW d \in BOOLEAN, ActionOK(a, j, d, TRUE, <<>>, {}), NEW rows, NEW count
    PROVE  /\ d
           /\ ActionOK(a, j, d, TRUE, <<>>, {Message("closed", a, 0)})
           /\ ShowsOK(j, d, <<>>, {}, rows, count)
                => ShowsOK(j, d, <<>>, {Message("closed", a, 0)}, rows, count)
<1> DEFINE m == Message("closed", a, 0)
<1>1. m.by = a /\ m.type = "closed" /\ m.number = 0
  BY DEF Message
<1> HIDE DEF m
<1>2. d /\ j.phase = "ended" /\ j.step > LastStep(j)
  BY DEF ActionOK, LineOK, JobOK
<1>3. HandOK(a, j, d, TRUE, <<>>, m)
  BY <1>1, <1>2 DEF HandOK
<1>4. ActionOK(a, j, d, TRUE, <<>>, {m})
  BY <1>3 DEF ActionOK
<1>5. ShowsOK(j, d, <<>>, {}, rows, count) => ShowsOK(j, d, <<>>, {m}, rows, count)
  BY <1>1, <1>2 DEF ShowsOK
<1> QED
  BY <1>2, <1>4, <1>5 DEF m

-----------------------------------------------------------------------------
(* What Update makes of a message that is on its way.                      *)

Row == [by: Actions, endpoint: Nat]

LEMMA StartShown ==
    ASSUME NEW j \in Job, NEW d \in BOOLEAN, NEW s \in Seq(StreamMessage),
           Unread(j, d, s), j.phase # "none"
    PROVE  ShowsOK(j, d, s, {}, <<>>, 0)
<1>1. Len(<<>>) = 0 /\ DOMAIN <<>> = {}
  OBVIOUS
<1>2. ASSUME ~d PROVE Heard(j, s, {}) = 0
  <2>1. Len(s) = j.step - 1 /\ j.step \in Int
    BY <1>2 DEF Unread, Job
  <2> QED
    BY <2>1 DEF Heard
<1>3. j.size \in Nat
  BY DEF Job
<1> QED
  BY <1>1, <1>2, <1>3 DEF ShowsOK

LEMMA ResultShown ==
    ASSUME NEW a \in Actions, NEW j \in Job, NEW d \in BOOLEAN, NEW c, NEW s \in Seq(StreamMessage),
           NEW m, ActionOK(a, j, d, c, s, {m}), m.type = "result",
           NEW rows \in Seq(Row), NEW count, ShowsOK(j, d, s, {m}, rows, count)
    PROVE  LET new == [by |-> m.by, endpoint |-> m.number]
           IN  /\ Append(rows, new) \in Seq(Row)
               /\ \A i \in DOMAIN rows : rows[i].endpoint # m.number
               /\ ShowsOK(j, d, s, {}, Append(rows, new), m.number)
<1> DEFINE new   == [by |-> m.by, endpoint |-> m.number]
           rows2 == Append(rows, new)
<1>1. PICK step \in Nat, size \in Nat, k \in Nat, n \in Nat, q \in Nat :
        /\ step = j.step /\ size = j.size /\ k = m.number /\ n = Len(rows) /\ q = Len(s)
        /\ DOMAIN rows = 1..n /\ k \in 1..(step - 1) /\ m.by = a
  BY LenProperties DEF ActionOK, HandOK, Job
<1>2. new \in Row /\ new.endpoint = k
  BY <1>1 DEF Row
<1> HIDE DEF new
<1>3. /\ rows2 \in Seq(Row) /\ Len(rows2) = n + 1 /\ DOMAIN rows2 = 1..(n + 1)
      /\ \A i \in 1..n : rows2[i] = rows[i]
      /\ rows2[n + 1] = new
  BY <1>1, <1>2, AppendProperties, LenProperties
<1> HIDE DEF rows2
<1>4. \A i \in 1..n : rows[i].endpoint \in 1..(step - 1) /\ rows[i].endpoint < k
  BY <1>1 DEF ShowsOK
<1>5. \A i \in DOMAIN rows2 : rows2[i].endpoint \in 1..(step - 1)
  <2> SUFFICES ASSUME NEW i \in 1..(n + 1)
               PROVE  rows2[i].endpoint \in 1..(step - 1)
    BY <1>3
  <2>1. i \in 1..n \/ i = n + 1
    BY <1>1
  <2> QED
    BY <1>1, <1>2, <1>3, <1>4, <2>1
<1>6. ASSUME NEW i \in DOMAIN rows2, NEW l \in DOMAIN rows2, i < l
      PROVE  rows2[i].endpoint < rows2[l].endpoint
  <2>1. i \in 1..n
    BY <1>1, <1>3, <1>6
  <2>2. CASE l \in 1..n
    BY <1>1, <1>3, <1>6, <2>1, <2>2 DEF ShowsOK
  <2>3. CASE l = n + 1
    BY <1>2, <1>3, <1>4, <2>1, <2>3
  <2> QED
    BY <1>1, <1>3, <2>2, <2>3
<1>7. ASSUME NEW i \in DOMAIN rows2, NEW l \in DOMAIN s, s[l].type = "result"
      PROVE  rows2[i].endpoint < s[l].number
  <2>1. CASE i \in 1..n
    BY <1>1, <1>3, <1>7, <2>1 DEF ShowsOK
  <2>2. CASE i = n + 1
    BY <1>1, <1>2, <1>3, <1>7, <2>2 DEF ActionOK, HandOK
  <2> QED
    BY <1>1, <1>3, <2>1, <2>2
<1>8. ASSUME ~d
      PROVE  /\ m.number = Len(rows2)
             /\ Len(rows2) = IF Heard(j, s, {}) < j.size THEN Heard(j, s, {}) ELSE j.size
  <2>1. q + 1 < step /\ m = At(a, j, step - 1 - q)
    BY <1>1, <1>8 DEF ActionOK, HandOK
  <2>2. step - 1 - q = k /\ k <= size
    <3>1. ~j.fails /\ j.kind # "dedupe" /\ step - 1 - q <= j.size
      BY <2>1 DEF At, Message
    <3>2. m = Message("result", a, step - 1 - q)
      BY <2>1, <3>1 DEF At
    <3> QED
      BY <1>1, <3>1, <3>2 DEF Message
  <2>3. Heard(j, s, {m}) = step - 1 - q - 1 /\ Heard(j, s, {}) = step - 1 - q - 0
    BY <1>1 DEF Heard
  <2>4. n = IF k - 1 < size THEN k - 1 ELSE size
    BY <1>1, <1>8, <2>2, <2>3 DEF ShowsOK
  <2> QED
    BY <1>1, <1>3, <2>2, <2>3, <2>4
<1>9. ShowsOK(j, d, s, {}, rows2, m.number)
  BY <1>1, <1>5, <1>6, <1>7, <1>8 DEF ShowsOK
<1> QED
  BY <1>1, <1>3, <1>4, <1>9 DEF rows2, new

\* The message that is the last one of the script, without a gap before it.
LEMMA LastHanded ==
    ASSUME NEW a \in Actions, NEW j \in Job, NEW c, NEW s \in Seq(StreamMessage),
           NEW m, ActionOK(a, j, FALSE, c, s, {m}), m.type # "result"
    PROVE  /\ s = <<>> /\ m = At(a, j, LastStep(j))
           /\ j.step = LastStep(j) + 1
           /\ Heard(j, s, {m}) = LastStep(j) - 1
           /\ Heard(j, s, {}) = LastStep(j)
<1>1. PICK step \in Nat, last \in Nat : step = j.step /\ last = LastStep(j)
  BY LastStepType DEF Job
<1>2. s = <<>> /\ Len(s) = 0
  BY DEF ActionOK, HandOK
<1>3. m = At(a, j, step - 1 - 0) /\ step > last /\ step <= last + 1
  BY <1>1, <1>2 DEF ActionOK, HandOK, LineOK, JobOK
<1>4. step = last + 1 /\ step - 1 - 0 = last
  BY <1>1, <1>3
<1> QED
  BY <1>1, <1>2, <1>3, <1>4 DEF Heard

LEMMA CompleteShown ==
    ASSUME NEW a \in Actions, NEW j \in Job, NEW d \in BOOLEAN, NEW c, NEW s \in Seq(StreamMessage),
           NEW m, ActionOK(a, j, d, c, s, {m}), m.type = "complete",
           NEW rows, NEW count, ShowsOK(j, d, s, {m}, rows, count)
    PROVE  ShowsOK(j, d, s, {}, rows, m.number)
<1>1. ASSUME ~d
      PROVE  /\ m.number = Len(rows)
             /\ Len(rows) = IF Heard(j, s, {}) < j.size THEN Heard(j, s, {}) ELSE j.size
  <2>1. /\ m = At(a, j, LastStep(j))
        /\ Heard(j, s, {m}) = LastStep(j) - 1 /\ Heard(j, s, {}) = LastStep(j)
    BY <1>1, LastHanded
  <2>2. ~j.fails /\ j.kind # "dedupe" /\ LastStep(j) = j.size + 1 /\ j.size \in Nat
    BY <2>1 DEF At, Message, LastStep, Job
  <2>3. m.number = j.size
    BY <2>1, <2>2 DEF At, Message
  <2>4. PICK size \in Nat :
          /\ size = j.size /\ size = m.number
          /\ Heard(j, s, {m}) = size + 1 - 1 /\ Heard(j, s, {}) = size + 1
    BY <2>1, <2>2, <2>3
  <2>5. Len(rows) = IF size + 1 - 1 < size THEN size + 1 - 1 ELSE size
    BY <1>1, <2>4 DEF ShowsOK
  <2>6. Len(rows) = size /\ ~(size + 1 < size)
    BY <2>5
  <2> QED
    BY <2>4, <2>6
<1> QED
  BY <1>1 DEF ShowsOK

LEMMA ReplaceShown ==
    ASSUME NEW a \in Actions, NEW j \in Job, NEW d \in BOOLEAN, NEW c, NEW s \in Seq(StreamMessage),
           NEW m, ActionOK(a, j, d, c, s, {m}), m.type = "replace"
    PROVE  LET rows == << [by |-> m.by, endpoint |-> 1] >>
           IN  rows \in Seq(Row) /\ ShowsOK(j, d, s, {}, rows, 1)
<1> DEFINE new  == [by |-> m.by, endpoint |-> 1]
           rows == <<new>>
<1>1. m.by = a /\ s = <<>> /\ j.step > LastStep(j)
  BY DEF ActionOK, HandOK
<1>2. new \in Row /\ new.endpoint = 1
  BY <1>1 DEF Row
<1> HIDE DEF new
<1>3. rows \in Seq(Row) /\ Len(rows) = 1 /\ DOMAIN rows = 1..1 /\ rows[1] = new
  BY <1>2
<1> HIDE DEF rows
<1>4. 1 \in 1..(j.step - 1)
  <2>1. PICK step \in Nat, last \in Nat : step = j.step /\ last = LastStep(j) /\ last >= 1
    BY LastStepType DEF Job
  <2> QED
    BY <1>1, <2>1
<1>5. DOMAIN s = {}
  BY <1>1
<1>6. ASSUME ~d
      PROVE  Len(rows) = IF Heard(j, s, {}) < j.size THEN Heard(j, s, {}) ELSE j.size
  <2>1. m = At(a, j, LastStep(j)) /\ Heard(j, s, {}) = LastStep(j)
    BY <1>6, LastHanded
  <2>2. j.kind = "dedupe" /\ LastStep(j) = 1
    BY <2>1 DEF At, Message, LastStep
  <2>3. j.phase # "none"
    BY DEF ActionOK, HandOK
  <2>4. j.size = 1
    BY <2>2, <2>3 DEF ActionOK, LineOK, JobOK
  <2> QED
    BY <1>3, <2>1, <2>2, <2>4
<1>7. ShowsOK(j, d, s, {}, rows, 1)
  BY <1>2, <1>3, <1>4, <1>5, <1>6 DEF ShowsOK
<1> QED
  BY <1>3, <1>7 DEF rows, new

-----------------------------------------------------------------------------
(* What holds while a patient user sits in front of the UI.                *)

ActTypes ==
    /\ active \in {0, adopted}
    /\ adopted \in 0..started
    /\ started \in 0..MaxActions
    /\ job \in [Actions -> Job]
    /\ done \in [Actions -> BOOLEAN]
    /\ closed \in [Actions -> BOOLEAN]
    /\ stream \in [Actions -> Seq(StreamMessage)]
    /\ waiting \in [Actions -> {0, 1}]
    /\ speedtests \in [started: Nat, running: {0, 1}]
    /\ shown \in Seq(Row)

Launching(a) == job[a].phase = "launching"

\* What the user has started is one thing, in one place: a command about to
\* start, a waiter, a speed test, or a message.
Alone ==
    /\ inbox = EmptyBag \/ \E m \in Posted : inbox = SetToBag({m})
    /\ \A a, b \in Actions :
          /\ Launching(a) /\ Launching(b) => a = b
          /\ waiting[a] # 0 /\ waiting[b] # 0 => a = b
          /\ ~(Launching(a) /\ waiting[b] # 0)
    /\ inbox # EmptyBag => speedtests.running = 0
    /\ inbox # EmptyBag \/ speedtests.running # 0 =>
          \A a \in Actions : ~Launching(a) /\ waiting[a] = 0

Lines ==
    \A a \in Actions : ActionOK(a, job[a], done[a], closed[a], stream[a], InFlight(a))

\* Whoever is read from is on display, and whoever is about to be comes later.
Turns ==
    /\ \A a \in Actions : a > started => job[a].phase = "none"
    /\ \A a \in Actions : Launching(a) => a = started /\ adopted < a
    /\ \A a \in Actions : adopted < a => Unread(job[a], done[a], stream[a])
    /\ \A a \in Actions : waiting[a] # 0 => a = active
    /\ \A m \in Posted :
          \/ /\ m.type = "started" /\ m.by \in Actions /\ m.by = started /\ adopted < m.by
             /\ job[m.by].phase \in {"producing", "ended"}
          \/ m.type \in {"speed", "error"} /\ m.by = 0
          \/ m.type # "started" /\ m.by \in Actions /\ m.by = active

Running(j) == j.phase = "producing" /\ j.step \in 1..LastStep(j)

Display ==
    /\ \A i \in DOMAIN shown : shown[i].by = adopted
    /\ \A a \in Actions : a = adopted =>
          /\ job[a].phase \in {"producing", "ended"}
          /\ ShowsOK(job[a], done[a], stream[a], InFlight(a), shown, processed)
          /\ (stream[a] # <<>> \/ Running(job[a]))
               => waiting[a] = 1 \/ InFlight(a) # {}

\* An earlier action has nothing left to produce, and an action that is not on
\* display yet is about to be.
Past ==
    /\ \A a \in Actions : a < adopted => ~Running(job[a])
    /\ \A a \in Actions : adopted < a /\ a <= started =>
          a = started /\ (Launching(a) \/ \E m \in Posted : m.type = "started")

PatientInv == ActTypes /\ Alone /\ Lines /\ Turns /\ Display /\ Past

ActInv == user \in Users /\ (user.patient => PatientInv)

LEMMA ScriptIs ==
    ASSUME ActTypes, NEW a \in Actions
    PROVE  /\ DOMAIN Script(a) = 1..LastStep(job[a])
           /\ \A k \in 1..LastStep(job[a]) : Script(a)[k] = At(a, job[a], k)
           /\ Len(Script(a)) = LastStep(job[a])
<1>1. PICK j \in Job : j = job[a]
  BY DEF ActTypes
<1>2. PICK n \in Nat : n = j.size
  BY DEF Job
<1> DEFINE Results == [i \in 1..n |-> Message("result", a, i)]
           last    == Message("complete", a, n)
<1>3. Script(a) = CASE j.fails -> << Message("error", a, 0) >>
                    [] ~j.fails /\ j.kind = "dedupe" -> << Message("replace", a, 0) >>
                    [] OTHER -> Append(Results, last)
  BY <1>1, <1>2 DEF Script
<1>4. CASE j.fails
  <2>1. Script(a) = << Message("error", a, 0) >> /\ LastStep(j) = 1
    BY <1>3, <1>4 DEF LastStep
  <2>2. \A k \in 1..1 : At(a, j, k) = Message("error", a, 0)
    BY <1>4 DEF At
  <2> QED
    BY <1>1, <2>1, <2>2
<1>5. CASE ~j.fails /\ j.kind = "dedupe"
  <2>1. Script(a) = << Message("replace", a, 0) >> /\ LastStep(j) = 1
    BY <1>3, <1>5 DEF LastStep
  <2>2. \A k \in 1..1 : At(a, j, k) = Message("replace", a, 0)
    BY <1>5 DEF At
  <2> QED
    BY <1>1, <2>1, <2>2
<1>6. CASE ~j.fails /\ j.kind # "dedupe"
  <2>1. Script(a) = Append(Results, last) /\ LastStep(j) = n + 1
    BY <1>2, <1>3, <1>6 DEF LastStep
  <2>2. \E S : Results \in [1..n -> S] /\ last \in S
    <3> DEFINE S == {last} \cup {Results[i] : i \in 1..n}
    <3>1. Results \in [1..n -> S] /\ last \in S
      OBVIOUS
    <3> QED
      BY <3>1
  <2>3. PICK S : Results \in [1..n -> S] /\ last \in S
    BY <2>2
  <2>4. Results \in Seq(S) /\ Len(Results) = n
    <3> HIDE DEF Results
    <3> QED
      BY <2>3, SeqDef, LenProperties
  <2>5. /\ Len(Append(Results, last)) = n + 1 /\ DOMAIN Append(Results, last) = 1..(n + 1)
        /\ \A k \in 1..n : Append(Results, last)[k] = Results[k]
        /\ Append(Results, last)[n + 1] = last
    <3> HIDE DEF Results, last
    <3> QED
      BY <2>3, <2>4, AppendProperties, LenProperties
  <2>6. ASSUME NEW k \in 1..(n + 1)
        PROVE  Script(a)[k] = At(a, j, k)
    <3>1. CASE k \in 1..n
      <4>1. Script(a)[k] = Message("result", a, k)
        BY <2>1, <2>5, <3>1
      <4>2. k <= n
        BY <3>1
      <4> QED
        BY <1>2, <1>6, <4>1, <4>2 DEF At
    <3>2. CASE k = n + 1
      <4>1. Script(a)[k] = last /\ ~(k <= n)
        BY <2>1, <2>5, <3>2
      <4> QED
        BY <1>2, <1>6, <4>1 DEF At
    <3> QED
      BY <3>1, <3>2
  <2> QED
    BY <1>1, <2>1, <2>5, <2>6
<1> QED
  BY <1>4, <1>5, <1>6

LEMMA RunningIs ==
    ASSUME ActTypes, NEW a \in Actions
    PROVE  ToProduce(a) <=> Running(job[a])
BY ScriptIs DEF ToProduce, Producing, Running

\* The inbox of a patient user holds one message at most.
LEMMA Posts ==
    ASSUME inbox = EmptyBag, NEW m, Post(m)
    PROVE  inbox' = SetToBag({m}) /\ Posted' = {m}
<1>1. inbox' = SetToBag({m})
  BY DEF Post, EmptyBag, SetToBag, (+)
<1> QED
  BY <1>1 DEF Posted, BagToSet, SetToBag

LEMMA NonePosted == inbox = EmptyBag <=> inbox = EmptyBag /\ Posted = {}
BY DEF Posted, BagToSet, SetToBag, EmptyBag

LEMMA Takes ==
    ASSUME Alone, NEW m \in Posted, Take(m)
    PROVE  /\ inbox = SetToBag({m}) /\ Posted = {m} /\ inbox # EmptyBag
           /\ inbox' = EmptyBag /\ Posted' = {}
<1>1. inbox # EmptyBag
  BY DEF Posted, BagToSet, EmptyBag, SetToBag
<1>2. PICK n \in Posted : inbox = SetToBag({n})
  BY <1>1 DEF Alone
<1>3. Posted = {n}
  BY <1>2 DEF Posted, BagToSet, SetToBag
<1>4. m = n
  BY <1>3
<1>5. inbox' = EmptyBag
  BY <1>2, <1>4 DEF Take, EmptyBag, SetToBag, (-)
<1> QED
  BY <1>1, <1>2, <1>3, <1>4, <1>5 DEF Posted, BagToSet, EmptyBag, SetToBag

-----------------------------------------------------------------------------
(* The steps.                                                              *)

\* Everything that is not a producer's.
UIKeeps == UNCHANGED <<user, uiVars, started, waiting, speedtests, inbox, adopted>>

\* What a producer may make of its action.
MayBecome(a, j, d, c, s) ==
    /\ job[a].phase \in {"producing", "ended"} /\ j.phase \in {"producing", "ended"}
    /\ done[a] => d
    /\ Running(j) => Running(job[a])
    /\ s # <<>> => stream[a] # <<>> \/ Running(job[a])
    /\ ActionOK(a, j, d, c, s, InFlight(a))
    /\ ShowsOK(job[a], done[a], stream[a], InFlight(a), shown, processed)
         => ShowsOK(j, d, s, InFlight(a), shown, processed)
    /\ Unread(job[a], done[a], stream[a]) => Unread(j, d, s)

\* A producer's step keeps what is said of its action, and nothing else changes.
LEMMA ProducerKeeps ==
    ASSUME PatientInv, UIKeeps, NEW a \in Actions,
           NEW j \in Job, NEW d \in BOOLEAN, NEW c \in BOOLEAN, NEW s \in Seq(StreamMessage),
           job' = [job EXCEPT ![a] = j], done' = [done EXCEPT ![a] = d],
           closed' = [closed EXCEPT ![a] = c], stream' = [stream EXCEPT ![a] = s],
           MayBecome(a, j, d, c, s)
    PROVE  PatientInv'
<1> USE DEF MayBecome
<1>1. /\ job \in [Actions -> Job] /\ done \in [Actions -> BOOLEAN]
      /\ closed \in [Actions -> BOOLEAN] /\ stream \in [Actions -> Seq(StreamMessage)]
  BY DEF PatientInv, ActTypes
<1>2. /\ job'[a] = j /\ done'[a] = d /\ closed'[a] = c /\ stream'[a] = s
      /\ \A b \in Actions : b # a => /\ job'[b] = job[b] /\ done'[b] = done[b]
                                     /\ closed'[b] = closed[b] /\ stream'[b] = stream[b]
  BY <1>1
<1>3. UNCHANGED <<user, mode, active, shown, processed, started, waiting, speedtests,
                  inbox, adopted>>
  BY DEF UIKeeps, uiVars
<1>4. Posted' = Posted /\ \A b : InFlight(b)' = InFlight(b)
  BY <1>3 DEF Posted, InFlight
<1>5. ActTypes'
  <2>1. /\ job' \in [Actions -> Job] /\ done' \in [Actions -> BOOLEAN]
        /\ closed' \in [Actions -> BOOLEAN] /\ stream' \in [Actions -> Seq(StreamMessage)]
    <3> HIDE DEF Job, StreamMessage
    <3> QED
      BY <1>1
  <2> QED
    BY <1>3, <2>1 DEF PatientInv, ActTypes
<1>6. \A b \in Actions : Launching(b)' <=> Launching(b)
  BY <1>2 DEF Launching
<1>7. Alone'
  BY <1>3, <1>4, <1>6 DEF PatientInv, Alone
<1>8. Lines'
  <2>1. \A b \in Actions : ActionOK(b, job'[b], done'[b], closed'[b], stream'[b], InFlight(b))
    BY <1>2 DEF PatientInv, Lines
  <2> QED
    BY <1>4, <2>1 DEF Lines
<1>9. Turns'
  <2>1. \A b \in Actions : adopted < b => Unread(job'[b], done'[b], stream'[b])
    BY <1>2 DEF PatientInv, Turns
  <2>2. \A b \in Actions : b > started => job'[b].phase = "none"
    BY <1>2 DEF PatientInv, Turns
  <2>3. \A b \in Actions : job[b].phase \in {"producing", "ended"}
                             => job'[b].phase \in {"producing", "ended"}
    BY <1>2
  <2> QED
    BY <1>3, <1>4, <1>6, <2>1, <2>2, <2>3 DEF PatientInv, Turns
<1>10. Display'
  <2>1. \A i \in DOMAIN shown : shown[i].by = adopted
    BY DEF PatientInv, Display
  <2>2. ASSUME NEW b \in Actions, b = adopted
        PROVE  /\ job'[b].phase \in {"producing", "ended"}
               /\ ShowsOK(job'[b], done'[b], stream'[b], InFlight(b), shown, processed)
               /\ (stream'[b] # <<>> \/ Running(job'[b]))
                    => waiting[b] = 1 \/ InFlight(b) # {}
    <3>1. /\ job[b].phase \in {"producing", "ended"}
          /\ ShowsOK(job[b], done[b], stream[b], InFlight(b), shown, processed)
          /\ (stream[b] # <<>> \/ Running(job[b]))
               => waiting[b] = 1 \/ InFlight(b) # {}
      BY <2>2 DEF PatientInv, Display
    <3>2. CASE b = a
      BY <1>2, <3>1, <3>2
    <3>3. CASE b # a
      BY <1>2, <3>1, <3>3
    <3> QED
      BY <3>2, <3>3
  <2> QED
    BY <1>3, <1>4, <2>1, <2>2 DEF Display
<1>11. Past'
  <2>1. \A b \in Actions : Running(job'[b]) => Running(job[b])
    BY <1>2
  <2> QED
    BY <1>3, <1>4, <1>6, <2>1 DEF PatientInv, Past
<1> QED
  BY <1>5, <1>7, <1>8, <1>9, <1>10, <1>11 DEF PatientInv

LEMMA DropType ==
    ASSUME NEW j \in Job, j.step \in 1..LastStep(j), NEW next,
           next = CASE j.step = LastStep(j)       -> LastStep(j) + 1
                    [] j.step # LastStep(j) /\ j.kind = "batch"  -> j.step + 1
                    [] j.step # LastStep(j) /\ j.kind = "import" -> LastStep(j)
                    [] OTHER                      -> LastStep(j) + 1
    PROVE  next \in Nat /\ j.step <= next /\ next <= LastStep(j) + 1
<1>1. PICK step \in Nat, last \in Nat : step = j.step /\ last = LastStep(j) /\ step \in 1..last
  BY LastStepType DEF Job
<1>2. next = last + 1 \/ next = last \/ (next = step + 1)
  BY <1>1
<1> QED
  BY <1>1, <1>2

LEMMA ProducerStepKeeps ==
    ASSUME PatientInv, UNCHANGED user, NEW a \in Actions, ProducerStep(a) \/ Deadline(a)
    PROVE  PatientInv'
<1>1. UIKeeps
  BY DEF UIKeeps, ProducerStep, SourceFails, SendDelivered, SendDropped, BatchCutShort,
         ProducerEnds, Deadline
<1>2. PICK j \in Job, d \in BOOLEAN, c \in BOOLEAN, s \in Seq(StreamMessage),
           hands \in {InFlight(a)}, rows \in {shown}, count \in {processed} :
        j = job[a] /\ d = done[a] /\ c = closed[a] /\ s = stream[a]
  BY DEF PatientInv, ActTypes
<1>3. j.phase = "producing" /\ ActionOK(a, j, d, c, s, hands)
  BY <1>2 DEF ProducerStep, SourceFails, SendDelivered, SendDropped, BatchCutShort,
              ProducerEnds, Deadline, ToProduce, Producing, PatientInv, Lines
<1>4. /\ job = [job EXCEPT ![a] = j] /\ done = [done EXCEPT ![a] = d]
      /\ closed = [closed EXCEPT ![a] = c] /\ stream = [stream EXCEPT ![a] = s]
  BY <1>2 DEF PatientInv, ActTypes
<1>5. ActTypes
  BY DEF PatientInv
<1>6. ToProduce(a) <=> Running(j)
  BY <1>2, <1>5, RunningIs
<1>7. /\ DOMAIN Script(a) = 1..LastStep(j) /\ Len(Script(a)) = LastStep(j)
      /\ \A k \in 1..LastStep(j) : Script(a)[k] = At(a, j, k)
  BY <1>2, <1>5, ScriptIs
<1>8. PICK step \in Nat, last \in Nat :
        step = j.step /\ last = LastStep(j) /\ step >= 1 /\ last >= 1
  BY <1>3, LastStepType DEF ActionOK, LineOK, JobOK, Job
<1>9. CASE SourceFails(a)
  <2> DEFINE j2 == [j EXCEPT !.fails = TRUE]
  <2>1. /\ job' = [job EXCEPT ![a] = j2] /\ UNCHANGED <<done, closed, stream>>
        /\ j.step = 1 /\ Running(j)
    BY <1>2, <1>6, <1>9 DEF SourceFails
  <2>2. j2 \in Job /\ j2.phase = "producing"
    BY <1>3 DEF Job
  <2>3. /\ ActionOK(a, j2, d, c, s, hands)
        /\ ShowsOK(j, d, s, hands, rows, count) => ShowsOK(j2, d, s, hands, rows, count)
        /\ Unread(j, d, s) => Unread(j2, d, s)
    BY <1>3, <2>1, FailsKeeps
  <2> HIDE DEF j2
  <2>4. MayBecome(a, j2, d, c, s)
    BY <1>1, <1>2, <1>3, <2>1, <2>2, <2>3 DEF MayBecome
  <2>5. /\ job' = [job EXCEPT ![a] = j2] /\ done' = [done EXCEPT ![a] = d]
        /\ closed' = [closed EXCEPT ![a] = c] /\ stream' = [stream EXCEPT ![a] = s]
    BY <1>4, <2>1, <2>2, <2>3
  <2> QED
    BY <1>1, <2>2, <2>4, <2>5, ProducerKeeps
<1>10. CASE SendDelivered(a)
  <2> DEFINE j2 == [j EXCEPT !.step = @ + 1]
             s2 == Append(s, At(a, j, j.step))
  <2>1. Running(j)
    BY <1>6, <1>10 DEF SendDelivered
  <2>2. /\ job' = [job EXCEPT ![a] = j2] /\ stream' = [stream EXCEPT ![a] = s2]
        /\ UNCHANGED <<done, closed>>
    BY <1>2, <1>7, <1>10, <2>1 DEF SendDelivered, Running
  <2>3. j2 \in Job /\ j2.phase = "producing"
    BY <1>3 DEF Job
  <2>4. /\ s2 \in Seq(StreamMessage)
        /\ ActionOK(a, j2, d, c, s2, hands)
        /\ ShowsOK(j, d, s, hands, rows, count) => ShowsOK(j2, d, s2, hands, rows, count)
        /\ Unread(j, d, s) => Unread(j2, d, s2)
    BY <1>3, <2>1, SendsKeeps DEF Running
  <2> HIDE DEF j2, s2
  <2>5. MayBecome(a, j2, d, c, s2)
    BY <1>1, <1>2, <1>3, <1>4, <2>1, <2>2, <2>3, <2>4 DEF MayBecome
  <2>6. /\ job' = [job EXCEPT ![a] = j2] /\ done' = [done EXCEPT ![a] = d]
        /\ closed' = [closed EXCEPT ![a] = c] /\ stream' = [stream EXCEPT ![a] = s2]
    BY <1>4, <2>1, <2>2, <2>3, <2>4
  <2> QED
    BY <1>1, <2>3, <2>4, <2>5, <2>6, ProducerKeeps
<1>11. CASE SendDropped(a)
  <2>1. Running(j) /\ d = TRUE
    BY <1>2, <1>6, <1>11 DEF SendDropped
  <2>2. PICK next : next = StepAfterDrop(a)
    OBVIOUS
  <2>3. next \in Nat /\ j.step <= next /\ next <= LastStep(j) + 1
    BY <1>2, <1>7, <2>1, <2>2, DropType DEF StepAfterDrop, Running
  <2> DEFINE j2 == [j EXCEPT !.step = next]
  <2>4. job' = [job EXCEPT ![a] = j2] /\ UNCHANGED <<done, closed, stream>>
    BY <1>2, <1>11, <2>2 DEF SendDropped
  <2>5. /\ j2 \in Job /\ j2.phase = "producing" /\ j2.step = next /\ j2.kind = j.kind
        /\ j2.size = j.size /\ j2.fails = j.fails
    BY <1>3, <2>3 DEF Job
  <2> HIDE DEF j2
  <2>6. LastStep(j2) = LastStep(j)
    BY <2>5, SameScript
  <2>7. /\ ActionOK(a, j2, TRUE, c, s, hands)
        /\ ShowsOK(j, TRUE, s, hands, rows, count) => ShowsOK(j2, TRUE, s, hands, rows, count)
        /\ Unread(j2, TRUE, s)
    <3>1. j2.step >= j.step /\ j2.step <= LastStep(j2) + 1
      BY <1>8, <2>3, <2>5, <2>6
    <3> QED
      BY <1>3, <2>1, <2>5, <3>1, SkipsKeeps DEF Running
  <2>8. MayBecome(a, j2, TRUE, c, s)
    BY <1>1, <1>2, <1>3, <2>1, <2>4, <2>5, <2>7 DEF MayBecome
  <2>9. /\ job' = [job EXCEPT ![a] = j2] /\ done' = [done EXCEPT ![a] = TRUE]
        /\ closed' = [closed EXCEPT ![a] = c] /\ stream' = [stream EXCEPT ![a] = s]
    BY <1>4, <2>1, <2>4, <2>5, <2>7
  <2> QED
    BY <1>1, <2>5, <2>8, <2>9, ProducerKeeps
<1>12. CASE BatchCutShort(a)
  <2>1. Running(j) /\ d = TRUE /\ j.kind = "batch" /\ ~j.fails /\ j.step < LastStep(j)
    BY <1>2, <1>6, <1>7, <1>12 DEF BatchCutShort
  <2> DEFINE j2 == [j EXCEPT !.size = step - 1]
  <2>2. job' = [job EXCEPT ![a] = j2] /\ UNCHANGED <<done, closed, stream>>
    BY <1>2, <1>8, <1>12 DEF BatchCutShort
  <2>3. step - 1 \in Nat
    BY <1>8
  <2>4. /\ j2 \in Job /\ j2.phase = "producing" /\ j2.step = j.step /\ j2.kind = j.kind
        /\ j2.size = step - 1 /\ j2.fails = j.fails
    BY <1>3, <2>3 DEF Job
  <2> HIDE DEF j2
  <2>5. LastStep(j2) = step
    <3>1. LastStep(j2) = step - 1 + 1
      BY <2>1, <2>4 DEF LastStep
    <3> QED
      BY <1>8, <3>1
  <2>6. /\ ActionOK(a, j2, TRUE, c, s, hands)
        /\ ShowsOK(j, TRUE, s, hands, rows, count) => ShowsOK(j2, TRUE, s, hands, rows, count)
        /\ Unread(j2, TRUE, s)
    <3>1. j2.step >= j.step /\ j2.step <= LastStep(j2) + 1
      BY <1>8, <2>4, <2>5
    <3> QED
      BY <1>3, <2>1, <2>4, <3>1, SkipsKeeps DEF Running
  <2>7. MayBecome(a, j2, TRUE, c, s)
    BY <1>1, <1>2, <1>3, <2>1, <2>2, <2>4, <2>6 DEF MayBecome
  <2>8. /\ job' = [job EXCEPT ![a] = j2] /\ done' = [done EXCEPT ![a] = TRUE]
        /\ closed' = [closed EXCEPT ![a] = c] /\ stream' = [stream EXCEPT ![a] = s]
    BY <1>4, <2>1, <2>2, <2>4, <2>6
  <2> QED
    BY <1>1, <2>4, <2>7, <2>8, ProducerKeeps
<1>13. CASE ProducerEnds(a)
  <2> DEFINE j2 == [j EXCEPT !.phase = "ended"]
  <2>1. /\ job' = [job EXCEPT ![a] = j2] /\ done' = [done EXCEPT ![a] = TRUE]
        /\ closed' = [closed EXCEPT ![a] = TRUE] /\ UNCHANGED stream
        /\ j.step \notin 1..LastStep(j)
    BY <1>2, <1>7, <1>13 DEF ProducerEnds
  <2>2. j2 \in Job /\ j2.phase = "ended"
    BY DEF Job
  <2>3. j.step > LastStep(j)
    BY <1>8, <2>1
  <2>4. /\ ActionOK(a, j2, TRUE, TRUE, s, hands)
        /\ ShowsOK(j, d, s, hands, rows, count) => ShowsOK(j2, TRUE, s, hands, rows, count)
        /\ Unread(j2, TRUE, s)
    BY <1>3, <2>3, EndsKeeps
  <2>5. ~Running(j2)
    BY <2>2 DEF Running
  <2> HIDE DEF j2
  <2>6. MayBecome(a, j2, TRUE, TRUE, s)
    BY <1>1, <1>2, <1>3, <1>4, <2>1, <2>2, <2>4, <2>5 DEF MayBecome
  <2>7. /\ job' = [job EXCEPT ![a] = j2] /\ done' = [done EXCEPT ![a] = TRUE]
        /\ closed' = [closed EXCEPT ![a] = TRUE] /\ stream' = [stream EXCEPT ![a] = s]
    BY <1>4, <2>1, <2>2, <2>4, <2>5
  <2> QED
    BY <1>1, <2>2, <2>6, <2>7, ProducerKeeps
<1>14. CASE Deadline(a)
  <2>1. done' = [done EXCEPT ![a] = TRUE] /\ UNCHANGED <<job, closed, stream>>
    BY <1>14 DEF Deadline
  <2>2. /\ ActionOK(a, j, TRUE, c, s, hands)
        /\ ShowsOK(j, d, s, hands, rows, count) => ShowsOK(j, TRUE, s, hands, rows, count)
        /\ Unread(j, TRUE, s)
    BY <1>3, DoneKeeps
  <2>3. MayBecome(a, j, TRUE, c, s)
    BY <1>1, <1>2, <1>3, <2>1, <2>2 DEF MayBecome
  <2>4. /\ job' = [job EXCEPT ![a] = j] /\ done' = [done EXCEPT ![a] = TRUE]
        /\ closed' = [closed EXCEPT ![a] = c] /\ stream' = [stream EXCEPT ![a] = s]
    BY <1>4, <2>1, <2>2
  <2> QED
    BY <1>1, <2>3, <2>4, ProducerKeeps
<1> QED
  BY <1>9, <1>10, <1>11, <1>12, <1>13, <1>14 DEF ProducerStep

\* What the user sees of the list is not the action's business.
LEMMA StaysSo ==
    ASSUME PatientInv,
           UNCHANGED <<active, shown, producerVars, started, waiting, adopted>>,
           \A a \in Actions : InFlight(a)' = InFlight(a),
           processed' = processed \/ processed' = Len(shown)
    PROVE  Lines' /\ Display' /\ (Posted' = Posted => Turns' /\ Past')
<1>1. UNCHANGED <<active, shown, job, done, stream, closed, started, waiting, adopted>>
  BY DEF producerVars
<1>2. Lines'
  <2>1. \A a \in Actions : ActionOK(a, job[a], done[a], closed[a], stream[a], InFlight(a)')
    BY DEF PatientInv, Lines
  <2> QED
    BY <1>1, <2>1 DEF Lines
<1>3. Display'
  <2>1. \A i \in DOMAIN shown : shown[i].by = adopted
    BY DEF PatientInv, Display
  <2>2. ASSUME NEW a \in Actions, a = adopted
        PROVE  /\ job[a].phase \in {"producing", "ended"}
               /\ ShowsOK(job[a], done[a], stream[a], InFlight(a)', shown, processed')
               /\ (stream[a] # <<>> \/ Running(job[a]))
                    => waiting[a] = 1 \/ InFlight(a)' # {}
    <3>1. ShowsOK(job[a], done[a], stream[a], InFlight(a), shown, processed)
      BY <2>2 DEF PatientInv, Display
    <3>2. ShowsOK(job[a], done[a], stream[a], InFlight(a), shown, processed')
      BY <3>1 DEF ShowsOK
    <3> QED
      BY <2>2, <3>2 DEF PatientInv, Display
  <2> QED
    BY <1>1, <2>1, <2>2 DEF Display
<1>4. ASSUME Posted' = Posted PROVE Turns' /\ Past'
  BY <1>1, <1>4 DEF PatientInv, Turns, Past, Launching
<1> QED
  BY <1>2, <1>3, <1>4

LEMMA LooksKeeps ==
    ASSUME PatientInv, UNCHANGED user, OpenAction \/ SwitchMode \/ DeduplicateCurrent \/ LoopEnds
    PROVE  PatientInv'
<1>1. /\ UNCHANGED <<active, shown, producerVars, started, waiting, speedtests, inbox,
                     adopted>>
      /\ processed' = processed \/ processed' = Len(shown)
  BY DEF OpenAction, SwitchMode, DeduplicateCurrent, LoopEnds
<1>2. Posted' = Posted /\ \A a \in Actions : InFlight(a)' = InFlight(a)
  BY <1>1 DEF Posted, InFlight
<1>3. Lines' /\ Display' /\ Turns' /\ Past'
  BY <1>1, <1>2, StaysSo
<1>4. ActTypes'
  BY <1>1 DEF PatientInv, ActTypes, producerVars
<1>5. Alone'
  BY <1>1, <1>2 DEF PatientInv, Alone, Launching, producerVars
<1> QED
  BY <1>3, <1>4, <1>5 DEF PatientInv

LEMMA StartSpeedtestKeeps ==
    ASSUME PatientInv, user.patient, UNCHANGED user, StartSpeedtest
    PROVE  PatientInv'
<1>1. /\ UNCHANGED <<active, shown, processed, producerVars, job, started, waiting, inbox,
                     adopted>>
      /\ speedtests' = [started |-> speedtests.started + 1, running |-> speedtests.running + 1]
      /\ inbox = EmptyBag /\ speedtests.running = 0
      /\ \A a \in Actions : waiting[a] = 0 /\ ~Launching(a)
  BY DEF StartSpeedtest, Quiet, uiVars, producerVars, Launching
<1>2. Posted' = Posted /\ \A a \in Actions : InFlight(a)' = InFlight(a)
  BY <1>1 DEF Posted, InFlight
<1>3. Lines' /\ Display' /\ Turns' /\ Past'
  BY <1>1, <1>2, StaysSo
<1>4. ActTypes'
  BY <1>1 DEF PatientInv, ActTypes, producerVars
<1>5. Alone'
  BY <1>1, <1>2 DEF Alone, Launching
<1> QED
  BY <1>3, <1>4, <1>5 DEF PatientInv

LEMMA SpeedtestEndsKeeps ==
    ASSUME PatientInv, UNCHANGED user, SpeedtestEnds
    PROVE  PatientInv'
<1>1. PICK m : Post(m) /\ m.type \in {"speed", "error"} /\ m.by = 0
  BY DEF SpeedtestEnds, Message
<1>2. /\ UNCHANGED <<active, shown, processed, producerVars, job, started, waiting,
                     adopted>>
      /\ speedtests' = [speedtests EXCEPT !.running = @ - 1] /\ speedtests.running # 0
  BY DEF SpeedtestEnds, uiVars, producerVars, PatientInv, ActTypes
<1>3. /\ inbox = EmptyBag /\ speedtests'.running = 0
      /\ \A a \in Actions : ~Launching(a) /\ waiting[a] = 0
  BY <1>2 DEF PatientInv, ActTypes, Alone
<1>4. inbox' = SetToBag({m}) /\ Posted' = {m} /\ Posted = {}
  BY <1>1, <1>3, Posts, NonePosted
<1>5. \A a \in Actions : InFlight(a)' = {} /\ InFlight(a) = {}
  BY <1>1, <1>4 DEF InFlight, Actions
<1>6. Lines' /\ Display'
  BY <1>2, <1>5, StaysSo
<1>7. ActTypes'
  <2>1. speedtests \in [started: Nat, running: {0, 1}] /\ ActTypes
    BY DEF PatientInv, ActTypes
  <2>2. speedtests' = [speedtests EXCEPT !.running = 0]
    <3>1. speedtests.running = 1
      BY <1>2, <2>1
    <3>2. speedtests.running - 1 = 0
      BY <3>1
    <3> QED
      BY <1>2, <3>2
  <2>3. speedtests' \in [started: Nat, running: {0, 1}]
    BY <2>1, <2>2
  <2> QED
    BY <1>2, <2>1, <2>3 DEF ActTypes, producerVars
<1>8. Alone'
  BY <1>2, <1>3, <1>4 DEF Alone, Launching
<1>9. Turns'
  <2>1. UNCHANGED <<active, job, done, stream, started, waiting, adopted>>
    BY <1>2 DEF producerVars
  <2> QED
    BY <1>1, <1>3, <1>4, <2>1 DEF PatientInv, Turns, Launching
<1>10. Past'
  <2>1. UNCHANGED <<job, started, adopted>>
    BY <1>2 DEF producerVars
  <2> QED
    BY <1>3, <1>4, <2>1 DEF PatientInv, Past, Launching
<1> QED
  BY <1>6, <1>7, <1>8, <1>9, <1>10 DEF PatientInv

\* What is cancelled is what is on display.
LEMMA CancelKeeps ==
    ASSUME ActTypes, done' = CancelActive \/ UNCHANGED done, NEW a \in Actions,
           NEW hands, NEW rows, NEW count
    PROVE  /\ done'[a] \in BOOLEAN /\ (done[a] => done'[a])
           /\ done' = CancelActive /\ a = active => done'[a]
           /\ ActionOK(a, job[a], done[a], closed[a], stream[a], hands)
                => ActionOK(a, job[a], done'[a], closed[a], stream[a], hands)
           /\ ShowsOK(job[a], done[a], stream[a], hands, rows, count)
                => ShowsOK(job[a], done'[a], stream[a], hands, rows, count)
           /\ Unread(job[a], done[a], stream[a]) => Unread(job[a], done'[a], stream[a])
<1>1. done[a] \in BOOLEAN
  BY DEF ActTypes
<1>2. done'[a] \in BOOLEAN /\ (done'[a] = done[a] \/ done'[a] = TRUE)
  BY <1>1 DEF CancelActive
<1>3. (done[a] => done'[a]) /\ (done' = CancelActive /\ a = active => done'[a])
  BY DEF CancelActive
<1>4. CASE done'[a] = done[a]
  BY <1>2, <1>3, <1>4
<1>5. CASE done'[a] = TRUE
  <2>1. ActionOK(a, job[a], done[a], closed[a], stream[a], hands)
          => ActionOK(a, job[a], TRUE, closed[a], stream[a], hands)
    BY <1>1, DoneKeeps
  <2>2. ShowsOK(job[a], done[a], stream[a], hands, rows, count)
          => ShowsOK(job[a], TRUE, stream[a], hands, rows, count)
    BY DEF ShowsOK
  <2>3. Unread(job[a], TRUE, stream[a])
    BY DEF Unread
  <2> QED
    BY <1>2, <1>3, <1>5, <2>1, <2>2, <2>3
<1> QED
  BY <1>2, <1>4, <1>5

LEMMA CancelType ==
    ASSUME ActTypes, done' = CancelActive
    PROVE  done' \in [Actions -> BOOLEAN]
BY DEF ActTypes, CancelActive

LEMMA QuitKeeps ==
    ASSUME PatientInv, UNCHANGED user, Quit
    PROVE  PatientInv'
<1>1. /\ UNCHANGED <<active, shown, processed, job, stream, closed, started, waiting, speedtests,
                     inbox, adopted>>
      /\ done' = CancelActive
  BY DEF Quit
<1>2. ActTypes
  BY DEF PatientInv
<1>3. Posted' = Posted /\ \A a \in Actions : InFlight(a)' = InFlight(a)
  BY <1>1 DEF Posted, InFlight
<1>4. ActTypes'
  BY <1>1, <1>2, CancelType DEF ActTypes
<1>5. Alone'
  BY <1>1, <1>3 DEF PatientInv, Alone, Launching
<1>6. Lines'
  <2>1. \A a \in Actions : ActionOK(a, job[a], done'[a], closed[a], stream[a], InFlight(a))
    BY <1>1, <1>2, CancelKeeps DEF PatientInv, Lines
  <2> QED
    BY <1>1, <1>3, <2>1 DEF Lines
<1>7. Turns'
  <2>1. \A a \in Actions : adopted < a => Unread(job[a], done'[a], stream[a])
    BY <1>1, <1>2, CancelKeeps DEF PatientInv, Turns
  <2> QED
    BY <1>1, <1>3, <2>1 DEF PatientInv, Turns, Launching
<1>8. Display'
  <2>1. \A i \in DOMAIN shown : shown[i].by = adopted
    BY DEF PatientInv, Display
  <2>2. ASSUME NEW a \in Actions, a = adopted
        PROVE  ShowsOK(job[a], done'[a], stream[a], InFlight(a), shown, processed)
    BY <1>1, <1>2, <2>2, CancelKeeps DEF PatientInv, Display
  <2> QED
    BY <1>1, <1>3, <2>1, <2>2 DEF PatientInv, Display
<1>9. Past'
  BY <1>1, <1>3 DEF PatientInv, Past, Launching
<1> QED
  BY <1>4, <1>5, <1>6, <1>7, <1>8, <1>9 DEF PatientInv

LEMMA LaunchKeeps ==
    ASSUME PatientInv, UNCHANGED user, NEW a \in Actions, Launch(a)
    PROVE  PatientInv'
<1> DEFINE m == Message("started", a, 0)
<1>1. PICK j \in Job : j = job[a]
  BY DEF PatientInv, ActTypes
<1> DEFINE j2 == [j EXCEPT !.phase = "producing"]
<1>2. /\ UNCHANGED <<active, shown, processed, done, stream, closed, started, waiting,
                     speedtests, adopted>>
      /\ Post(m) /\ job' = [job EXCEPT ![a] = j2] /\ j.phase = "launching" /\ Launching(a)
  BY <1>1 DEF Launch, uiVars, Launching
<1>3. m.type = "started" /\ m.by = a
  BY DEF Message
<1>4. /\ j2 \in Job /\ j2.phase = "producing" /\ j2.step = j.step /\ j2.fails = j.fails
      /\ j2.kind = j.kind /\ j2.size = j.size
  BY DEF Job
<1> HIDE DEF m, j2
<1>5. ActTypes /\ Alone /\ Lines /\ Turns /\ Display
  BY DEF PatientInv
<1>6. job'[a] = j2 /\ \A b \in Actions : b # a => job'[b] = job[b]
  BY <1>2, <1>5 DEF ActTypes
<1>7. /\ inbox = EmptyBag /\ speedtests.running = 0 /\ \A b \in Actions : waiting[b] = 0
      /\ \A b \in Actions : Launching(b) => b = a
  BY <1>2, <1>5 DEF ActTypes, Alone
<1>8. inbox' = SetToBag({m}) /\ Posted' = {m} /\ Posted = {}
  BY <1>2, <1>7, Posts, NonePosted
<1>9. \A b : InFlight(b)' = {} /\ InFlight(b) = {}
  BY <1>3, <1>8 DEF InFlight
<1>10. a = started /\ adopted < a
  BY <1>2, <1>5 DEF Turns
<1>11. ActTypes'
  <2>1. job' \in [Actions -> Job]
    <3> HIDE DEF Job
    <3> QED
      BY <1>2, <1>4, <1>5 DEF ActTypes
  <2> QED
    BY <1>2, <1>5, <2>1 DEF ActTypes
<1>12. \A b \in Actions : ~Launching(b)'
  BY <1>4, <1>6, <1>7 DEF Launching
<1>13. Alone'
  BY <1>2, <1>7, <1>8, <1>12 DEF Alone
<1>14. ASSUME NEW b \in Actions
       PROVE  ActionOK(b, job'[b], done[b], closed[b], stream[b], {})
  <2>1. ActionOK(b, job[b], done[b], closed[b], stream[b], {})
    BY <1>5, <1>9 DEF Lines
  <2>2. CASE b = a
    <3>1. LastStep(j2) = LastStep(j)
      BY <1>4, SameScript
    <3>2. stream[a] = <<>> /\ ~closed[a] /\ JobOK(j, done[a], closed[a])
      BY <1>1, <1>2, <2>1, <2>2 DEF ActionOK, LineOK, JobOK
    <3>3. JobOK(j2, done[a], closed[a])
      BY <1>2, <1>4, <3>1, <3>2 DEF JobOK
    <3> QED
      BY <1>4, <1>6, <2>2, <3>2, <3>3 DEF ActionOK, LineOK, Produced, Rising, Gapless
  <2>3. CASE b # a
    BY <1>6, <2>1, <2>3
  <2> QED
    BY <2>2, <2>3
<1>15. Lines'
  BY <1>2, <1>9, <1>14 DEF Lines
<1>16. Turns'
  <2>1. \A b \in Actions : adopted < b => Unread(job'[b], done[b], stream[b])
    <3>1. Unread(job[a], done[a], stream[a])
      BY <1>5, <1>10 DEF Turns
    <3>2. Unread(j2, done[a], stream[a])
      BY <1>1, <1>2, <1>4, <3>1 DEF Unread
    <3> QED
      BY <1>5, <1>6, <3>2 DEF Turns
  <2>2. \A b \in Actions : b > started => job'[b].phase = "none"
    BY <1>5, <1>6, <1>10 DEF Turns, Actions
  <2> QED
    BY <1>2, <1>3, <1>4, <1>6, <1>7, <1>8, <1>10, <1>12, <2>1, <2>2 DEF Turns
<1>17. Display'
  <2>1. \A i \in DOMAIN shown : shown[i].by = adopted
    BY <1>5 DEF Display
  <2>2. ASSUME NEW b \in Actions, b = adopted
        PROVE  /\ job'[b].phase \in {"producing", "ended"}
               /\ ShowsOK(job'[b], done[b], stream[b], {}, shown, processed)
               /\ (stream[b] # <<>> \/ Running(job'[b])) => waiting[b] = 1
    <3>1. b # a /\ job'[b] = job[b]
      BY <1>5, <1>6, <1>10, <2>2 DEF ActTypes
    <3> QED
      BY <1>5, <1>9, <2>2, <3>1 DEF Display
  <2> QED
    BY <1>2, <1>9, <2>1, <2>2 DEF Display
<1>18. Past'
  <2>1. Past /\ a \in Int /\ adopted \in Int /\ \A b \in Actions : b \in Int
    BY <1>5 DEF PatientInv, ActTypes, Actions
  <2>2. \A b \in Actions : b < adopted => ~Running(job'[b])
    BY <1>6, <1>10, <2>1 DEF Past
  <2>3. \A b \in Actions : adopted < b /\ b <= started => b = started
    BY <2>1 DEF Past
  <2> QED
    BY <1>2, <1>3, <1>8, <2>2, <2>3 DEF Past
<1> QED
  BY <1>11, <1>13, <1>15, <1>16, <1>17, <1>18 DEF PatientInv

LEMMA EnterKeeps ==
    ASSUME PatientInv, user \in Users, user.patient, UNCHANGED user,
           NEW kind \in user.kinds, NEW size \in user.sizes, Enter(kind, size)
    PROVE  PatientInv'
<1>1. kind \in Kinds /\ size \in Nat \ {0}
  BY UsersAssumption
<1> DEFINE a == started + 1
           j == [kind |-> kind, size |-> size, fails |-> FALSE, step |-> 1, phase |-> "launching"]
<1>2. ActTypes /\ Alone /\ Lines /\ Turns /\ Display
  BY DEF PatientInv
<1>3. /\ UNCHANGED <<active, shown, processed, done, stream, closed, waiting, speedtests,
                     inbox, adopted>>
      /\ started' = a /\ job' = [job EXCEPT ![a] = j]
      /\ kind \in {"batch", "import"} \/ size = 1
  BY DEF Enter
<1>4. /\ inbox = EmptyBag /\ speedtests.running = 0
      /\ \A b \in Actions : waiting[b] = 0 /\ ~Launching(b)
  BY DEF Enter, Quiet, Launching
<1>5. a \in Actions /\ started \in Nat /\ started < a /\ a \in 0..MaxActions
  BY <1>2, BoundsAssumption DEF Enter, ActTypes, Actions
<1>6. /\ j \in Job /\ j.phase = "launching" /\ j.step = 1 /\ j.fails = FALSE /\ j.kind = kind
      /\ j.size = size
  BY <1>1 DEF Job
<1> HIDE DEF a, j
<1>7. job'[a] = j /\ \A b \in Actions : b # a => job'[b] = job[b]
  BY <1>2, <1>3, <1>5 DEF ActTypes
<1>8. job[a].phase = "none"
  BY <1>2, <1>5 DEF Turns
<1>9. Posted' = Posted /\ Posted = {} /\ \A b : InFlight(b)' = {} /\ InFlight(b) = {}
  BY <1>3, <1>4, NonePosted DEF InFlight, Posted
<1>10. ActTypes'
  <2>1. job' \in [Actions -> Job]
    <3> HIDE DEF Job
    <3> QED
      BY <1>2, <1>3, <1>6 DEF ActTypes
  <2>2. adopted \in 0..a
    BY <1>2, <1>5 DEF ActTypes
  <2> QED
    BY <1>2, <1>3, <1>5, <2>1, <2>2 DEF ActTypes
<1>11. \A b \in Actions : Launching(b)' <=> b = a
  BY <1>4, <1>6, <1>7 DEF Launching
<1>12. Alone'
  BY <1>3, <1>4, <1>9, <1>11 DEF Alone
<1>13. stream[a] = <<>> /\ ~closed[a]
  BY <1>2, <1>5, <1>8 DEF Lines, ActionOK, LineOK, JobOK
<1>14. ASSUME NEW b \in Actions
       PROVE  ActionOK(b, job'[b], done[b], closed[b], stream[b], {})
  <2>1. CASE b = a
    <3>1. JobOK(j, done[a], closed[a])
      <4>1. LastStep(j) \in Nat /\ LastStep(j) >= 1
        BY <1>6, LastStepType
      <4>2. 1 \in 1..(LastStep(j) + 1)
        BY <4>1
      <4> QED
        BY <1>1, <1>3, <1>6, <1>13, <4>2 DEF JobOK, Kinds
    <3> QED
      BY <1>7, <1>13, <2>1, <3>1 DEF ActionOK, LineOK, Produced, Rising, Gapless
  <2>2. CASE b # a
    BY <1>2, <1>7, <1>9, <2>2 DEF Lines
  <2> QED
    BY <2>1, <2>2
<1>15. Lines'
  BY <1>3, <1>9, <1>14 DEF Lines
<1>16. Turns'
  <2>1. \A b \in Actions : b > a => job'[b].phase = "none"
    BY <1>2, <1>5, <1>7 DEF Turns, Actions
  <2>2. adopted < a
    BY <1>2, <1>5 DEF ActTypes
  <2>3. \A b \in Actions : adopted < b => Unread(job'[b], done[b], stream[b])
    <3>1. Unread(j, done[a], stream[a])
      BY <1>6, <1>13 DEF Unread
    <3> QED
      BY <1>2, <1>7, <3>1 DEF Turns
  <2> QED
    BY <1>3, <1>4, <1>9, <1>11, <2>1, <2>2, <2>3 DEF Turns
<1>17. Display'
  <2>1. \A i \in DOMAIN shown : shown[i].by = adopted
    BY <1>2 DEF Display
  <2>2. ASSUME NEW b \in Actions, b = adopted
        PROVE  /\ job'[b].phase \in {"producing", "ended"}
               /\ ShowsOK(job'[b], done[b], stream[b], {}, shown, processed)
               /\ (stream[b] # <<>> \/ Running(job'[b])) => waiting[b] = 1
    <3>1. b # a /\ job'[b] = job[b]
      BY <1>2, <1>5, <1>7, <2>2 DEF ActTypes
    <3> QED
      BY <1>2, <1>9, <2>2, <3>1 DEF Display
  <2> QED
    BY <1>3, <1>9, <2>1, <2>2 DEF Display
<1>18. Past'
  <2>1. Past /\ adopted \in Nat /\ adopted <= started
    BY <1>2, <1>5 DEF PatientInv, ActTypes
  <2>2. \A b \in Actions : b < adopted => ~Running(job'[b])
    BY <1>5, <1>7, <2>1 DEF Past, Actions
  <2>3. ASSUME NEW b \in Actions, adopted < b, b <= a
        PROVE  b = a /\ Launching(b)'
    <3>1. ~(b <= started)
      BY <1>4, <1>9, <2>1, <2>3 DEF Past
    <3>2. b = a
      BY <1>5, <2>3, <3>1 DEF a, Actions
    <3> QED
      BY <1>11, <3>2
  <2> QED
    BY <1>3, <2>2, <2>3 DEF Past
<1> QED
  BY <1>10, <1>12, <1>15, <1>16, <1>17, <1>18 DEF PatientInv

LEMMA WaiterReadsKeeps ==
    ASSUME PatientInv, UNCHANGED user, NEW a \in Actions, WaiterReads(a)
    PROVE  PatientInv'
<1>1. ActTypes /\ Alone /\ Lines /\ Turns /\ Display
  BY DEF PatientInv
<1>2. /\ UNCHANGED <<active, shown, processed, job, done, closed, started, speedtests,
                     adopted>>
      /\ waiting[a] > 0 /\ waiting' = [waiting EXCEPT ![a] = @ - 1]
  BY DEF WaiterReads, uiVars
<1>3. waiting[a] = 1 /\ waiting'[a] = 0 /\ waiting' \in [Actions -> {0, 1}]
  <2>1. waiting[a] = 1
    BY <1>1, <1>2 DEF ActTypes
  <2>2. waiting' = [waiting EXCEPT ![a] = 0]
    BY <1>2, <2>1
  <2> QED
    BY <1>1, <2>1, <2>2 DEF ActTypes
<1>4. /\ inbox = EmptyBag /\ speedtests.running = 0
      /\ \A b \in Actions : ~Launching(b)
      /\ \A b \in Actions : b # a => waiting[b] = 0 /\ waiting'[b] = 0
  BY <1>1, <1>2, <1>3 DEF ActTypes, Alone
<1>5. a = active /\ a = adopted
  BY <1>1, <1>3 DEF ActTypes, Turns, Actions
<1>6. Posted = {} /\ \A b : InFlight(b) = {}
  BY <1>4, NonePosted DEF InFlight
<1>7. PICK j \in Job, d \in BOOLEAN, c \in BOOLEAN, s \in Seq(StreamMessage),
           rows \in {shown}, count \in {processed} :
        j = job[a] /\ d = done[a] /\ c = closed[a] /\ s = stream[a]
  BY <1>1 DEF ActTypes
<1>8. ActionOK(a, j, d, c, s, {}) /\ ShowsOK(j, d, s, {}, rows, count)
  BY <1>1, <1>5, <1>6, <1>7 DEF Lines, Display
<1>9. PICK m, t :
        /\ t \in Seq(StreamMessage) /\ Post(m) /\ stream' = [stream EXCEPT ![a] = t]
        /\ ActionOK(a, j, d, c, t, {m}) /\ ShowsOK(j, d, t, {m}, rows, count)
  <2>1. CASE stream[a] # <<>> /\ Post(Head(stream[a])) /\ stream' = [stream EXCEPT ![a] = Tail(@)]
    <3>1. s # <<>> /\ Post(Head(s)) /\ stream' = [stream EXCEPT ![a] = Tail(s)]
      BY <1>7, <2>1
    <3>2. /\ Tail(s) \in Seq(StreamMessage) /\ ActionOK(a, j, d, c, Tail(s), {Head(s)})
          /\ ShowsOK(j, d, Tail(s), {Head(s)}, rows, count)
      BY <1>8, <3>1, ReadsKeeps
    <3> QED
      BY <3>1, <3>2
  <2>2. CASE stream[a] = <<>> /\ closed[a] /\ Post(Message("closed", a, 0)) /\ UNCHANGED stream
    <3>1. s = <<>> /\ c = TRUE /\ stream' = [stream EXCEPT ![a] = s]
      BY <1>1, <1>7, <2>2 DEF ActTypes
    <3>2. /\ ActionOK(a, j, d, c, s, {Message("closed", a, 0)})
          /\ ShowsOK(j, d, s, {Message("closed", a, 0)}, rows, count)
      BY <1>8, <3>1, ClosedKeeps
    <3> QED
      BY <2>2, <3>1, <3>2
  <2> QED
    BY <2>1, <2>2 DEF WaiterReads
<1>10. inbox' = SetToBag({m}) /\ Posted' = {m}
  BY <1>4, <1>9, Posts
<1>11. m.by = a /\ m.type # "started"
  BY <1>9 DEF ActionOK, HandOK, Content
<1>12. InFlight(a)' = {m} /\ \A b : b # a => InFlight(b)' = {}
  BY <1>10, <1>11 DEF InFlight
<1>13. /\ stream' \in [Actions -> Seq(StreamMessage)]
       /\ stream'[a] = t /\ \A b \in Actions : b # a => stream'[b] = stream[b]
  <2> HIDE DEF StreamMessage
  <2> QED
    BY <1>1, <1>9 DEF ActTypes
<1>14. ActTypes'
  BY <1>1, <1>2, <1>3, <1>13 DEF ActTypes
<1>15. \A b \in Actions : Launching(b)' <=> Launching(b)
  BY <1>2 DEF Launching
<1>16. Alone'
  BY <1>2, <1>3, <1>4, <1>10, <1>15 DEF Alone
<1>17. Lines'
  <2>1. ASSUME NEW b \in Actions
        PROVE  ActionOK(b, job[b], done[b], closed[b], stream'[b], InFlight(b)')
    <3>1. CASE b = a
      BY <1>7, <1>9, <1>12, <1>13, <3>1
    <3>2. CASE b # a
      BY <1>1, <1>6, <1>12, <1>13, <3>2 DEF Lines
    <3> QED
      BY <3>1, <3>2
  <2> QED
    BY <1>2, <2>1 DEF Lines
<1>18. Turns'
  <2>1. \A b \in Actions : adopted < b => Unread(job[b], done[b], stream'[b])
    BY <1>1, <1>5, <1>13 DEF Turns, Actions
  <2> QED
    BY <1>1, <1>2, <1>3, <1>4, <1>5, <1>10, <1>11, <1>15, <2>1 DEF Turns
<1>19. Display'
  <2>1. \A i \in DOMAIN shown : shown[i].by = adopted
    BY <1>1 DEF Display
  <2>2. ASSUME NEW b \in Actions, b = adopted
        PROVE  /\ job[b].phase \in {"producing", "ended"}
               /\ ShowsOK(job[b], done[b], stream'[b], InFlight(b)', shown, processed)
               /\ InFlight(b)' # {}
    BY <1>1, <1>5, <1>7, <1>9, <1>12, <1>13, <2>2 DEF Display
  <2> QED
    BY <1>2, <2>1, <2>2 DEF Display
<1>20. Past'
  BY <1>2, <1>4, <1>6 DEF PatientInv, Past
<1> QED
  BY <1>14, <1>16, <1>17, <1>18, <1>19, <1>20 DEF PatientInv

\* What Update leaves behind is in order if the action on display is.
LEMMA UpdateFrame ==
    ASSUME PatientInv, NEW m \in Posted, Take(m),
           UNCHANGED <<user, job, stream, closed, started, speedtests>>,
           done' = CancelActive \/ UNCHANGED done,
           active' \in {0, adopted'}, adopted' \in 0..started, adopted <= adopted',
           \/ m.type # "started" /\ adopted' = adopted
           \/ m.type = "started" /\ adopted' = started,
           \/ UNCHANGED waiting
           \/ active' \in Actions /\ waiting' = [waiting EXCEPT ![active'] = @ + 1],
           shown' \in Seq(Row),
           \A i \in DOMAIN shown' : shown'[i].by = adopted',
           \A a \in Actions : a = adopted' =>
              /\ job[a].phase \in {"producing", "ended"}
              /\ ShowsOK(job[a], done'[a], stream[a], {}, shown', processed')
              /\ stream[a] # <<>> \/ Running(job[a]) => waiting'[a] = 1
    PROVE  PatientInv'
<1>1. ActTypes /\ Alone /\ Lines /\ Turns /\ Display
  BY DEF PatientInv
<1>2. inbox = SetToBag({m}) /\ inbox # EmptyBag /\ inbox' = EmptyBag /\ Posted' = {}
  BY <1>1, Takes
<1>3. /\ speedtests.running = 0 /\ \A a \in Actions : waiting[a] = 0 /\ ~Launching(a)
  BY <1>1, <1>2 DEF ActTypes, Alone
<1>4. \A b : InFlight(b)' = {}
  BY <1>2 DEF InFlight
<1>5. /\ waiting' \in [Actions -> {0, 1}]
      /\ \A a \in Actions : waiting'[a] # 0 => a = active'
  <2>1. CASE UNCHANGED waiting
    BY <1>1, <1>3, <2>1 DEF ActTypes
  <2>2. CASE active' \in Actions /\ waiting' = [waiting EXCEPT ![active'] = @ + 1]
    <3>1. PICK b \in Actions : b = active' /\ waiting' = [waiting EXCEPT ![b] = @ + 1]
      BY <2>2
    <3>2. waiting' = [waiting EXCEPT ![b] = 1]
      <4>1. waiting[b] + 1 = 1
        BY <1>3
      <4> QED
        BY <3>1, <4>1
    <3> QED
      BY <1>1, <1>3, <3>1, <3>2 DEF ActTypes
  <2> QED
    BY <2>1, <2>2
<1>6. done' \in [Actions -> BOOLEAN]
  BY <1>1, CancelType DEF ActTypes
<1>7. ActTypes'
  BY <1>1, <1>5, <1>6 DEF ActTypes
<1>8. \A a \in Actions : ~Launching(a)'
  BY <1>3 DEF Launching
<1>9. Alone'
  BY <1>2, <1>3, <1>5, <1>8 DEF Alone
<1>10. Lines'
  <2>1. ASSUME NEW a \in Actions
        PROVE  ActionOK(a, job[a], done'[a], closed[a], stream[a], {})
    <3>1. ActionOK(a, job[a], done[a], closed[a], stream[a], {})
      BY <1>1 DEF Lines, ActionOK
    <3> QED
      BY <1>1, <3>1, CancelKeeps
  <2> QED
    BY <1>4, <2>1 DEF Lines
<1>11. Turns'
  <2>1. \A a \in Actions : adopted' < a => Unread(job[a], done'[a], stream[a])
    <3>1. \A a \in Actions : adopted' < a => adopted < a
      <4>1. \A k, n, a \in Int : k <= n /\ n < a => k < a
        OBVIOUS
      <4>2. adopted \in Int /\ adopted' \in Int /\ \A a \in Actions : a \in Int
        BY <1>1 DEF ActTypes, Actions
      <4> QED
        BY <4>1, <4>2
    <3> QED
      BY <1>1, <3>1, CancelKeeps DEF Turns
  <2> QED
    BY <1>1, <1>2, <1>5, <1>8, <2>1 DEF Turns
<1>12. Display'
  BY <1>4 DEF Display
<1>13. Past'
  <2>1. Past /\ adopted \in Int /\ adopted' \in Int /\ started \in Int /\ \A a \in Actions : a \in Int
    BY <1>1 DEF PatientInv, ActTypes, Actions
  <2>2. Posted = {m}
    BY <1>1, Takes
  <2>3. CASE m.type # "started" /\ adopted' = adopted
    <3>1. \A a \in Actions : ~(adopted < a /\ a <= started)
      BY <1>3, <2>1, <2>2, <2>3 DEF Past
    <3> QED
      BY <2>1, <2>3, <3>1 DEF Past
  <2>4. CASE m.type = "started" /\ adopted' = started
    <3>1. ASSUME NEW a \in Actions, a < adopted'
          PROVE  ~Running(job[a])
      <4>1. CASE a < adopted
        BY <2>1, <4>1 DEF Past
      <4>2. CASE a = adopted
        <5>1. InFlight(a) = {} /\ waiting[a] = 0
          BY <1>3, <2>2, <2>4 DEF InFlight
        <5> QED
          BY <1>1, <4>2, <5>1 DEF Display
      <4>3. CASE adopted < a
        BY <2>1, <2>4, <3>1, <4>3 DEF Past
      <4> QED
        BY <2>1, <4>1, <4>2, <4>3
    <3>2. \A a \in Actions : ~(adopted' < a /\ a <= started)
      BY <2>1, <2>4
    <3> QED
      BY <3>1, <3>2 DEF Past
  <2> QED
    BY <2>3, <2>4
<1> QED
  BY <1>7, <1>9, <1>10, <1>11, <1>12, <1>13 DEF PatientInv

\* What Update takes from the inbox, and what it means for the action on display.
LEMMA Taken ==
    ASSUME PatientInv, NEW m \in Posted, Take(m)
    PROVE  /\ \A a \in Actions : waiting[a] = 0
           /\ m.type = "started" =>
                /\ m.by \in Actions /\ m.by = started /\ adopted < m.by
                /\ job[m.by].phase \in {"producing", "ended"}
           /\ m.type # "started" =>
                \/ /\ m.type \in {"speed", "error"}
                   /\ \A a \in Actions : InFlight(a) = {}
                   /\ \A a \in Actions : a = adopted => stream[a] = <<>> /\ ~Running(job[a])
                \/ /\ m.by \in Actions /\ m.by = active /\ m.by = adopted
                   /\ InFlight(m.by) = {m}
                   /\ HandOK(m.by, job[m.by], done[m.by], closed[m.by], stream[m.by], m)
<1>1. ActTypes /\ Alone /\ Lines /\ Turns /\ Display
  BY DEF PatientInv
<1>2. inbox # EmptyBag /\ Posted = {m}
  BY <1>1, Takes
<1>3. \A a \in Actions : waiting[a] = 0
  BY <1>1, <1>2 DEF ActTypes, Alone
<1>4. ASSUME m.type # "started", m.by = 0
      PROVE  /\ \A a \in Actions : InFlight(a) = {}
             /\ \A a \in Actions : a = adopted => stream[a] = <<>> /\ ~Running(job[a])
  <2>1. \A a \in Actions : InFlight(a) = {}
    BY <1>2, <1>4 DEF InFlight, Actions
  <2> QED
    BY <1>1, <1>3, <2>1 DEF Display
<1>5. ASSUME m.type # "started", m.by \in Actions, m.by = active
      PROVE  /\ m.by = adopted /\ InFlight(m.by) = {m}
             /\ HandOK(m.by, job[m.by], done[m.by], closed[m.by], stream[m.by], m)
  <2>1. InFlight(m.by) = {m}
    BY <1>2, <1>5 DEF InFlight
  <2> QED
    BY <1>1, <1>5, <2>1 DEF ActTypes, Actions, Lines, ActionOK
<1>6. m.type = "started" => /\ m.by \in Actions /\ m.by = started /\ adopted < m.by
                            /\ job[m.by].phase \in {"producing", "ended"}
  BY <1>1 DEF Turns
<1>7. m.type # "started" => \/ m.type \in {"speed", "error"} /\ m.by = 0
                            \/ m.by \in Actions /\ m.by = active
  BY <1>1 DEF Turns
<1> QED
  BY <1>3, <1>4, <1>5, <1>6, <1>7

UpdateKeepsOthers ==
    UNCHANGED <<user, job, stream, closed, started, speedtests>>

LEMMA OnStartedKeeps ==
    ASSUME PatientInv, NEW m \in Posted, Take(m), UpdateKeepsOthers, OnStarted(m)
    PROVE  PatientInv'
<1>1. ActTypes /\ Turns
  BY DEF PatientInv
<1>2. PICK a \in Actions : /\ a = m.by /\ a = started /\ adopted < a
                           /\ job[a].phase \in {"producing", "ended"}
  BY Taken DEF OnStarted
<1>3. /\ done' = CancelActive /\ active' = a /\ adopted' = a /\ shown' = <<>> /\ processed' = 0
      /\ waiting' = [waiting EXCEPT ![a] = @ + 1]
  BY <1>2 DEF OnStarted
<1>4. waiting'[a] = 1
  BY <1>1, <1>3, Taken DEF ActTypes
<1>5. PICK j \in Job, d \in BOOLEAN, s \in Seq(StreamMessage) :
        j = job[a] /\ d = done'[a] /\ s = stream[a]
  BY <1>1, <1>3, CancelType DEF ActTypes
<1>6. Unread(j, d, s)
  BY <1>1, <1>2, <1>3, <1>5, CancelKeeps DEF Turns
<1>7. ShowsOK(j, d, s, {}, <<>>, 0)
  BY <1>2, <1>5, <1>6, StartShown
<1>8. a \in 0..started /\ adopted <= a
  BY <1>1, <1>2 DEF ActTypes, Actions
<1>9. shown' \in Seq(Row) /\ DOMAIN shown' = {}
  BY <1>3
<1>10. m.type = "started" /\ adopted' = started
  BY <1>2, <1>3 DEF OnStarted
<1> QED
  BY <1>2, <1>3, <1>4, <1>5, <1>7, <1>8, <1>9, <1>10, UpdateFrame DEF UpdateKeepsOthers

LEMMA OnResultKeeps ==
    ASSUME PatientInv, NEW m \in Posted, Take(m), UpdateKeepsOthers, OnResult(m)
    PROVE  PatientInv'
<1>1. ActTypes /\ Lines /\ Display
  BY DEF PatientInv
<1>2. PICK a \in Actions : /\ a = m.by /\ a = active /\ a = adopted /\ InFlight(a) = {m}
                           /\ m.type = "result"
  BY Taken DEF OnResult
<1>3. PICK j \in Job, d \in BOOLEAN, c \in BOOLEAN, s \in Seq(StreamMessage),
           rows \in Seq(Row), count \in {processed} :
        /\ j = job[a] /\ d = done[a] /\ c = closed[a] /\ s = stream[a]
        /\ rows = shown
  <2> HIDE DEF Job, StreamMessage, Row
  <2> QED
    BY <1>1 DEF ActTypes
<1>4. ActionOK(a, j, d, c, s, {m}) /\ ShowsOK(j, d, s, {m}, rows, count)
  BY <1>1, <1>2, <1>3 DEF Lines, Display
<1> DEFINE new == [by |-> m.by, endpoint |-> m.number]
           rows2 == Append(rows, new)
<1>5. /\ rows2 \in Seq(Row) /\ \A i \in DOMAIN rows : rows[i].endpoint # m.number
      /\ ShowsOK(j, d, s, {}, rows2, m.number)
  BY <1>2, <1>4, ResultShown
<1>6. shown' = rows2 /\ processed' = m.number
  <2>1. {i \in DOMAIN shown : shown[i].endpoint = m.number} = {}
    BY <1>3, <1>5
  <2> QED
    BY <1>3, <2>1 DEF OnResult
<1>7. /\ UNCHANGED <<active, done, adopted>> /\ waiting' = [waiting EXCEPT ![a] = @ + 1]
      /\ waiting'[a] = 1
  <2>1. active # 0
    BY <1>2 DEF Actions
  <2>2. UNCHANGED <<active, done, adopted>> /\ waiting' = [waiting EXCEPT ![a] = @ + 1]
    BY <1>2, <2>1 DEF OnResult
  <2> QED
    BY <1>1, <2>2, Taken DEF ActTypes
<1>8. \A i \in DOMAIN rows2 : rows2[i].by = a
  <2>1. PICK n \in Nat : n = Len(rows) /\ DOMAIN rows = 1..n
    BY LenProperties
  <2>2. new \in Row /\ new.by = a
    BY <1>2, <1>4 DEF ActionOK, HandOK, Row
  <2> HIDE DEF new
  <2>3. /\ DOMAIN rows2 = 1..(n + 1) /\ rows2[n + 1] = new
        /\ \A i \in 1..n : rows2[i] = rows[i]
    BY <2>1, <2>2, AppendProperties, LenProperties
  <2>4. \A i \in 1..n : rows[i].by = a
    BY <1>1, <1>2, <1>3, <2>1 DEF Display
  <2> HIDE DEF rows2
  <2>5. \A i \in 1..(n + 1) : i \in 1..n \/ i = n + 1
    OBVIOUS
  <2> QED
    BY <2>2, <2>3, <2>4, <2>5
<1> HIDE DEF rows2
<1>9. job[a].phase \in {"producing", "ended"}
  BY <1>1, <1>2 DEF Display
<1>10. active' \in {0, adopted'} /\ adopted' \in 0..started /\ adopted <= adopted'
  BY <1>1, <1>7 DEF ActTypes
<1>11. ASSUME NEW b \in Actions, b = adopted'
       PROVE  /\ job[b].phase \in {"producing", "ended"}
              /\ ShowsOK(job[b], done'[b], stream[b], {}, shown', processed')
              /\ waiting'[b] = 1
  <2>1. b = a /\ done'[a] = d
    BY <1>2, <1>3, <1>7, <1>11
  <2> QED
    BY <1>3, <1>5, <1>6, <1>7, <1>9, <2>1
<1>12. \A i \in DOMAIN shown' : shown'[i].by = adopted'
  BY <1>2, <1>6, <1>7, <1>8
<1>13. active' \in Actions /\ waiting' = [waiting EXCEPT ![active'] = @ + 1]
  BY <1>2, <1>7
<1>14. shown' \in Seq(Row) /\ UNCHANGED done
  BY <1>5, <1>6, <1>7
<1>15. m.type # "started" /\ adopted' = adopted
  BY DEF OnResult
<1> QED
  BY <1>10, <1>11, <1>12, <1>13, <1>14, <1>15, UpdateFrame DEF UpdateKeepsOthers

\* After its last word an action has nothing left to say.
LEMMA LastWord ==
    ASSUME ActTypes, NEW a \in Actions, NEW d, NEW c, NEW m,
           HandOK(a, job[a], d, c, stream[a], m), m.type # "result"
    PROVE  stream[a] = <<>> /\ ~Running(job[a])
<1>1. stream[a] = <<>> /\ job[a].step > LastStep(job[a])
  BY DEF HandOK
<1>2. PICK j \in Job : j = job[a]
  BY DEF ActTypes
<1>3. PICK step \in Nat, last \in Nat : step = j.step /\ last = LastStep(j)
  BY LastStepType DEF Job
<1> QED
  BY <1>1, <1>2, <1>3 DEF Running

\* A message that lets go of the action on display.
LEMMA LetsGo ==
    ASSUME PatientInv, NEW m \in Posted, Take(m), UpdateKeepsOthers,
           m.type \notin {"started", "result"},
           done' = CancelActive \/ UNCHANGED done, UNCHANGED <<adopted, waiting>>, active' = 0,
           shown' \in Seq(Row), \A i \in DOMAIN shown' : shown'[i].by = adopted,
           \A a \in Actions : a = adopted =>
              ShowsOK(job[a], done'[a], stream[a], {}, shown', processed')
    PROVE  PatientInv'
<1>1. ActTypes /\ Display
  BY DEF PatientInv
<1>2. \A a \in Actions : a = adopted => stream[a] = <<>> /\ ~Running(job[a])
  BY <1>1, Taken, LastWord
<1>3. adopted' = adopted /\ adopted \in 0..started /\ adopted <= adopted
  BY <1>1 DEF ActTypes
<1>4. ASSUME NEW a \in Actions, a = adopted'
      PROVE  /\ job[a].phase \in {"producing", "ended"}
             /\ ShowsOK(job[a], done'[a], stream[a], {}, shown', processed')
             /\ stream[a] # <<>> \/ Running(job[a]) => waiting'[a] = 1
  BY <1>1, <1>2, <1>3, <1>4 DEF Display
<1> QED
  BY <1>3, <1>4, UpdateFrame DEF UpdateKeepsOthers

\* The messages of a speed test, and what is said of the action on display
\* while nothing of it is on its way.
LEMMA ShowsWithout ==
    ASSUME PatientInv, \A a \in Actions : InFlight(a) = {}, done' = CancelActive \/ UNCHANGED done,
           NEW a \in Actions, a = adopted
    PROVE  ShowsOK(job[a], done'[a], stream[a], {}, shown, processed)
<1>1. ActTypes /\ Display
  BY DEF PatientInv
<1>2. ShowsOK(job[a], done[a], stream[a], {}, shown, processed)
  BY <1>1 DEF Display
<1> QED
  BY <1>1, <1>2, CancelKeeps

LEMMA OnCompleteKeeps ==
    ASSUME PatientInv, NEW m \in Posted, Take(m), UpdateKeepsOthers, OnComplete(m)
    PROVE  PatientInv'
<1>1. ActTypes /\ Lines /\ Display
  BY DEF PatientInv
<1>2. PICK a \in Actions : a = m.by /\ a = adopted /\ InFlight(a) = {m} /\ m.type = "complete"
  BY Taken DEF OnComplete
<1>3. PICK j \in Job, d \in BOOLEAN, c \in BOOLEAN, s \in Seq(StreamMessage) :
        j = job[a] /\ d = done[a] /\ c = closed[a] /\ s = stream[a]
  BY <1>1 DEF ActTypes
<1>4. ActionOK(a, j, d, c, s, {m}) /\ ShowsOK(j, d, s, {m}, shown, processed)
  BY <1>1, <1>2, <1>3 DEF Lines, Display
<1>5. ShowsOK(j, d, s, {}, shown, m.number)
  BY <1>2, <1>4, CompleteShown
<1>6. /\ UNCHANGED <<shown, done, waiting, adopted>> /\ processed' = m.number /\ active' = 0
  BY DEF OnComplete
<1>7. shown \in Seq(Row) /\ \A i \in DOMAIN shown : shown[i].by = adopted
  BY <1>1 DEF ActTypes, Display
<1>8. \A b \in Actions : b = adopted => ShowsOK(job[b], done'[b], stream[b], {}, shown', processed')
  BY <1>2, <1>3, <1>5, <1>6
<1>9. m.type \notin {"started", "result"}
  BY <1>2
<1> QED
  BY <1>6, <1>7, <1>8, <1>9, LetsGo

LEMMA OnClosedKeeps ==
    ASSUME PatientInv, NEW m \in Posted, Take(m), UpdateKeepsOthers, OnClosed(m)
    PROVE  PatientInv'
<1>1. ActTypes /\ Lines /\ Display
  BY DEF PatientInv
<1>2. PICK a \in Actions : a = m.by /\ a = adopted /\ InFlight(a) = {m} /\ m.type = "closed"
  BY Taken DEF OnClosed
<1>3. done[a]
  BY <1>1, <1>2 DEF Lines, ActionOK, LineOK, JobOK, HandOK
<1>4. ShowsOK(job[a], done[a], stream[a], {}, shown, processed)
  <2>1. ShowsOK(job[a], done[a], stream[a], {m}, shown, processed)
    BY <1>1, <1>2 DEF Display
  <2> QED
    BY <1>3, <2>1 DEF ShowsOK
<1>5. UNCHANGED <<shown, processed, done, waiting, adopted>> /\ active' = 0
  BY DEF OnClosed
<1>6. shown \in Seq(Row) /\ \A i \in DOMAIN shown : shown[i].by = adopted
  BY <1>1 DEF ActTypes, Display
<1>7. \A b \in Actions : b = adopted => ShowsOK(job[b], done'[b], stream[b], {}, shown', processed')
  BY <1>2, <1>4, <1>5
<1>8. m.type \notin {"started", "result"}
  BY <1>2
<1> QED
  BY <1>5, <1>6, <1>7, <1>8, LetsGo

LEMMA OnErrorKeeps ==
    ASSUME PatientInv, NEW m \in Posted, Take(m), UpdateKeepsOthers, OnError(m)
    PROVE  PatientInv'
<1>1. ActTypes /\ Lines /\ Display
  BY DEF PatientInv
<1>2. /\ UNCHANGED <<shown, processed, waiting, adopted>> /\ active' = 0
      /\ done' = CancelActive /\ m.type = "error"
  BY DEF OnError
<1>3. shown \in Seq(Row) /\ \A i \in DOMAIN shown : shown[i].by = adopted
  BY <1>1 DEF ActTypes, Display
<1>4. ASSUME NEW b \in Actions, b = adopted
      PROVE  ShowsOK(job[b], done'[b], stream[b], {}, shown, processed)
  <2>1. CASE \A a \in Actions : InFlight(a) = {}
    BY <1>2, <1>4, <2>1, ShowsWithout
  <2>2. CASE ~ \A a \in Actions : InFlight(a) = {}
    <3>1. b = active /\ InFlight(b) = {m}
      BY <1>2, <1>4, <2>2, Taken
    <3>2. done'[b]
      BY <1>1, <1>2, <3>1, CancelKeeps
    <3>3. ShowsOK(job[b], done[b], stream[b], {m}, shown, processed)
      BY <1>1, <1>4, <3>1 DEF Display
    <3> QED
      BY <3>2, <3>3 DEF ShowsOK
  <2> QED
    BY <2>1, <2>2
<1>5. m.type \notin {"started", "result"}
  BY <1>2
<1>6. \A b \in Actions : b = adopted => ShowsOK(job[b], done'[b], stream[b], {}, shown', processed')
  BY <1>2, <1>4
<1> QED
  BY <1>2, <1>3, <1>5, <1>6, LetsGo

LEMMA OnReplaceKeeps ==
    ASSUME PatientInv, NEW m \in Posted, Take(m), UpdateKeepsOthers, OnReplace(m)
    PROVE  PatientInv'
<1>1. ActTypes /\ Lines /\ Display
  BY DEF PatientInv
<1>2. /\ UNCHANGED <<done, waiting, adopted>> /\ active' = 0 /\ m.type \in {"replace", "speed"}
      /\ m.type \notin {"started", "result"}
  BY DEF OnReplace
<1>3. CASE m.type = "speed"
  <2>1. \A a \in Actions : InFlight(a) = {}
    BY <1>3, Taken DEF HandOK, Content
  <2>2. UNCHANGED <<shown, processed>>
    BY <1>3 DEF OnReplace
  <2>3. shown \in Seq(Row) /\ \A i \in DOMAIN shown : shown[i].by = adopted
    BY <1>1 DEF ActTypes, Display
  <2>4. \A b \in Actions : b = adopted =>
            ShowsOK(job[b], done'[b], stream[b], {}, shown', processed')
    BY <1>2, <2>1, <2>2, ShowsWithout
  <2> QED
    BY <1>2, <2>2, <2>3, <2>4, LetsGo
<1>4. CASE m.type = "replace"
  <2>1. PICK a \in Actions : a = m.by /\ a = adopted /\ InFlight(a) = {m}
    BY <1>4, Taken
  <2>2. PICK j \in Job, d \in BOOLEAN, c \in BOOLEAN, s \in Seq(StreamMessage) :
          j = job[a] /\ d = done[a] /\ c = closed[a] /\ s = stream[a]
    BY <1>1 DEF ActTypes
  <2>3. ActionOK(a, j, d, c, s, {m})
    BY <1>1, <2>1, <2>2 DEF Lines
  <2> DEFINE rows == << [by |-> m.by, endpoint |-> 1] >>
  <2>4. rows \in Seq(Row) /\ ShowsOK(j, d, s, {}, rows, 1)
    BY <1>4, <2>3, ReplaceShown
  <2>5. shown' = rows /\ processed' = 1
    BY <1>4 DEF OnReplace
  <2>6. \A i \in DOMAIN rows : rows[i].by = adopted
    BY <2>1
  <2> HIDE DEF rows
  <2>7. \A b \in Actions : b = adopted =>
            ShowsOK(job[b], done'[b], stream[b], {}, shown', processed')
    BY <1>2, <2>1, <2>2, <2>4, <2>5
  <2>8. shown' \in Seq(Row) /\ \A i \in DOMAIN shown' : shown'[i].by = adopted
    BY <2>4, <2>5, <2>6
  <2> QED
    BY <1>2, <2>7, <2>8, LetsGo
<1> QED
  BY <1>2, <1>3, <1>4

LEMMA UpdateKeeps ==
    ASSUME PatientInv, UNCHANGED user, Update
    PROVE  PatientInv'
<1>1. UpdateKeepsOthers
  BY DEF Update, UpdateKeepsOthers
<1>2. PICK m \in Posted :
        /\ Take(m)
        /\ \/ OnStarted(m) \/ OnResult(m) \/ OnComplete(m)
           \/ OnClosed(m) \/ OnError(m) \/ OnReplace(m)
  BY DEF Update
<1> QED
  BY <1>1, <1>2, OnStartedKeeps, OnResultKeeps, OnCompleteKeeps, OnClosedKeeps, OnErrorKeeps,
     OnReplaceKeeps

LEMMA ActInit ==
    ASSUME Init
    PROVE  ActInv
<1>1. user \in Users
  BY DEF Init
<1>2. Posted = {} /\ \A a \in Actions : InFlight(a) = {}
  BY NonePosted DEF Init, InFlight
<1>3. ActTypes
  <2>1. NoJob \in Job
    BY DEF NoJob, Job
  <2>2. 0 \in 0..MaxActions
    BY BoundsAssumption
  <2> QED
    BY <2>1, <2>2 DEF Init, ActTypes
<1>4. \A a \in Actions : /\ job[a].phase = "none" /\ stream[a] = <<>> /\ ~closed[a]
                         /\ waiting[a] = 0 /\ ~Launching(a)
  BY DEF Init, NoJob, Launching
<1>5. Alone
  BY <1>4 DEF Init, Alone
<1>6. Lines
  BY <1>2, <1>4 DEF Lines, ActionOK, LineOK, JobOK, Produced, Rising, Gapless
<1>7. Turns
  BY <1>2, <1>4 DEF Turns, Unread
<1>8. Display
  <2>1. \A a \in Actions : a # adopted
    BY DEF Init, Actions
  <2>2. \A i \in DOMAIN shown : shown[i].by = adopted
    BY DEF Init
  <2> QED
    BY <2>1, <2>2 DEF Display
<1>9. Past
  BY DEF Init, Past, Actions
<1> QED
  BY <1>1, <1>3, <1>5, <1>6, <1>7, <1>8, <1>9 DEF ActInv, PatientInv

LEMMA ActStep ==
    ASSUME ActInv, [Next]_vars
    PROVE  ActInv'
<1>1. user' = user /\ user \in Users
  BY DEF ActInv, Next, vars
<1>2. SUFFICES ASSUME user.patient PROVE PatientInv'
  BY <1>1 DEF ActInv
<1>3. PatientInv
  BY <1>2 DEF ActInv
<1>4. CASE Key
  BY <1>1, <1>2, <1>3, <1>4, LooksKeeps, StartSpeedtestKeeps, QuitKeeps, EnterKeeps DEF Key
<1>5. CASE Update \/ LoopEnds
  BY <1>1, <1>3, <1>5, UpdateKeeps, LooksKeeps
<1>6. CASE SpeedtestEnds
  BY <1>1, <1>3, <1>6, SpeedtestEndsKeeps
<1>7. ASSUME NEW a \in Actions, Launch(a) \/ ProducerStep(a) \/ Deadline(a) \/ WaiterReads(a)
      PROVE  PatientInv'
  BY <1>1, <1>3, <1>7, LaunchKeeps, ProducerStepKeeps, WaiterReadsKeeps
<1>8. CASE UNCHANGED vars
  <2>1. /\ UNCHANGED <<user, active, shown, processed, producerVars, started, waiting,
                       speedtests, inbox, adopted>>
    BY <1>8 DEF vars, changing, uiVars, producerVars
  <2>2. Posted' = Posted /\ \A a \in Actions : InFlight(a)' = InFlight(a)
    BY <2>1 DEF Posted, InFlight
  <2>3. Lines' /\ Display' /\ Turns' /\ Past'
    BY <1>3, <2>1, <2>2, StaysSo
  <2>4. ActTypes'
    BY <1>3, <2>1 DEF PatientInv, ActTypes, producerVars
  <2>5. Alone'
    BY <1>3, <2>1, <2>2 DEF PatientInv, Alone, Launching, producerVars
  <2> QED
    BY <2>3, <2>4, <2>5 DEF PatientInv
<1> QED
  BY <1>4, <1>5, <1>6, <1>7, <1>8 DEF Next

\* Whatever a patient user starts, the UI, the producers and the readers stay in
\* step: types, Alone, Lines, Turns, Display and Past hold for ever.
THEOREM ActInvariant == Spec => []ActInv
<1>1. Init => ActInv
  BY ActInit
<1>2. ActInv /\ [Next]_vars => ActInv'
  BY ActStep
<1> QED
  BY <1>1, <1>2, PTL DEF Spec

LEMMA OnDisplay ==
    ASSUME ActTypes, adopted # 0
    PROVE  adopted \in Actions
BY BoundsAssumption DEF ActTypes, Actions

\* While the action on display has something to say, somebody reads its stream
\* or Update is about to hear it (view.go's handlers ask for the next message).
THEOREM ReaderIsNeverLost == Spec => []ReaderNeverLost
<1>1. ActInv => ReaderNeverLost
  <2> SUFFICES ASSUME ActInv, user.patient, adopted # 0, Unheard(adopted)
               PROVE  waiting[adopted] > 0 \/ InFlight(adopted) # {}
    BY DEF ReaderNeverLost
  <2>1. ActTypes /\ Display
    BY DEF ActInv, PatientInv
  <2>2. PICK a \in Actions : a = adopted
    BY <2>1, OnDisplay
  <2>3. stream[a] # <<>> \/ Running(job[a])
    BY <2>1, <2>2, RunningIs DEF Unheard
  <2> QED
    BY <2>1, <2>2, <2>3 DEF Display
<1> QED
  BY <1>1, ActInvariant, PTL

\* A stream has one reader at a time, and what it has read is one message, so
\* messages are handled in the order they were sent.
THEOREM OneReaderOnly == Spec => []OneReader
<1>1. ActInv => OneReader
  <2> SUFFICES ASSUME ActInv, user.patient, NEW a \in Actions
               PROVE  \/ waiting[a] = 1 /\ InFlight(a) = {}
                      \/ waiting[a] = 0 /\ \A m, n \in InFlight(a) : m = n /\ inbox[m] = 1
    BY DEF OneReader
  <2>1. ActTypes /\ Alone
    BY DEF ActInv, PatientInv
  <2>2. CASE waiting[a] # 0
    <3>1. waiting[a] = 1 /\ inbox = EmptyBag
      BY <2>1, <2>2 DEF ActTypes, Alone
    <3> QED
      BY <3>1, NonePosted DEF InFlight
  <2>3. CASE waiting[a] = 0
    <3> SUFFICES ASSUME NEW m \in InFlight(a), NEW n \in InFlight(a)
                 PROVE  m = n /\ inbox[m] = 1
      BY <2>3
    <3>1. m \in Posted /\ n \in Posted
      BY DEF InFlight
    <3>2. inbox # EmptyBag
      BY <3>1, NonePosted
    <3>3. PICK k \in Posted : inbox = SetToBag({k})
      BY <2>1, <3>2 DEF Alone
    <3> QED
      BY <3>1, <3>3 DEF Posted, BagToSet, SetToBag
  <2> QED
    BY <2>2, <2>3
<1> QED
  BY <1>1, ActInvariant, PTL

\* The rows are those of the action on display, in the order they were produced,
\* and the progress is that of the last row, unless the action's time was up.
THEOREM RowsMatchAction == Spec => []ListMatchesAction
<1>1. ActInv => ListMatchesAction
  <2> SUFFICES ASSUME ActInv, user.patient
               PROVE  /\ \A i \in DOMAIN shown : shown[i].by = adopted
                      /\ \A i, j \in DOMAIN shown : i < j => shown[i].endpoint < shown[j].endpoint
                      /\ adopted # 0 /\ ~done[adopted] => processed = Len(shown)
    BY DEF ListMatchesAction
  <2>1. ActTypes /\ Display
    BY DEF ActInv, PatientInv
  <2>2. \A i \in DOMAIN shown : shown[i].by = adopted
    BY <2>1 DEF Display
  <2>3. CASE adopted = 0
    <3>1. DOMAIN shown = {}
      <4> SUFFICES ASSUME NEW i \in DOMAIN shown PROVE FALSE
        OBVIOUS
      <4>1. shown[i] \in Row
        BY <2>1, ElementOfSeq, LenProperties DEF ActTypes
      <4> QED
        BY <2>2, <2>3, <4>1 DEF Row, Actions
    <3> QED
      BY <2>3, <3>1
  <2>4. CASE adopted # 0
    <3>1. PICK a \in Actions : a = adopted
      BY <2>1, <2>4, OnDisplay
    <3>2. ShowsOK(job[a], done[a], stream[a], InFlight(a), shown, processed)
      BY <2>1, <3>1 DEF Display
    <3> QED
      BY <2>2, <3>1, <3>2 DEF ShowsOK
  <2> QED
    BY <2>3, <2>4
<1> QED
  BY <1>1, ActInvariant, PTL

\* When a patient user presses q, every action the UI has taken on is cancelled
\* or has nothing left to produce (handleKey cancels what is active, and what is
\* not active any more has come to its end).
THEOREM QuittingCancelsActions == Spec => QuitCancels
<1>1. ActInv /\ [Next]_vars =>
        [user.patient /\ Quits =>
            \A a \in Actions : TakenOn(a) /\ ToProduce(a) => done'[a]]_vars
  <2> SUFFICES ASSUME ActInv, Next, user.patient, Quits,
                      NEW a \in Actions, TakenOn(a), ToProduce(a)
               PROVE  done'[a]
    BY DEF Quits, vars, changing, uiVars
  <2>1. ActTypes /\ Turns /\ Display /\ Past
    BY DEF ActInv, PatientInv
  <2>2. Quit
    BY DEF Quits, Next, Key, OpenAction, Enter, SwitchMode, DeduplicateCurrent, StartSpeedtest,
           Update, LoopEnds, SpeedtestEnds, Launch, ProducerStep, SourceFails, SendDelivered,
           SendDropped, BatchCutShort, ProducerEnds, Deadline, WaiterReads, uiVars
  <2>3. Running(job[a])
    BY <2>1, RunningIs
  <2>4. a <= started /\ ~Launching(a)
    BY <2>1 DEF TakenOn, Turns, Launching, ActTypes, Actions
  <2>5. a = adopted
    <3>1. ~(a < adopted)
      BY <2>1, <2>3 DEF Past
    <3>2. ~(adopted < a)
      <4> SUFFICES ASSUME adopted < a PROVE FALSE
        OBVIOUS
      <4>1. PICK m \in Posted : a = started /\ m.type = "started"
        BY <2>1, <2>4 DEF Past
      <4>2. m.by = a
        BY <2>1, <4>1 DEF Turns
      <4> QED
        BY <4>1, <4>2 DEF TakenOn
    <3> QED
      BY <2>1, <3>1, <3>2 DEF ActTypes, Actions
  <2>7. waiting[a] = 1 \/ InFlight(a) # {}
    BY <2>1, <2>3, <2>5 DEF Display
  <2>8. a = active
    BY <2>1, <2>7 DEF Turns, InFlight, Actions
  <2> QED
    BY <2>2, <2>8 DEF Quit, CancelActive
<1> QED
  BY <1>1, ActInvariant, PTL DEF Spec, QuitCancels
=============================================================================
