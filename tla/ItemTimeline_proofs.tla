------------------------ MODULE ItemTimeline_proofs ------------------------
(***************************************************************************)
(* Theorems about ItemTimeline: for any endpoints, providers, pools,       *)
(* limits, pauses and rates, a question is checked at most once a round,   *)
(* a check sends at most PerCheck requests, no provider is reported to     *)
(* have failed without having been asked, a worker is done with its item   *)
(* in time, and the limiters hold.                                         *)
(***************************************************************************)
EXTENDS ItemTimeline, SequenceTheorems, FiniteSetTheorems, TLAPS

Early    == {"queued", "dialing", "handshake", "resolving"}
Unasked  == {"none", "turn", "waiting", "backoff"}
Checking == {"requesting", "reading", "sleeping"}
InRound  == {"turn", "waiting"} \cup Checking
Settled  == {"answered", "failed", "pending"}

ItemRecord == [at: Early \cup {"asking", "checked"}, until: Int, deadline: Int, started: Int]
AskRecord  == [at: Unasked \cup Checking \cup Settled, until: Int, deadline: Int,
               attempt: Nat, round: {1, 2}]

Types ==
    /\ batch \in Batches
    /\ now \in Int
    /\ item \in [Items -> ItemRecord]
    /\ ask \in [Questions -> AskRecord]
    /\ next \in [Providers -> Int]
    /\ sent \in [Questions -> Seq(Nat)]

\* Where a question stands in the sequence of its checks and requests.
Counted(question, requests) ==
    /\ Len(requests) <= question.round
    /\ \A check \in 1..Len(requests) : requests[check] <= PerCheck
    /\ question.at \in Unasked => Len(requests) < question.round
    /\ question.at \in Checking =>
          /\ Len(requests) > 0
          /\ question.attempt <= Len(RateLimitDelays)
          /\ requests[Len(requests)] <= question.attempt + 1
    /\ question.at = "sleeping" => question.attempt < Len(RateLimitDelays)
    /\ question.at \in {"none", "pending"} => question.round = 1
    /\ question.at = "backoff" => question.round = 2

Went(requests) == \E check \in 1..Len(requests) : requests[check] > 0

\* What is being checked in time, or retried, has been sent.
Asked(question, requests, time) ==
    /\ question.at = "failed" => Went(requests)
    /\ question.at \in Checking /\ (question.round = 2 \/ time < question.deadline) => Went(requests)

Counts == \A q \in Questions : Counted(ask[q], sent[q]) /\ Asked(ask[q], sent[q], now)

\* The providers of an item are asked one after the other.
InTurn ==
    /\ \A i \in Items : item[i].at \in Early => \A p \in Providers : ask[<<i, p>>].at = "none"
    /\ \A i \in Items : \A p, r \in Providers :
          p < r /\ ask[<<i, p>>].at \in InRound /\ ask[<<i, p>>].round = 1
              => ask[<<i, r>>].at = "none"

\* The inductive invariant.
IInv == Types /\ Counts /\ InTurn

LEMMA InitInvariant == Init => IInv
<1> SUFFICES ASSUME Init PROVE IInv
  OBVIOUS
<1>1. Types
  <2>1. NotStarted \in ItemRecord
    BY DEF NotStarted, ItemRecord, Early
  <2>2. NotAsked \in AskRecord
    BY DEF NotAsked, AskRecord, Unasked
  <2> QED
    BY <2>1, <2>2 DEF Init, Types
<1>2. Counts
  <2> SUFFICES ASSUME NEW q \in Questions PROVE Counted(ask[q], sent[q]) /\ Asked(ask[q], sent[q], now)
    BY DEF Counts
  <2>1. ask[q] = NotAsked /\ sent[q] = <<>>
    BY DEF Init
  <2> QED
    BY <2>1 DEF Counted, Asked, NotAsked, Unasked, Checking
<1>3. InTurn
  <2>1. \A q \in Questions : ask[q].at = "none"
    BY DEF Init, NotAsked
  <2> QED
    BY <2>1 DEF InTurn, InRound, Checking, Questions
<1> QED
  BY <1>1, <1>2, <1>3 DEF IInv

-----------------------------------------------------------------------------
(* Changes to one question.                                                *)

\* No item goes back to where nobody has been asked about it.
ItemsGoOn ==
    /\ item' \in [Items -> ItemRecord]
    /\ \A i \in Items : item'[i].at \in Early => item[i].at \in Early

LEMMA ItemsUnchanged == IInv /\ item' = item => ItemsGoOn
BY DEF IInv, Types, ItemsGoOn

LEMMA CheckedGoesOn ==
    ASSUME IInv, NEW i \in Items, Checked(i)
    PROVE  ItemsGoOn
<1>1. "checked" \notin Early
  BY DEF Early
<1>2. item[i] \in ItemRecord /\ now \in Int
  BY DEF IInv, Types
<1>3. [item[i] EXCEPT !.at = "checked", !.until = now] \in ItemRecord
  BY <1>2 DEF ItemRecord
<1>4. item' = [item EXCEPT ![i] = [item[i] EXCEPT !.at = "checked", !.until = now]]
  BY DEF Checked, ItemMoves, IInv, Types
<1> QED
  BY <1>1, <1>2, <1>3, <1>4 DEF IInv, Types, ItemsGoOn, ItemRecord

\* Only the question q changes, and what it changes to is in order.
LEMMA QuestionChanges ==
    ASSUME IInv, batch' = batch, now' = now, next' \in [Providers -> Int],
           NEW q \in Questions, NEW question \in AskRecord, NEW requests \in Seq(Nat),
           ask' = [ask EXCEPT ![q] = question],
           sent' = [sent EXCEPT ![q] = requests],
           ItemsGoOn,
           Counted(question, requests), Asked(question, requests, now),
           question.at = "none" <=> ask[q].at = "none",
           question.at \in InRound /\ question.round = 1
               => ask[q].at \in InRound /\ ask[q].round = 1
    PROVE  IInv'
<1>0. /\ Questions' = Questions /\ Items' = Items /\ Providers' = Providers
      /\ Questions = Items \X Providers
  BY DEF Questions, Items, Providers, Endpoints, ProviderCount
<1>1. Types'
  BY <1>0 DEF IInv, Types, ItemsGoOn
<1>2. \A r \in Questions : ask'[r] = IF r = q THEN question ELSE ask[r]
  BY DEF IInv, Types
<1>3. \A r \in Questions : sent'[r] = IF r = q THEN requests ELSE sent[r]
  BY DEF IInv, Types
<1>4. Counts'
  BY <1>0, <1>2, <1>3 DEF IInv, Counts, Counted, Asked, Went, PerCheck
<1>5. InTurn'
  BY <1>0, <1>2 DEF IInv, InTurn, ItemsGoOn
<1> QED
  BY <1>1, <1>4, <1>5 DEF IInv

\* A question of the first round is over when it settles, and so is one of the
\* second; then the next one of the first round comes up.
LEMMA QuestionOver ==
    ASSUME IInv, batch' = batch, now' = now, next' \in [Providers -> Int],
           NEW q \in Questions, NEW outcome \in Settled,
           Over(q, outcome), sent' = sent,
           ask[q].at \in InRound,
           outcome = "failed" \/ (outcome = "pending" /\ ask[q].round = 2) => Went(sent[q])
    PROVE  IInv'
<1> DEFINE at       == IF outcome = "pending" /\ ask[q].round = 2 THEN "failed" ELSE outcome
           closed   == [ask[q] EXCEPT !.at = at]
           after    == <<q[1], q[2] + 1>>
<1>0. /\ Questions' = Questions /\ Items' = Items /\ Providers' = Providers
      /\ Questions = Items \X Providers
  BY DEF Questions, Items, Providers, Endpoints, ProviderCount
<1>1. q[1] \in Items /\ q[2] \in Providers /\ q = <<q[1], q[2]>>
  BY <1>0
<1>2. ask[q] \in AskRecord /\ sent[q] \in Seq(Nat) /\ Counted(ask[q], sent[q])
  BY DEF IInv, Types, Counts
<1>3. /\ at \in Settled
      /\ at = "pending" => ask[q].round = 1
      /\ at = "failed" => Went(sent[q])
  BY <1>2 DEF AskRecord, Settled
<1>4. /\ closed \in AskRecord /\ closed.at = at
      /\ closed.round = ask[q].round
  BY <1>2, <1>3 DEF AskRecord
<1> HIDE DEF at, closed
<1>5. Counted(closed, sent[q]) /\ Asked(closed, sent[q], now)
  BY <1>2, <1>3, <1>4 DEF Counted, Asked, Settled, Unasked, Checking
<1>6. closed.at # "none" /\ closed.at \notin InRound /\ ask[q].at # "none"
  BY <1>3, <1>4 DEF Settled, InRound, Checking
<1>7. sent' = [sent EXCEPT ![q] = sent[q]]
  BY DEF IInv, Types
<1>8. ASSUME ask' = [ask EXCEPT ![q] = closed], ItemsGoOn
      PROVE  IInv'
  BY <1>2, <1>4, <1>8, <1>5, <1>6, <1>7, QuestionChanges
<1>9. CASE ask[q].round = 2
  <2>1. ask' = [ask EXCEPT ![q] = closed] /\ item' = item
    BY <1>9 DEF Over, IInv, Types, closed, at
  <2> QED
    BY <2>1, <1>8, ItemsUnchanged
<1>10. CASE ask[q].round = 1 /\ ~(q[2] < ProviderCount)
  <2>1. ask' = [ask EXCEPT ![q] = closed] /\ Checked(q[1])
    BY <1>10 DEF Over, IInv, Types, closed, at
  <2> QED
    BY <2>1, <1>1, <1>8, CheckedGoesOn
<1>11. CASE ask[q].round = 1 /\ q[2] < ProviderCount
  <2> DEFINE turned == [ask[after] EXCEPT !.at = "turn", !.until = now, !.deadline = item[q[1]].deadline]
  <2>1. item' = item /\ item[q[1]] \in ItemRecord /\ now \in Int
    BY <1>1, <1>11 DEF Over, IInv, Types
  <2>2. after \in Questions /\ after # q
    BY <1>0, <1>1, <1>11, BatchesAssumption DEF IInv, Types, Providers, ProviderCount
  <2>3. /\ ask[after].at = "none" /\ ask[after] \in AskRecord
        /\ Counted(ask[after], sent[after])
    BY <1>1, <1>11, <2>2, <1>0 DEF IInv, InTurn, Types, Counts, Providers
  <2>4. turned \in AskRecord /\ turned.at = "turn" /\ turned.round = ask[after].round
    BY <2>1, <2>3 DEF AskRecord, ItemRecord, Unasked
  <2>5. ask' = [ask EXCEPT ![q] = closed, ![after] = turned]
    <3> DEFINE first == [ask EXCEPT ![q] = closed]
    <3> DEFINE over == [ask EXCEPT ![q].at = IF outcome = "pending" /\ ask[q].round = 2
                                              THEN "failed" ELSE outcome]
    <3>1. over = first
      BY DEF closed, at, IInv, Types
    <3>2. first \in [Questions -> AskRecord] /\ first[after] = ask[after]
      BY <1>4, <2>2 DEF IInv, Types
    <3>3. ask' = [first EXCEPT ![after].at = "turn", ![after].until = now,
                               ![after].deadline = item[q[1]].deadline]
      <4>1. ask' = [over EXCEPT ![after].at = "turn", ![after].until = now,
                                ![after].deadline = item[q[1]].deadline]
        BY <1>11 DEF Over
      <4> HIDE DEF first, over
      <4> QED
        BY <3>1, <4>1
    <3> HIDE DEF first
    <3>4. ask' = [first EXCEPT ![after] = turned]
      BY <2>2, <3>2, <3>3
    <3> QED
      BY <3>4 DEF first
  <2> HIDE DEF turned, after
  <2>6. Counted(turned, sent[after]) /\ Asked(turned, sent[after], now)
    BY <2>3, <2>4 DEF Counted, Asked, Unasked, Checking
  <2>7. \A r \in Questions : ask'[r] = IF r = q THEN closed ELSE IF r = after THEN turned ELSE ask[r]
    BY <2>2, <2>5 DEF IInv, Types
  <2>8. Types'
    BY <1>0, <1>4, <2>1, <2>4, <2>5 DEF IInv, Types
  <2>9. Counts'
    BY <1>0, <1>5, <2>6, <2>7 DEF IInv, Counts
  <2>10. InTurn'
    <3> USE DEF after
    <3>1. item[q[1]].at \notin Early
      BY <1>1, <1>6 DEF IInv, InTurn
    <3>2. \A i \in Items : item'[i].at \in Early => \A p \in Providers : ask'[<<i, p>>].at = "none"
      <4> SUFFICES ASSUME NEW i \in Items, item[i].at \in Early, NEW p \in Providers
                   PROVE  ask'[<<i, p>>].at = "none"
        BY <1>0, <2>1
      <4>1. <<i, p>> # q /\ <<i, p>> # after
        BY <1>1, <3>1
      <4>2. ask'[<<i, p>>] = ask[<<i, p>>]
        BY <1>0, <2>7, <4>1
      <4> QED
        BY <4>2 DEF IInv, InTurn
    <3>3. ASSUME NEW i \in Items, NEW p \in Providers, NEW r \in Providers, p < r,
                 ask'[<<i, p>>].at \in InRound, ask'[<<i, p>>].round = 1
          PROVE  ask'[<<i, r>>].at = "none"
      <4> USE DEF Providers
      <4>1. <<i, p>> # q
        BY <1>0, <1>1, <1>6, <2>7, <3>3
      <4>2. CASE <<i, p>> = after
        <5>1. i = q[1] /\ p = q[2] + 1 /\ q[2] < r /\ <<i, r>> # q /\ <<i, r>> # after
          BY <1>1, <3>3, <4>2
        <5>2. ask[<<i, r>>].at = "none"
          BY <5>1, <1>1, <1>11 DEF IInv, InTurn
        <5> QED
          BY <5>1, <5>2, <1>0, <2>7
      <4>3. CASE <<i, p>> # after
        <5>1. ask[<<i, p>>].at \in InRound /\ ask[<<i, p>>].round = 1
          BY <1>0, <4>1, <4>3, <2>7, <3>3
        <5>2. ask[<<i, r>>].at = "none"
          BY <5>1, <3>3 DEF IInv, InTurn
        <5>3. <<i, r>> # q
          BY <5>2, <1>6
        <5>4. <<i, r>> # after
          <6>1. SUFFICES ASSUME <<i, r>> = after PROVE FALSE
            OBVIOUS
          <6>2. i = q[1] /\ p < q[2]
            BY <6>1, <1>1, <3>3, <4>1
          <6>3. ask[<<q[1], q[2]>>].at = "none"
            BY <6>2, <5>1, <1>1, <3>3 DEF IInv, InTurn
          <6> QED
            BY <6>3, <1>1, <1>6
        <5> QED
          BY <1>0, <5>2, <5>3, <5>4, <2>7
      <4> QED
        BY <4>2, <4>3
    <3> QED
      BY <1>0, <3>2, <3>3 DEF InTurn
  <2> QED
    BY <2>8, <2>9, <2>10 DEF IInv
<1> QED
  BY <1>2, <1>9, <1>10, <1>11 DEF AskRecord

-----------------------------------------------------------------------------
(* The steps of an item.                                                   *)

LEMMA TimesAreInts ==
    /\ Timeout \in Int /\ Timeout > 0 /\ ClientTimeout \in Int /\ Interval \in Int
    /\ Burst \in Int /\ Backoff \in Int
BY TimesAssumption

LEMMA ItemChanges ==
    ASSUME IInv, batch' = batch, now' = now, UNCHANGED <<ask, next, sent>>, ItemsGoOn
    PROVE  IInv'
<1>1. /\ Questions' = Questions /\ Items' = Items /\ Providers' = Providers
  BY DEF Questions, Items, Providers, Endpoints, ProviderCount
<1> QED
  BY <1>1 DEF IInv, Types, Counts, InTurn, ItemsGoOn

LEMMA MovesGoOn ==
    ASSUME IInv, NEW i \in Items, NEW at \in Early \cup {"asking"}, NEW until \in Int,
           item[i].at \in Early, ItemMoves(i, at, until)
    PROVE  ItemsGoOn
<1>1. item[i] \in ItemRecord
  BY DEF IInv, Types
<1>2. [item[i] EXCEPT !.at = at, !.until = until] \in ItemRecord
  BY <1>1 DEF ItemRecord, Early
<1>3. item' = [item EXCEPT ![i] = [item[i] EXCEPT !.at = at, !.until = until]]
  BY DEF ItemMoves, IInv, Types
<1> QED
  BY <1>1, <1>2, <1>3 DEF IInv, Types, ItemsGoOn

LEMMA LookUpGoesOn ==
    ASSUME IInv, NEW i \in Items, item[i].at \in Early, LookUp(i)
    PROVE  ItemsGoOn
<1> DEFINE until == IF Endpoints[i].named THEN Later(now, item[i].deadline) ELSE now
<1>1. item[i] \in ItemRecord /\ now \in Int
  BY DEF IInv, Types
<1>2. until \in Int
  BY <1>1 DEF ItemRecord, Later
<1>3. ItemMoves(i, "resolving", until)
  BY DEF LookUp
<1>4. "resolving" \in Early \cup {"asking"}
  BY DEF Early
<1> HIDE DEF until
<1> QED
  BY <1>2, <1>3, <1>4, MovesGoOn

LEMMA ItemStepInvariant ==
    ASSUME IInv, batch' = batch, NEW i \in Items, ItemStep(i)
    PROVE  IInv'
<1>1. item[i] \in ItemRecord /\ now \in Int
  BY DEF IInv, Types
<1>2. CASE StartItem(i)
  <2> DEFINE begun == [at |-> "dialing", until |-> now + Timeout,
                       deadline |-> now + Timeout, started |-> now]
  <2>1. begun \in ItemRecord
    BY <1>1, TimesAreInts DEF ItemRecord, Early
  <2>2. item' = [item EXCEPT ![i] = begun] /\ item[i].at \in Early
    BY <1>2 DEF StartItem, Early
  <2> HIDE DEF begun
  <2>3. ItemsGoOn
    BY <2>1, <2>2 DEF IInv, Types, ItemsGoOn
  <2> QED
    BY <1>2, <2>3, ItemChanges DEF StartItem
<1>3. CASE Dialed(i)
  <2>1. item[i].at \in Early /\ now + Timeout \in Int /\ "handshake" \in Early \cup {"asking"}
    BY <1>1, <1>3, TimesAreInts DEF Dialed, Early
  <2>2. ItemsGoOn
    BY <1>3, <2>1, MovesGoOn, LookUpGoesOn DEF Dialed
  <2> QED
    BY <1>3, <2>2, ItemChanges DEF Dialed
<1>4. CASE HandshakeEnds(i)
  <2>1. item[i].at \in Early
    BY <1>4 DEF HandshakeEnds, Early
  <2>2. ItemsGoOn
    BY <1>4, <2>1, LookUpGoesOn DEF HandshakeEnds
  <2> QED
    BY <1>4, <2>2, ItemChanges DEF HandshakeEnds
<1>5. CASE ResolveFails(i)
  <2>1. ItemsGoOn
    BY <1>5, CheckedGoesOn DEF ResolveFails
  <2> QED
    BY <1>5, <2>1, ItemChanges DEF ResolveFails
<1>6. CASE Resolves(i) /\ ProviderCount = 0
  <2>1. ItemsGoOn
    BY <1>6, CheckedGoesOn DEF Resolves
  <2> QED
    BY <1>6, <2>1, ItemChanges DEF Resolves
<1>7. CASE Resolves(i) /\ ProviderCount # 0
  <2> DEFINE q   == <<i, 1>>
             due == [ask[q] EXCEPT !.at = "turn", !.until = now, !.deadline = item[i].deadline]
  <2>0. /\ Questions' = Questions /\ Items' = Items /\ Providers' = Providers
        /\ Questions = Items \X Providers
    BY DEF Questions, Items, Providers, Endpoints, ProviderCount
  <2>1. q \in Questions
    BY <1>7, <2>0, BatchesAssumption DEF IInv, Types, Providers, ProviderCount
  <2>2. item[i].at \in Early
    BY <1>7 DEF Resolves, Early
  <2>3. ItemsGoOn /\ item'[i].at = "asking"
    <3>1. ItemMoves(i, "asking", now) /\ "asking" \in Early \cup {"asking"}
      BY <1>7 DEF Resolves
    <3>2. item'[i].at = "asking"
      BY <3>1 DEF ItemMoves, IInv, Types, ItemRecord
    <3> QED
      BY <1>1, <2>2, <3>1, <3>2, MovesGoOn
  <2>4. /\ \A p \in Providers : ask[<<i, p>>].at = "none"
        /\ ask[q] \in AskRecord /\ Counted(ask[q], sent[q]) /\ ask[q].at = "none"
    BY <2>0, <2>1, <2>2 DEF IInv, InTurn, Types, Counts
  <2>5. due \in AskRecord /\ due.at = "turn" /\ due.round = ask[q].round
    BY <1>1, <2>4 DEF AskRecord, ItemRecord, Unasked
  <2>6. ask' = [ask EXCEPT ![q] = due] /\ sent' = sent /\ now' = now /\ next' = next
    BY <1>7, <2>1 DEF Resolves, Due, IInv, Types
  <2> HIDE DEF due, q
  <2>7. Counted(due, sent[q]) /\ Asked(due, sent[q], now)
    BY <2>4, <2>5 DEF Counted, Asked, Unasked, Checking
  <2>8. \A r \in Questions : ask'[r] = IF r = q THEN due ELSE ask[r]
    BY <2>6 DEF IInv, Types
  <2>9. Types' /\ Counts'
    BY <2>0, <2>3, <2>5, <2>6, <2>7, <2>8 DEF IInv, Types, Counts, ItemsGoOn
  <2>10. InTurn'
    <3>1. \A j \in Items : item'[j].at \in Early => j # i
      BY <2>3 DEF Early
    <3>2. ASSUME NEW j \in Items, item'[j].at \in Early, NEW p \in Providers
          PROVE  ask'[<<j, p>>].at = "none"
      BY <2>0, <2>3, <2>8, <3>1, <3>2 DEF IInv, InTurn, ItemsGoOn, q
    <3>3. ASSUME NEW j \in Items, NEW p \in Providers, NEW r \in Providers, p < r,
                 ask'[<<j, p>>].at \in InRound, ask'[<<j, p>>].round = 1
          PROVE  ask'[<<j, r>>].at = "none"
      <4>1. <<j, r>> # q
        BY <3>3 DEF q, Providers
      <4>2. ask'[<<j, r>>] = ask[<<j, r>>]
        BY <2>0, <2>8, <4>1
      <4>3. CASE j = i
        BY <2>4, <4>2, <4>3
      <4>4. CASE j # i
        <5>1. ask'[<<j, p>>] = ask[<<j, p>>]
          BY <2>0, <2>8, <4>4 DEF q
        <5> QED
          BY <3>3, <4>2, <5>1 DEF IInv, InTurn
      <4> QED
        BY <4>3, <4>4
    <3> QED
      BY <2>0, <3>2, <3>3 DEF InTurn
  <2> QED
    BY <2>9, <2>10 DEF IInv
<1> QED
  BY <1>2, <1>3, <1>4, <1>5, <1>6, <1>7 DEF ItemStep

-----------------------------------------------------------------------------
(* The steps of a question.                                                *)

\* The one counter of attempts ends every schedule by the end of the longest.
LEMMA PausesEnd ==
    ASSUME NEW failure, NEW attempt \in Nat, RetryDelay(failure, attempt) # <<>>
    PROVE  /\ attempt < Len(RateLimitDelays)
           /\ RetryDelay(failure, attempt)[1] \in Nat
<1>1. /\ Schedule(failure) \in Seq(Nat)
      /\ Len(Schedule(failure)) <= Len(RateLimitDelays)
  <2>1. CASE failure \in {"limited", "server", "timeout"}
    BY <2>1, ScheduleAssumption DEF Schedule, Delays
  <2>2. CASE failure \notin {"limited", "server", "timeout"}
    BY <2>2, ScheduleAssumption DEF Schedule, Delays
  <2> QED
    BY <2>1, <2>2
<1>2. attempt < Len(Schedule(failure)) /\ RetryDelay(failure, attempt) = << Schedule(failure)[attempt + 1] >>
  BY DEF RetryDelay
<1> QED
  BY <1>1, <1>2, ScheduleAssumption DEF Delays

\* A question moves on and sends nothing.
LEMMA QuestionMoves ==
    ASSUME IInv, batch' = batch, now' = now, next' \in [Providers -> Int], ItemsGoOn,
           sent' = sent,
           NEW q \in Questions, NEW at \in Unasked \cup Checking, NEW until \in Int,
           at # "none",
           ask' = [ask EXCEPT ![q].at = at, ![q].until = until],
           \/ ask[q].at \in {"turn", "waiting"} /\ at \in {"turn", "waiting"}
           \/ ask[q].at = "backoff" /\ at = "turn" /\ ask[q].round = 2
           \/ ask[q].at \in Checking /\ at \in Checking
              /\ (at = "sleeping" => ask[q].attempt < Len(RateLimitDelays))
    PROVE  IInv'
<1> DEFINE question == [ask[q] EXCEPT !.at = at, !.until = until]
<1>1. /\ ask[q] \in AskRecord /\ sent[q] \in Seq(Nat)
      /\ Counted(ask[q], sent[q]) /\ Asked(ask[q], sent[q], now)
  BY DEF IInv, Types, Counts
<1>2. /\ question \in AskRecord /\ question.at = at /\ question.round = ask[q].round
      /\ question.attempt = ask[q].attempt /\ question.deadline = ask[q].deadline
  BY <1>1 DEF AskRecord
<1>3. ask' = [ask EXCEPT ![q] = question] /\ sent' = [sent EXCEPT ![q] = sent[q]]
  BY DEF IInv, Types
<1> HIDE DEF question
<1>4. Counted(question, sent[q]) /\ Asked(question, sent[q], now)
  BY <1>1, <1>2 DEF Counted, Asked, Unasked, Checking
<1>5. question.at # "none" /\ ask[q].at # "none"
  BY <1>2 DEF Checking
<1>6. question.at \in InRound /\ question.round = 1 => ask[q].at \in InRound /\ ask[q].round = 1
  BY <1>2 DEF InRound, Checking
<1> QED
  BY <1>1, <1>2, <1>3, <1>4, <1>5, <1>6, QuestionChanges

LEMMA LimitersTyped ==
    ASSUME IInv, NEW q \in Questions
    PROVE  /\ q[2] \in Providers /\ PassesAt(q[2]) \in Int
           /\ Reserved(q[2]) \in [Providers -> Int]
<1>1. q[2] \in Providers /\ now \in Int /\ next[q[2]] \in Int
  BY DEF Questions, IInv, Types
<1>2. PassesAt(q[2]) \in Int
  BY <1>1, TimesAreInts DEF PassesAt, Later
<1>3. \A n \in Int : Later(now, n) + Interval \in Int
  BY <1>1, TimesAreInts DEF Later
<1> QED
  BY <1>1, <1>2, <1>3 DEF Reserved, IInv, Types

LEMMA TurnInvariant ==
    ASSUME IInv, batch' = batch, NEW q \in Questions, Refused(q) \/ Granted(q) \/ WaitCancelled(q)
    PROVE  IInv'
<1>1. next \in [Providers -> Int]
  BY DEF IInv, Types
<1>2. CASE Refused(q)
  <2>1. ask[q].at \in InRound /\ "pending" \in Settled /\ ask[q].round # 2
    BY <1>2 DEF Refused, InRound, Settled
  <2> QED
    BY <1>1, <1>2, <2>1, QuestionOver DEF Refused
<1>3. CASE Granted(q)
  <2>1. "waiting" \in Unasked \cup Checking
    BY DEF Unasked
  <2>2. ask' = [ask EXCEPT ![q].at = "waiting", ![q].until = PassesAt(q[2])] /\ item' = item
    BY <1>3 DEF Granted, AskMoves
  <2>3. next' \in [Providers -> Int] /\ ItemsGoOn
    BY <1>3, <2>2, LimitersTyped, ItemsUnchanged DEF Granted
  <2> QED
    BY <1>3, <2>1, <2>2, <2>3, LimitersTyped, QuestionMoves DEF Granted
<1>4. CASE WaitCancelled(q)
  <2>1. ask[q].at \in InRound /\ "pending" \in Settled /\ ask[q].round # 2
    BY <1>4 DEF WaitCancelled, InRound, Settled
  <2>2. next' \in [Providers -> Int]
    BY <1>1, <1>4, TimesAreInts, LimitersTyped DEF WaitCancelled
  <2> QED
    BY <1>4, <2>1, <2>2, QuestionOver DEF WaitCancelled
<1> QED
  BY <1>2, <1>3, <1>4

\* A check begins, or goes on to its next request.
LEMMA RequestInvariant ==
    ASSUME IInv, batch' = batch, now' = now, next' = next, item' = item,
           NEW q \in Questions, NEW attempt \in Nat, NEW deadline \in Int,
           Request(q, attempt, deadline),
           \/ ask[q].at = "waiting" /\ attempt = 0 /\ (ask[q].round = 2 => now < deadline)
           \/ ask[q].at = "sleeping" /\ attempt = ask[q].attempt + 1 /\ now < deadline
    PROVE  IInv'
<1> DEFINE until    == Later(now, Earlier(deadline, now + ClientTimeout))
           went     == IF now < deadline THEN 1 ELSE 0
           question == [ask[q] EXCEPT !.at = "requesting", !.attempt = attempt,
                                      !.deadline = deadline, !.until = until]
           requests == Noted(sent[q], attempt, went)
<1>1. /\ ask[q] \in AskRecord /\ sent[q] \in Seq(Nat)
      /\ Counted(ask[q], sent[q]) /\ Asked(ask[q], sent[q], now)
      /\ now \in Int /\ next \in [Providers -> Int] /\ Len(RateLimitDelays) \in Nat
  BY ScheduleAssumption DEF IInv, Types, Counts, Delays
<1>2. until \in Int /\ went \in Nat /\ went <= 1 /\ (now < deadline => went = 1)
  BY <1>1, TimesAreInts DEF Later, Earlier
<1> HIDE DEF until
<1>3. /\ question \in AskRecord /\ question.at = "requesting" /\ question.round = ask[q].round
      /\ question.attempt = attempt /\ question.deadline = deadline
  BY <1>1, <1>2 DEF AskRecord, Checking
<1>4. ask' = [ask EXCEPT ![q] = question] /\ sent' = [sent EXCEPT ![q] = requests]
  BY DEF Request, until, IInv, Types
<1> HIDE DEF question, requests, went
<1>5. /\ PerCheck \in Nat /\ PerCheck = 1 + Len(RateLimitDelays)
      /\ Len(sent[q]) \in Nat /\ ask[q].round \in {1, 2}
      /\ \A check \in 1..Len(sent[q]) : sent[q][check] \in Nat /\ sent[q][check] <= PerCheck
  <2>1. PerCheck \in Nat /\ PerCheck = 1 + Len(RateLimitDelays)
    BY <1>1 DEF PerCheck
  <2>2. \A check \in 1..Len(sent[q]) : sent[q][check] <= PerCheck
    BY <1>1 DEF Counted
  <2>3. ask[q].round \in {1, 2} /\ Len(sent[q]) \in Nat
    BY <1>1 DEF AskRecord
  <2> QED
    BY <1>1, <2>1, <2>2, <2>3
<1>6. /\ requests \in Seq(Nat)
      /\ Counted(question, requests) /\ Asked(question, requests, now)
  <2>1. CASE ask[q].at = "waiting" /\ attempt = 0 /\ (ask[q].round = 2 => now < deadline)
    <3>1. requests = Append(sent[q], went) /\ Len(sent[q]) < ask[q].round
      BY <1>1, <2>1 DEF requests, Noted, Counted, Unasked
    <3>2. /\ requests \in Seq(Nat) /\ Len(requests) = Len(sent[q]) + 1
          /\ \A check \in 1..Len(sent[q]) : requests[check] = sent[q][check]
          /\ requests[Len(requests)] = went
      BY <1>1, <1>2, <3>1
    <3>3. Counted(question, requests)
      <4>1. Len(requests) <= question.round /\ Len(requests) > 0
        BY <1>1, <1>3, <3>1, <3>2 DEF AskRecord
      <4>2. ASSUME NEW check \in 1..Len(requests) PROVE requests[check] <= PerCheck
        <5>1. CASE check \in 1..Len(sent[q])
          BY <1>5, <3>2, <5>1
        <5>2. CASE check = Len(requests)
          BY <1>1, <1>2, <1>5, <3>2, <5>2
        <5> QED
          BY <1>5, <3>2, <5>1, <5>2
      <4>3. requests[Len(requests)] <= question.attempt + 1
        BY <1>2, <1>3, <2>1, <3>2
      <4> QED
        BY <1>1, <1>3, <2>1, <4>1, <4>2, <4>3 DEF Counted, Unasked
    <3>4. Asked(question, requests, now)
      <4>1. SUFFICES ASSUME question.round = 2 \/ now < deadline PROVE Went(requests)
        BY <1>3 DEF Asked
      <4>2. requests[Len(requests)] > 0 /\ Len(requests) \in 1..Len(requests)
        BY <1>2, <1>3, <1>5, <2>1, <3>2, <4>1
      <4> QED
        BY <4>2 DEF Went
    <3> QED
      BY <3>2, <3>3, <3>4
  <2>2. CASE ask[q].at = "sleeping" /\ attempt = ask[q].attempt + 1 /\ now < deadline
    <3>1. /\ Len(sent[q]) > 0 /\ Len(sent[q]) <= ask[q].round
          /\ sent[q][Len(sent[q])] <= attempt /\ attempt <= Len(RateLimitDelays)
          /\ attempt # 0 /\ went = 1 /\ attempt \in Nat
      BY <1>1, <1>2, <2>2 DEF Counted, Checking, AskRecord
    <3>2. requests = [sent[q] EXCEPT ![Len(sent[q])] = @ + 1]
      BY <3>1 DEF requests, Noted
    <3>3. /\ requests \in Seq(Nat) /\ Len(requests) = Len(sent[q])
          /\ \A check \in 1..Len(sent[q]) :
                requests[check] = IF check = Len(sent[q]) THEN sent[q][check] + 1 ELSE sent[q][check]
      BY <1>1, <3>1, <3>2
    <3>4. Counted(question, requests)
      <4>1. ASSUME NEW check \in 1..Len(requests) PROVE requests[check] <= PerCheck
        <5>1. CASE check = Len(sent[q])
          BY <1>5, <3>1, <3>3, <5>1
        <5>2. CASE check # Len(sent[q])
          BY <1>5, <3>3, <5>2
        <5> QED
          BY <5>1, <5>2
      <4>2. requests[Len(requests)] <= question.attempt + 1
        BY <1>3, <1>5, <3>1, <3>3
      <4> QED
        BY <1>3, <3>1, <3>3, <4>1, <4>2 DEF Counted, Unasked
    <3>5. requests[Len(requests)] > 0
      BY <1>1, <3>1, <3>3
    <3>6. Asked(question, requests, now)
      BY <1>3, <3>1, <3>3, <3>5 DEF Asked, Went
    <3> QED
      BY <3>3, <3>4, <3>6
  <2> QED
    BY <2>1, <2>2
<1>7. question.at # "none" /\ ask[q].at \in InRound /\ ask[q].at # "none"
  BY <1>3 DEF InRound, Checking
<1>8. ItemsGoOn
  BY ItemsUnchanged
<1> QED
  BY <1>1, <1>3, <1>4, <1>6, <1>7, <1>8, QuestionChanges

LEMMA CheckInvariant ==
    ASSUME IInv, batch' = batch, NEW q \in Questions,
           \/ Passes(q)
           \/ \E failure \in {"limited", "server", "status", "connection", "timeout"} :
                 RequestFails(q, failure)
           \/ SleepEnds(q)
           \/ RequestAnswered(q)
           \/ \E outcome \in {"answered", "failed", "pending"} : ReadEnds(q, outcome)
    PROVE  IInv'
<1>1. /\ ask[q] \in AskRecord /\ now \in Int /\ next \in [Providers -> Int]
      /\ Counted(ask[q], sent[q]) /\ Asked(ask[q], sent[q], now)
  BY DEF IInv, Types, Counts
<1>2. CASE Passes(q)
  <2> DEFINE deadline == DeadlineOf(q)
  <2>1. deadline \in Int /\ (ask[q].round = 2 => now < deadline)
    BY <1>1, TimesAreInts DEF DeadlineOf, AskRecord
  <2>2. Request(q, 0, deadline) /\ ask[q].at = "waiting"
    BY <1>2 DEF Passes
  <2> HIDE DEF deadline
  <2> QED
    BY <1>2, <2>1, <2>2, RequestInvariant DEF Passes
<1>3. ASSUME NEW failure \in {"limited", "server", "status", "connection", "timeout"},
             RequestFails(q, failure)
      PROVE  IInv'
  <2> DEFINE delay   == RetryDelay(failure, ask[q].attempt)
             until   == Later(now, Earlier(now + delay[1], ask[q].deadline))
             outcome == IF failure \in {"limited", "timeout"} THEN "pending" ELSE "failed"
  <2>1. /\ ask[q].at = "requesting" /\ now' = now /\ next' = next /\ sent' = sent
        /\ failure # "timeout" => now < ask[q].deadline
    BY <1>3 DEF RequestFails
  <2>2. ask[q].at \in Checking /\ ask[q].at \in InRound /\ ask[q].attempt \in Nat
    BY <1>1, <2>1 DEF Checking, InRound, AskRecord
  <2>3. CASE delay # <<>>
    <3>1. ask[q].attempt < Len(RateLimitDelays) /\ delay[1] \in Nat
      BY <2>2, <2>3, PausesEnd
    <3>2. AskMoves(q, "sleeping", until)
      BY <1>3, <2>3 DEF RequestFails
    <3> HIDE DEF delay
    <3>3. until \in Int
      BY <1>1, <3>1 DEF Later, Earlier, AskRecord
    <3> HIDE DEF until
    <3>4. ItemsGoOn /\ "sleeping" \in Checking
      BY <3>2, ItemsUnchanged DEF AskMoves, Checking
    <3> QED
      BY <1>1, <2>1, <2>2, <3>1, <3>2, <3>3, <3>4, QuestionMoves DEF AskMoves
  <2>4. CASE delay = <<>>
    <3>1. Over(q, outcome)
      BY <1>3, <2>4 DEF RequestFails
    <3>2. outcome \in Settled
      BY DEF Settled
    <3>3. outcome = "failed" \/ (outcome = "pending" /\ ask[q].round = 2) => Went(sent[q])
      BY <1>1, <2>1, <2>2 DEF Asked
    <3> HIDE DEF outcome
    <3> QED
      BY <1>1, <2>1, <2>2, <3>1, <3>2, <3>3, QuestionOver
  <2> QED
    BY <2>3, <2>4
<1>4. CASE SleepEnds(q)
  <2>1. /\ ask[q].at = "sleeping" /\ now' = now /\ next' = next
        /\ ask[q].at \in Checking /\ ask[q].at \in InRound
        /\ ask[q].attempt + 1 \in Nat /\ ask[q].deadline \in Int
    BY <1>1, <1>4 DEF SleepEnds, Checking, InRound, AskRecord
  <2>2. CASE now < ask[q].deadline
    <3>1. Request(q, ask[q].attempt + 1, ask[q].deadline) /\ item' = item
      BY <1>4, <2>2 DEF SleepEnds
    <3> QED
      BY <2>1, <2>2, <3>1, RequestInvariant
  <2>3. CASE ~(now < ask[q].deadline)
    <3>1. Over(q, "pending") /\ sent' = sent
      BY <1>4, <2>3 DEF SleepEnds
    <3>2. "pending" \in Settled /\ (ask[q].round = 2 => Went(sent[q]))
      BY <1>1, <2>1 DEF Asked, Settled
    <3> QED
      BY <1>1, <2>1, <3>1, <3>2, QuestionOver
  <2> QED
    BY <2>2, <2>3
<1>5. CASE RequestAnswered(q)
  <2>1. AskMoves(q, "reading", ask[q].until) /\ ask[q].until \in Int
    BY <1>1, <1>5 DEF RequestAnswered, AskRecord
  <2>2. ask[q].at \in Checking /\ "reading" \in Checking /\ ItemsGoOn
    BY <1>5, <2>1, ItemsUnchanged DEF RequestAnswered, AskMoves, Checking
  <2> QED
    BY <1>1, <1>5, <2>1, <2>2, QuestionMoves DEF RequestAnswered, AskMoves
<1>6. ASSUME NEW outcome \in {"answered", "failed", "pending"}, ReadEnds(q, outcome)
      PROVE  IInv'
  <2>1. ask[q].at \in Checking /\ ask[q].at \in InRound /\ outcome \in Settled
    BY <1>6 DEF ReadEnds, Checking, InRound, Settled
  <2>2. outcome = "failed" \/ (outcome = "pending" /\ ask[q].round = 2) => Went(sent[q])
    BY <1>1, <1>6, <2>1 DEF Asked, ReadEnds
  <2> QED
    BY <1>1, <1>6, <2>1, <2>2, QuestionOver DEF ReadEnds
<1> QED
  BY <1>2, <1>3, <1>4, <1>5, <1>6

LEMMA RetryInvariant ==
    ASSUME IInv, batch' = batch, NEW q \in Questions, StartRetry(q) \/ BackoffEnds(q)
    PROVE  IInv'
<1>1. /\ ask[q] \in AskRecord /\ sent[q] \in Seq(Nat) /\ Counted(ask[q], sent[q])
      /\ now \in Int /\ next \in [Providers -> Int]
  BY DEF IInv, Types, Counts
<1>2. CASE StartRetry(q)
  <2> DEFINE until    == now + Backoff
             question == [ask[q] EXCEPT !.at = "backoff", !.until = until, !.round = 2]
  <2>0. until \in Int
    BY <1>1, TimesAreInts
  <2> HIDE DEF until
  <2>1. ask[q].at = "pending" /\ ask[q].round = 1
    BY <1>1, <1>2 DEF StartRetry, FirstPending, Pending, Counted
  <2>2. question \in AskRecord /\ question.at = "backoff" /\ question.round = 2
    BY <1>1, <2>0 DEF AskRecord, Unasked
  <2>3. ask' = [ask EXCEPT ![q] = question] /\ sent' = [sent EXCEPT ![q] = sent[q]]
    BY <1>2 DEF StartRetry, until, IInv, Types
  <2> HIDE DEF question
  <2>4. Counted(question, sent[q]) /\ Asked(question, sent[q], now)
    BY <1>1, <2>1, <2>2 DEF Counted, Asked, Unasked, Checking
  <2>5. ItemsGoOn /\ question.at \notin InRound /\ question.at # "none" /\ ask[q].at # "none"
    BY <1>2, <2>1, <2>2, ItemsUnchanged DEF StartRetry, InRound, Checking
  <2>6. now' = now /\ next' = next
    BY <1>2 DEF StartRetry
  <2> QED
    BY <1>1, <2>2, <2>3, <2>4, <2>5, <2>6, QuestionChanges
<1>3. CASE BackoffEnds(q)
  <2>1. ask[q].at = "backoff" /\ ask[q].round = 2 /\ "turn" \in Unasked \cup Checking
    BY <1>1, <1>3 DEF BackoffEnds, Counted, Unasked
  <2>2. /\ ask' = [ask EXCEPT ![q].at = "turn", ![q].until = now] /\ ItemsGoOn
        /\ now' = now /\ next' = next /\ sent' = sent
    BY <1>3, ItemsUnchanged DEF BackoffEnds, AskMoves
  <2> QED
    BY <1>1, <2>1, <2>2, QuestionMoves
<1> QED
  BY <1>2, <1>3

LEMMA TickInvariant ==
    ASSUME IInv, batch' = batch, Tick
    PROVE  IInv'
<1>1. /\ Questions' = Questions /\ Items' = Items /\ Providers' = Providers
      /\ now \in Int /\ now' = now + 1 /\ UNCHANGED <<item, ask, next, sent>>
  BY DEF Questions, Items, Providers, Endpoints, ProviderCount, IInv, Types, Tick
<1>2. ASSUME NEW q \in Questions
      PROVE  Asked(ask[q], sent[q], now + 1)
  <2>1. ask[q].deadline \in Int
    BY DEF IInv, Types, AskRecord
  <2> QED
    BY <1>1, <2>1 DEF IInv, Counts, Asked
<1> QED
  BY <1>1, <1>2 DEF IInv, Types, Counts, InTurn

LEMMA StepInvariant == IInv /\ [Next]_vars => IInv'
<1> SUFFICES ASSUME IInv, [Next]_vars PROVE IInv'
  OBVIOUS
<1>1. CASE UNCHANGED vars
  BY <1>1 DEF vars, changing, IInv, Types, Counts, InTurn, Questions, Items, Providers,
              Endpoints, ProviderCount
<1>2. CASE Next
  <2>1. batch' = batch
    BY <1>2 DEF Next
  <2>2. CASE Tick
    BY <2>1, <2>2, TickInvariant
  <2>3. CASE BeginRetries \/ Finish
    BY <2>1, <2>3, ItemChanges, ItemsUnchanged DEF BeginRetries, Finish
  <2>4. ASSUME NEW i \in Items, ItemStep(i) PROVE IInv'
    BY <2>1, <2>4, ItemStepInvariant
  <2>5. ASSUME NEW q \in Questions, QuestionStep(q) PROVE IInv'
    BY <2>1, <2>5, TurnInvariant, CheckInvariant, RetryInvariant DEF QuestionStep
  <2> QED
    BY <1>2, <2>2, <2>3, <2>4, <2>5 DEF Next
<1> QED
  BY <1>1, <1>2

-----------------------------------------------------------------------------
(* The theorems.                                                           *)

\* The inductive invariant of a batch's time line.
THEOREM TimelineInvariant == Spec => []IInv
BY InitInvariant, StepInvariant, PTL DEF Spec

\* However 429, server errors and timeouts mix (providers.go 78-103), and
\* whatever the schedules are, a question is checked once a round, with PerCheck
\* requests at most: the one counter of attempts bounds the mixture.
THEOREM RequestsAreBounded == Spec => []RequestsBounded
<1>1. IInv => RequestsBounded
  BY DEF IInv, Types, Counts, Counted, RequestsBounded
<1> QED
  BY <1>1, TimelineInvariant, PTL

\* No provider is reported to have failed without having been asked, however
\* short the time and however slow the limiter: the retry's own deadline starts
\* after its wait (batch.go 371-374).
THEOREM NobodyUnasked == Spec => []NeverUnasked
<1>1. IInv => NeverUnasked
  BY DEF IInv, Types, Counts, Asked, Went, NeverUnasked
<1> QED
  BY <1>1, TimelineInvariant, PTL

-----------------------------------------------------------------------------
(* The clocks.  What a worker is busy with, and what is asked in the       *)
(* first round, ends by a time that the deadline of the item sets.         *)

Limit(i) == item[i].started + (IF Endpoints[i].port443 THEN 2 * Timeout ELSE Timeout)

\* Asked in the first round.
Active(question) == question.at \in InRound /\ question.round = 1

\* A worker has something that ends in time, its own step or a question.
ItemClock(i) ==
    /\ item[i].at # "queued" => item[i].deadline = item[i].started + Timeout
    /\ item[i].at \in {"dialing", "handshake", "resolving"} =>
          now <= item[i].until /\ item[i].until <= Limit(i)
    /\ item[i].at = "dialing" => item[i].until = item[i].deadline
    /\ item[i].at = "asking" => \E p \in Providers : Active(ask[<<i, p>>])

QuestionClock(question, i) ==
    Active(question) =>
        /\ question.deadline = item[i].started + Timeout
        /\ now <= question.until
        /\ question.until <= Limit(i)

Clocks ==
    /\ \A i \in Items : ItemClock(i)
    /\ \A q \in Questions : QuestionClock(ask[q], q[1])

LEMMA SameBatch ==
    ASSUME batch' = batch
    PROVE  /\ Questions' = Questions /\ Items' = Items /\ Providers' = Providers
           /\ Endpoints' = Endpoints /\ ProviderCount' = ProviderCount
           /\ Questions = Items \X Providers
BY DEF Questions, Items, Providers, Endpoints, ProviderCount

\* The two limits of an item.
LEMMA LimitIsLater ==
    ASSUME IInv, NEW i \in Items
    PROVE  /\ Limit(i) \in Int
           /\ item[i].started + Timeout <= Limit(i)
           /\ Endpoints[i].port443 => Limit(i) = item[i].started + 2 * Timeout
<1>1. item[i].started \in Int /\ Timeout \in Int /\ Timeout > 0
  BY TimesAreInts DEF IInv, Types, ItemRecord
<1> QED
  BY <1>1 DEF Limit

LEMMA InitClocks == Init => Clocks
<1> SUFFICES ASSUME Init PROVE Clocks
  OBVIOUS
<1>1. ASSUME NEW i \in Items PROVE ItemClock(i)
  <2>1. item[i].at = "queued"
    BY DEF Init, NotStarted
  <2> QED
    BY <2>1 DEF ItemClock
<1>2. ASSUME NEW q \in Questions PROVE QuestionClock(ask[q], q[1])
  <2>1. ask[q].at = "none"
    BY DEF Init, NotAsked
  <2> QED
    BY <2>1 DEF QuestionClock, Active, InRound, Checking
<1> QED
  BY <1>1, <1>2 DEF Clocks

-----------------------------------------------------------------------------
(* The clocks of the questions.                                            *)

\* One question changes, and no item: it goes on in time, or was not active.
LEMMA QuestionTime ==
    ASSUME IInv, Clocks, batch' = batch, now' = now, item' = item,
           NEW q \in Questions, NEW question \in AskRecord,
           ask' = [ask EXCEPT ![q] = question],
           QuestionClock(question, q[1]),
           Active(ask[q]) => Active(question)
    PROVE  Clocks'
<1>1. \A r \in Questions : ask'[r] = IF r = q THEN question ELSE ask[r]
  BY DEF IInv, Types
<1>2. ASSUME NEW i \in Items PROVE ItemClock(i)'
  <2>1. ASSUME NEW p \in Providers, Active(ask[<<i, p>>]) PROVE Active(ask'[<<i, p>>])
    BY <1>1, <2>1, SameBatch
  <2> QED
    BY <2>1, SameBatch DEF Clocks, ItemClock, Limit, Active
<1>3. ASSUME NEW r \in Questions PROVE QuestionClock(ask[r], r[1])'
  BY <1>1, SameBatch DEF Clocks, QuestionClock, Limit, Active
<1> QED
  BY <1>2, <1>3, SameBatch DEF Clocks

\* A question is over: the item is, or the next question takes no time yet.
LEMMA OverTime ==
    ASSUME IInv, Clocks, batch' = batch, now' = now,
           NEW q \in Questions, NEW outcome \in Settled,
           Over(q, outcome), ask[q].at \in InRound
    PROVE  Clocks'
<1> DEFINE at     == IF outcome = "pending" /\ ask[q].round = 2 THEN "failed" ELSE outcome
           closed == [ask[q] EXCEPT !.at = at]
           after  == <<q[1], q[2] + 1>>
<1>1. q[1] \in Items /\ q[2] \in Providers /\ q = <<q[1], q[2]>>
  BY SameBatch
<1>2. ask[q] \in AskRecord /\ now \in Int
  BY DEF IInv, Types
<1>3. closed \in AskRecord /\ ~Active(closed)
  BY <1>2 DEF AskRecord, Active, Settled, InRound, Checking
<1>4. CASE ask[q].round = 2
  <2>1. ask' = [ask EXCEPT ![q] = closed] /\ item' = item
    BY <1>4 DEF Over, IInv, Types
  <2>2. ~Active(ask[q])
    BY <1>4 DEF Active
  <2> HIDE DEF closed
  <2>3. QuestionClock(closed, q[1])
    BY <1>3 DEF QuestionClock
  <2> QED
    BY <2>1, <2>2, <2>3, <1>3, QuestionTime
<1>5. CASE ask[q].round = 1 /\ ~(q[2] < ProviderCount)
  <2>1. ask' = [ask EXCEPT ![q] = closed] /\ Checked(q[1])
    BY <1>5 DEF Over, IInv, Types
  <2> HIDE DEF closed
  <2>2. \A r \in Questions : ask'[r] = IF r = q THEN closed ELSE ask[r]
    BY <2>1 DEF IInv, Types
  <2>3. \A i \in Items : /\ i # q[1] => item'[i] = item[i]
                         /\ item'[q[1]].at = "checked"
                         /\ item'[i].started = item[i].started
                         /\ item'[i].deadline = item[i].deadline
    BY <1>1, <2>1 DEF Checked, ItemMoves, IInv, Types, ItemRecord
  <2>4. item[q[1]].at # "queued"
    <3>1. item[q[1]].at \notin Early
      BY <1>1 DEF IInv, InTurn, InRound, Checking
    <3> QED
      BY <3>1 DEF Early
  <2>5. ASSUME NEW i \in Items PROVE ItemClock(i)'
    <3>1. CASE i = q[1]
      BY <2>3, <2>4, <3>1, <1>1, SameBatch DEF Clocks, ItemClock
    <3>2. CASE i # q[1]
      <4>1. \A p \in Providers : ask'[<<i, p>>] = ask[<<i, p>>]
        BY <1>1, <2>2, <3>2, SameBatch
      <4> QED
        BY <2>3, <3>2, <4>1, SameBatch DEF Clocks, ItemClock, Limit
    <3> QED
      BY <3>1, <3>2
  <2>6. ASSUME NEW r \in Questions PROVE QuestionClock(ask[r], r[1])'
    <3>1. r[1] \in Items
      BY SameBatch
    <3> QED
      BY <1>3, <2>2, <2>3, <3>1, SameBatch DEF Clocks, QuestionClock, Limit, Active
  <2> QED
    BY <2>5, <2>6, SameBatch DEF Clocks
<1>6. CASE ask[q].round = 1 /\ q[2] < ProviderCount
  <2> DEFINE turned == [ask[after] EXCEPT !.at = "turn", !.until = now, !.deadline = item[q[1]].deadline]
  <2>1. item' = item
    BY <1>6 DEF Over
  <2>2. after \in Questions /\ after # q
    <3>1. Questions = Items \X Providers
      BY SameBatch
    <3> QED
      BY <1>1, <1>6, <3>1, BatchesAssumption DEF IInv, Types, Providers, ProviderCount
  <2>3. ask[after] \in AskRecord /\ ask[after].at = "none"
    BY <1>1, <1>6, <2>2, SameBatch DEF IInv, InTurn, Types, Providers
  <2>4. ask[after].round = 1
    BY <2>2, <2>3 DEF IInv, Counts, Counted
  <2>5. /\ Active(turned) /\ turned.until = now /\ turned.deadline = item[q[1]].deadline
    BY <2>3, <2>4 DEF AskRecord, Active, InRound
  <2>6. ask' = [ask EXCEPT ![q] = closed, ![after] = turned]
    <3> DEFINE first == [ask EXCEPT ![q] = closed]
    <3> DEFINE over == [ask EXCEPT ![q].at = IF outcome = "pending" /\ ask[q].round = 2
                                              THEN "failed" ELSE outcome]
    <3>1. over = first
      BY DEF IInv, Types
    <3>2. first \in [Questions -> AskRecord] /\ first[after] = ask[after]
      BY <1>3, <2>2 DEF IInv, Types
    <3>3. ask' = [first EXCEPT ![after].at = "turn", ![after].until = now,
                               ![after].deadline = item[q[1]].deadline]
      <4>1. ask' = [over EXCEPT ![after].at = "turn", ![after].until = now,
                                ![after].deadline = item[q[1]].deadline]
        BY <1>6 DEF Over
      <4> HIDE DEF first, over
      <4> QED
        BY <3>1, <4>1
    <3> HIDE DEF first
    <3>4. ask' = [first EXCEPT ![after] = turned]
      BY <2>2, <3>2, <3>3
    <3> QED
      BY <3>4 DEF first
  <2> HIDE DEF closed, turned, after
  <2>7. \A r \in Questions : ask'[r] = IF r = q THEN closed ELSE IF r = after THEN turned ELSE ask[r]
    BY <2>2, <2>6 DEF IInv, Types
  <2>8. QuestionClock(turned, q[1])
    <3>1. QuestionClock(ask[q], q[1]) /\ Active(ask[q])
      BY <1>6 DEF Clocks, Active
    <3>2. now <= ask[q].until /\ ask[q].until <= Limit(q[1])
      BY <3>1 DEF QuestionClock
    <3>3. now <= Limit(q[1])
      BY <1>1, <1>2, <3>2, LimitIsLater DEF AskRecord
    <3>4. item[q[1]].at \notin Early
      BY <1>1 DEF IInv, InTurn, InRound, Checking
    <3>5. item[q[1]].deadline = item[q[1]].started + Timeout
      BY <1>1, <3>4 DEF Clocks, ItemClock, Early
    <3> QED
      BY <1>2, <2>5, <3>3, <3>5 DEF QuestionClock
  <2>9. ASSUME NEW i \in Items PROVE ItemClock(i)'
    <3>1. ASSUME NEW p \in Providers, Active(ask[<<i, p>>])
          PROVE  \E r \in Providers : Active(ask'[<<i, r>>])
      <4>1. CASE <<i, p>> = q
        <5>1. after = <<i, q[2] + 1>> /\ q[2] + 1 \in Providers
          BY <1>1, <2>2, <4>1, SameBatch DEF after
        <5>2. Active(ask'[after])
          BY <2>2, <2>5, <2>7
        <5> QED
          BY <5>1, <5>2
      <4>2. CASE <<i, p>> # q
        <5>1. <<i, p>> # after
          BY <2>3, <3>1 DEF Active, InRound, Checking
        <5>2. ask'[<<i, p>>] = ask[<<i, p>>]
          BY <2>7, <4>2, <5>1, SameBatch
        <5> QED
          BY <3>1, <5>2
      <4> QED
        BY <4>1, <4>2
    <3> QED
      BY <2>1, <3>1, SameBatch DEF Clocks, ItemClock, Limit, Active
  <2>10. ASSUME NEW r \in Questions PROVE QuestionClock(ask[r], r[1])'
    <3>1. CASE r = q
      BY <1>3, <2>7, <3>1 DEF QuestionClock, Active
    <3>2. CASE r = after /\ r # q
      BY <1>1, <2>1, <2>7, <2>8, <3>2, SameBatch DEF QuestionClock, Limit, Active, after
    <3>3. CASE r # after /\ r # q
      BY <2>1, <2>7, <3>3, SameBatch DEF Clocks, QuestionClock, Limit, Active
    <3> QED
      BY <3>1, <3>2, <3>3
  <2> QED
    BY <2>9, <2>10, SameBatch DEF Clocks
<1> QED
  BY <1>2, <1>4, <1>5, <1>6 DEF AskRecord

\* A question goes on, with a new time that the item allows.
LEMMA GoesOnInTime ==
    ASSUME IInv, Clocks, batch' = batch, now' = now, item' = item,
           NEW q \in Questions, NEW question \in AskRecord,
           ask' = [ask EXCEPT ![q] = question],
           Active(ask[q]), question.deadline = ask[q].deadline,
           now <= question.until,
           question.until <= ask[q].until \/ question.until <= ask[q].deadline \/ question.until = now,
           Active(question)
    PROVE  Clocks'
<1>1. q[1] \in Items /\ ask[q] \in AskRecord /\ now \in Int
  BY SameBatch DEF IInv, Types
<1>2. /\ ask[q].deadline = item[q[1]].started + Timeout
      /\ now <= ask[q].until /\ ask[q].until <= Limit(q[1])
  BY DEF Clocks, QuestionClock
<1>3. Limit(q[1]) \in Int /\ ask[q].deadline <= Limit(q[1])
  BY <1>1, <1>2, LimitIsLater
<1>4. question.until <= Limit(q[1])
  <2>1. question.until \in Int /\ ask[q].until \in Int /\ ask[q].deadline \in Int
    BY <1>1 DEF AskRecord
  <2> QED
    BY <1>1, <1>2, <1>3, <2>1
<1>5. QuestionClock(question, q[1])
  BY <1>2, <1>4 DEF QuestionClock
<1> QED
  BY <1>5, QuestionTime

LEMMA RequestInTime ==
    ASSUME IInv, Clocks, batch' = batch, now' = now, item' = item,
           NEW q \in Questions, NEW attempt \in Nat, NEW deadline \in Int,
           Request(q, attempt, deadline), ask[q].at \in InRound,
           ask[q].round = 1 => deadline = ask[q].deadline
    PROVE  Clocks'
<1> DEFINE until    == Later(now, Earlier(deadline, now + ClientTimeout))
           question == [ask[q] EXCEPT !.at = "requesting", !.attempt = attempt,
                                      !.deadline = deadline, !.until = until]
<1>1. ask[q] \in AskRecord /\ now \in Int
  BY DEF IInv, Types
<1>2. until \in Int /\ now <= until /\ (until <= deadline \/ until = now)
  BY <1>1, TimesAreInts DEF Later, Earlier
<1>3. ask' = [ask EXCEPT ![q] = question]
  BY DEF Request, IInv, Types
<1> HIDE DEF until
<1>4. /\ question \in AskRecord /\ question.round = ask[q].round /\ question.at \in InRound
      /\ question.until = until /\ question.deadline = deadline
  BY <1>1, <1>2 DEF AskRecord, Checking, InRound
<1> HIDE DEF question
<1>5. CASE ask[q].round = 1
  BY <1>2, <1>3, <1>4, <1>5, GoesOnInTime DEF Active
<1>6. CASE ask[q].round # 1
  BY <1>3, <1>4, <1>6, QuestionTime DEF QuestionClock, Active
<1> QED
  BY <1>5, <1>6

LEMMA MovesInTime ==
    ASSUME IInv, Clocks, batch' = batch, now' = now,
           NEW q \in Questions, NEW at \in InRound, NEW until \in Int,
           AskMoves(q, at, until),
           ask[q].at \in InRound \/ ask[q].round = 2,
           now <= until,
           until <= ask[q].until \/ until <= ask[q].deadline \/ until = now
    PROVE  Clocks'
<1> DEFINE question == [ask[q] EXCEPT !.at = at, !.until = until]
<1>1. ask[q] \in AskRecord /\ item' = item
  BY DEF AskMoves, IInv, Types
<1>2. ask' = [ask EXCEPT ![q] = question]
  BY DEF AskMoves, IInv, Types
<1>3. /\ question \in AskRecord /\ question.at = at /\ question.round = ask[q].round
      /\ question.until = until /\ question.deadline = ask[q].deadline
  BY <1>1 DEF AskRecord, InRound, Unasked
<1> HIDE DEF question
<1>4. CASE ask[q].round = 1
  <2>1. Active(ask[q]) /\ Active(question)
    BY <1>3, <1>4 DEF Active
  <2>2. \/ question.until <= ask[q].until
        \/ question.until <= ask[q].deadline
        \/ question.until = now
    BY <1>3
  <2> QED
    BY <1>1, <1>2, <1>3, <2>1, <2>2, GoesOnInTime
<1>5. CASE ask[q].round # 1
  BY <1>1, <1>2, <1>3, <1>5, QuestionTime DEF QuestionClock, Active
<1> QED
  BY <1>4, <1>5

LEMMA TurnInTime ==
    ASSUME IInv, Clocks, batch' = batch, NEW q \in Questions,
           Refused(q) \/ Granted(q) \/ WaitCancelled(q)
    PROVE  Clocks'
<1>1. CASE Refused(q) \/ WaitCancelled(q)
  <2>1. ask[q].at \in InRound /\ "pending" \in Settled /\ Over(q, "pending") /\ now' = now
    BY <1>1 DEF Refused, WaitCancelled, InRound, Settled
  <2> QED
    BY <2>1, OverTime
<1>2. CASE Granted(q)
  <2>1. ask[q].at \in InRound /\ "waiting" \in InRound /\ now' = now
    BY <1>2 DEF Granted, InRound
  <2>2. AskMoves(q, "waiting", PassesAt(q[2]))
    BY <1>2 DEF Granted
  <2>3. PassesAt(q[2]) \in Int /\ now <= PassesAt(q[2])
    <3>1. now \in Int /\ next[q[2]] \in Int
      BY SameBatch DEF IInv, Types
    <3> QED
      BY <3>1, TimesAreInts DEF PassesAt, Later
  <2>4. CASE ask[q].round = 1
    BY <1>2, <2>1, <2>2, <2>3, <2>4, MovesInTime DEF Granted
  <2>5. CASE ask[q].round # 1
    <3> DEFINE question == [ask[q] EXCEPT !.at = "waiting", !.until = PassesAt(q[2])]
    <3>1. ask' = [ask EXCEPT ![q] = question] /\ item' = item /\ ask[q] \in AskRecord
      BY <2>2 DEF AskMoves, IInv, Types
    <3>2. question \in AskRecord /\ question.round # 1
      BY <2>3, <2>5, <3>1 DEF AskRecord, Unasked
    <3> HIDE DEF question
    <3> QED
      BY <2>1, <2>5, <3>1, <3>2, QuestionTime DEF QuestionClock, Active
  <2> QED
    BY <2>4, <2>5
<1> QED
  BY <1>1, <1>2

LEMMA CheckInTime ==
    ASSUME IInv, Clocks, batch' = batch, NEW q \in Questions,
           \/ Passes(q)
           \/ \E failure \in {"limited", "server", "status", "connection", "timeout"} :
                 RequestFails(q, failure)
           \/ SleepEnds(q)
           \/ RequestAnswered(q)
           \/ \E outcome \in {"answered", "failed", "pending"} : ReadEnds(q, outcome)
    PROVE  Clocks'
<1>1. ask[q] \in AskRecord /\ now \in Int
  BY DEF IInv, Types
<1>2. CASE Passes(q)
  <2> DEFINE deadline == DeadlineOf(q)
  <2>1. deadline \in Int /\ (ask[q].round = 1 => deadline = ask[q].deadline)
    BY <1>1, TimesAreInts DEF DeadlineOf, AskRecord
  <2>2. Request(q, 0, deadline) /\ ask[q].at \in InRound /\ now' = now /\ item' = item
    BY <1>2 DEF Passes, InRound
  <2> HIDE DEF deadline
  <2> QED
    BY <2>1, <2>2, RequestInTime
<1>3. ASSUME NEW failure \in {"limited", "server", "status", "connection", "timeout"},
             RequestFails(q, failure)
      PROVE  Clocks'
  <2> DEFINE delay   == RetryDelay(failure, ask[q].attempt)
             until   == Later(now, Earlier(now + delay[1], ask[q].deadline))
             outcome == IF failure \in {"limited", "timeout"} THEN "pending" ELSE "failed"
  <2>1. ask[q].at \in InRound /\ now' = now /\ ask[q].attempt \in Nat
    BY <1>1, <1>3 DEF RequestFails, InRound, Checking, AskRecord
  <2>2. CASE delay # <<>>
    <3>1. delay[1] \in Nat
      BY <2>1, <2>2, PausesEnd
    <3>2. AskMoves(q, "sleeping", until)
      BY <1>3, <2>2 DEF RequestFails
    <3> HIDE DEF delay
    <3>3. until \in Int /\ now <= until /\ (until <= ask[q].deadline \/ until = now)
      BY <1>1, <3>1 DEF Later, Earlier, AskRecord
    <3> HIDE DEF until
    <3>4. "sleeping" \in InRound
      BY DEF InRound, Checking
    <3> QED
      BY <2>1, <3>2, <3>3, <3>4, MovesInTime
  <2>3. CASE delay = <<>>
    <3>1. Over(q, outcome)
      BY <1>3, <2>3 DEF RequestFails
    <3>2. outcome \in Settled
      BY DEF Settled
    <3> HIDE DEF outcome
    <3> QED
      BY <2>1, <3>1, <3>2, OverTime
  <2> QED
    BY <2>2, <2>3
<1>4. CASE SleepEnds(q)
  <2>1. /\ ask[q].at \in InRound /\ now' = now /\ "pending" \in Settled
        /\ ask[q].attempt + 1 \in Nat /\ ask[q].deadline \in Int
    BY <1>1, <1>4 DEF SleepEnds, Checking, InRound, AskRecord, Settled
  <2>2. \/ Over(q, "pending")
        \/ Request(q, ask[q].attempt + 1, ask[q].deadline) /\ item' = item
    BY <1>4 DEF SleepEnds
  <2> QED
    BY <2>1, <2>2, OverTime, RequestInTime
<1>5. CASE RequestAnswered(q)
  <2>1. /\ AskMoves(q, "reading", ask[q].until) /\ ask[q].until \in Int /\ now' = now
        /\ ask[q].at \in InRound /\ "reading" \in InRound
    BY <1>1, <1>5 DEF RequestAnswered, AskRecord, InRound, Checking
  <2>2. CASE Active(ask[q])
    <3>1. now <= ask[q].until
      BY <2>2 DEF Clocks, QuestionClock
    <3> QED
      BY <1>1, <2>1, <3>1, MovesInTime DEF AskRecord
  <2>3. CASE ~Active(ask[q])
    <3> DEFINE question == [ask[q] EXCEPT !.at = "reading", !.until = ask[q].until]
    <3>1. ask' = [ask EXCEPT ![q] = question] /\ item' = item
      BY <2>1 DEF AskMoves, IInv, Types
    <3>2. question \in AskRecord /\ question.round # 1
      BY <1>1, <2>1, <2>3 DEF AskRecord, Checking, Active
    <3> HIDE DEF question
    <3> QED
      BY <2>1, <2>3, <3>1, <3>2, QuestionTime DEF QuestionClock, Active
  <2> QED
    BY <2>2, <2>3
<1>6. ASSUME NEW outcome \in {"answered", "failed", "pending"}, ReadEnds(q, outcome)
      PROVE  Clocks'
  <2>1. ask[q].at \in InRound /\ outcome \in Settled /\ Over(q, outcome) /\ now' = now
    BY <1>6 DEF ReadEnds, Checking, InRound, Settled
  <2> QED
    BY <2>1, OverTime
<1> QED
  BY <1>2, <1>3, <1>4, <1>5, <1>6

LEMMA RetryInTime ==
    ASSUME IInv, Clocks, batch' = batch, NEW q \in Questions, StartRetry(q) \/ BackoffEnds(q)
    PROVE  Clocks'
<1>1. ask[q] \in AskRecord /\ now \in Int /\ Counted(ask[q], sent[q])
  BY DEF IInv, Types, Counts
<1>2. CASE StartRetry(q)
  <2> DEFINE until    == now + Backoff
             question == [ask[q] EXCEPT !.at = "backoff", !.until = until, !.round = 2]
  <2>1. until \in Int
    BY <1>1, TimesAreInts
  <2>2. /\ ask' = [ask EXCEPT ![q] = question] /\ item' = item /\ now' = now
        /\ ask[q].at = "pending"
    BY <1>2 DEF StartRetry, FirstPending, Pending, IInv, Types
  <2> HIDE DEF until
  <2>3. question \in AskRecord /\ question.round # 1 /\ ~Active(ask[q])
    <3>1. question \in AskRecord /\ question.round = 2
      BY <1>1, <2>1 DEF AskRecord, Unasked
    <3> QED
      BY <2>2, <3>1 DEF Active, InRound, Checking
  <2> HIDE DEF question
  <2> QED
    BY <2>2, <2>3, QuestionTime DEF QuestionClock, Active
<1>3. CASE BackoffEnds(q)
  <2>1. AskMoves(q, "turn", now) /\ now' = now /\ ask[q].round = 2
    BY <1>1, <1>3 DEF BackoffEnds, Counted
  <2>2. "turn" \in InRound
    BY DEF InRound
  <2> QED
    BY <1>1, <2>1, <2>2, MovesInTime
<1> QED
  BY <1>2, <1>3

-----------------------------------------------------------------------------
(* The clocks of the items.                                                *)

\* The item i changes, about which nothing is being asked.
LEMMA ItemTime ==
    ASSUME IInv, Clocks, batch' = batch, now' = now, ask' = ask,
           NEW i \in Items, NEW record \in ItemRecord,
           item' = [item EXCEPT ![i] = record],
           item[i].at \in Early,
           record.at \in {"dialing", "handshake", "resolving", "checked"},
           record.deadline = record.started + Timeout,
           record.at # "checked" =>
               now <= record.until /\
               record.until <= record.started + (IF Endpoints[i].port443 THEN 2 * Timeout ELSE Timeout),
           record.at = "dialing" => record.until = record.deadline
    PROVE  Clocks'
<1>1. \A j \in Items : item'[j] = IF j = i THEN record ELSE item[j]
  BY DEF IInv, Types
<1>2. ASSUME NEW j \in Items PROVE ItemClock(j)'
  BY <1>1, SameBatch DEF Clocks, ItemClock, Limit
<1>3. ASSUME NEW q \in Questions PROVE QuestionClock(ask[q], q[1])'
  <2>1. q[1] \in Items /\ q[2] \in Providers /\ q = <<q[1], q[2]>>
    BY SameBatch
  <2>2. CASE q[1] = i
    <3>1. ask[q].at = "none"
      BY <2>1, <2>2 DEF IInv, InTurn
    <3> QED
      BY <3>1 DEF QuestionClock, Active, InRound, Checking
  <2>3. CASE q[1] # i
    BY <1>1, <2>1, <2>3, SameBatch DEF Clocks, QuestionClock, Limit
  <2> QED
    BY <2>2, <2>3
<1> QED
  BY <1>2, <1>3, SameBatch DEF Clocks

LEMMA ItemInTimeStep ==
    ASSUME IInv, Clocks, batch' = batch, NEW i \in Items, ItemStep(i)
    PROVE  Clocks'
<1>1. item[i] \in ItemRecord /\ now \in Int
  BY DEF IInv, Types
<1>2. ItemClock(i)
  BY DEF Clocks
<1>3. CASE StartItem(i)
  <2> DEFINE deadline == now + Timeout
             record   == [at |-> "dialing", until |-> deadline, deadline |-> deadline, started |-> now]
  <2>1. deadline \in Int /\ now <= deadline
    BY <1>1, TimesAreInts
  <2>2. item' = [item EXCEPT ![i] = record] /\ item[i].at \in Early /\ now' = now /\ ask' = ask
    BY <1>3 DEF StartItem, Early
  <2>3. record \in ItemRecord
    BY <1>1, <2>1 DEF ItemRecord, Early
  <2>4. deadline <= now + (IF Endpoints[i].port443 THEN 2 * Timeout ELSE Timeout)
    BY <1>1, TimesAreInts
  <2> QED
    BY <2>1, <2>2, <2>3, <2>4, ItemTime
<1>4. ASSUME NEW at \in {"handshake", "resolving"}, NEW until \in Int, ItemMoves(i, at, until),
             item[i].at \in {"dialing", "handshake", "resolving"}, now' = now, ask' = ask,
             now <= until, until <= Limit(i)
      PROVE  Clocks'
  <2> DEFINE record == [item[i] EXCEPT !.at = at, !.until = until]
  <2>1. item' = [item EXCEPT ![i] = record]
    BY <1>4 DEF ItemMoves, IInv, Types
  <2>2. /\ record \in ItemRecord /\ record.at = at /\ record.until = until
        /\ record.deadline = item[i].deadline /\ record.started = item[i].started
    BY <1>1, <1>4 DEF ItemRecord, Early
  <2>3. item[i].at \in Early /\ item[i].deadline = item[i].started + Timeout
    BY <1>2, <1>4 DEF Early, ItemClock
  <2> HIDE DEF record
  <2> QED
    BY <1>4, <2>1, <2>2, <2>3, ItemTime DEF Limit
<1>5. ASSUME LookUp(i), item[i].at \in {"dialing", "handshake"}, now' = now, ask' = ask
      PROVE  Clocks'
  <2> DEFINE until == IF Endpoints[i].named THEN Later(now, item[i].deadline) ELSE now
  <2>1. /\ now <= item[i].until /\ item[i].until <= Limit(i)
        /\ item[i].deadline = item[i].started + Timeout
    BY <1>2, <1>5 DEF ItemClock
  <2>2. until \in Int /\ now <= until /\ until <= Limit(i)
    BY <1>1, <2>1, LimitIsLater, TimesAreInts DEF Later, ItemRecord
  <2>3. ItemMoves(i, "resolving", until)
    BY <1>5 DEF LookUp
  <2> HIDE DEF until
  <2> QED
    BY <1>4, <1>5, <2>2, <2>3
<1>6. CASE Dialed(i)
  <2>1. item[i].at = "dialing" /\ now' = now /\ ask' = ask
    BY <1>6 DEF Dialed
  <2>2. CASE Endpoints[i].port443 /\ now < item[i].until /\ ItemMoves(i, "handshake", now + Timeout)
    <3>1. item[i].until = item[i].started + Timeout /\ item[i].started \in Int
      BY <1>1, <1>2, <2>1 DEF ItemClock, ItemRecord
    <3>2. now + Timeout \in Int /\ now <= now + Timeout /\ now + Timeout <= Limit(i)
      BY <1>1, <2>2, <3>1, LimitIsLater, TimesAreInts
    <3> QED
      BY <1>4, <2>1, <2>2, <3>2
  <2>3. CASE LookUp(i)
    BY <1>5, <2>1, <2>3
  <2> QED
    BY <1>6, <2>2, <2>3 DEF Dialed
<1>7. CASE HandshakeEnds(i)
  BY <1>5, <1>7 DEF HandshakeEnds
<1>8. ASSUME Checked(i), item[i].at = "resolving", now' = now, ask' = ask
      PROVE  Clocks'
  <2> DEFINE record == [item[i] EXCEPT !.at = "checked", !.until = now]
  <2>1. item' = [item EXCEPT ![i] = record]
    BY <1>8 DEF Checked, ItemMoves, IInv, Types
  <2>2. /\ record \in ItemRecord /\ record.at = "checked"
        /\ record.deadline = item[i].deadline /\ record.started = item[i].started
    BY <1>1 DEF ItemRecord
  <2>3. item[i].at \in Early /\ item[i].deadline = item[i].started + Timeout
    BY <1>2, <1>8 DEF Early, ItemClock
  <2> HIDE DEF record
  <2> QED
    BY <1>8, <2>1, <2>2, <2>3, ItemTime
<1>9. CASE ResolveFails(i)
  BY <1>8, <1>9 DEF ResolveFails
<1>10. CASE Resolves(i) /\ ProviderCount = 0
  BY <1>8, <1>10 DEF Resolves
<1>11. CASE Resolves(i) /\ ProviderCount # 0
  <2> DEFINE record   == [item[i] EXCEPT !.at = "asking", !.until = now]
             first    == <<i, 1>>
             question == [ask[first] EXCEPT !.at = "turn", !.until = now, !.deadline = item[i].deadline]
  <2>1. item[i].at = "resolving" /\ now' = now
    BY <1>11 DEF Resolves
  <2>2. /\ item' = [item EXCEPT ![i] = record]
        /\ ask' = [ask EXCEPT ![first] = question]
    <3>1. first \in Questions
      <4>1. Questions = Items \X Providers
        BY SameBatch
      <4> QED
        BY <1>11, <4>1, BatchesAssumption DEF IInv, Types, Providers, ProviderCount
    <3>2. item' = [item EXCEPT ![i] = record]
      BY <1>11 DEF Resolves, ItemMoves, IInv, Types
    <3> QED
      BY <1>11, <3>1, <3>2 DEF Resolves, Due, IInv, Types
  <2>3. first \in Questions /\ 1 \in Providers
    <3>1. Questions = Items \X Providers
      BY SameBatch
    <3> QED
      BY <1>11, <3>1, BatchesAssumption DEF IInv, Types, Providers, ProviderCount
  <2>4. ask[first] \in AskRecord /\ ask[first].at = "none" /\ ask[first].round = 1
    <3>1. ask[first] \in AskRecord /\ Counted(ask[first], sent[first])
      BY <2>3 DEF IInv, Types, Counts
    <3>2. ask[first].at = "none"
      BY <2>1, <2>3 DEF IInv, InTurn, Early
    <3> QED
      BY <3>1, <3>2 DEF Counted
  <2>5. /\ Active(question) /\ question.until = now /\ question.deadline = item[i].deadline
    BY <2>4 DEF AskRecord, Active, InRound
  <2>6. /\ record.at = "asking" /\ record.started = item[i].started
        /\ record.deadline = item[i].deadline
    BY <1>1 DEF ItemRecord
  <2>7. /\ item[i].deadline = item[i].started + Timeout
        /\ now <= item[i].until /\ item[i].until <= Limit(i)
    BY <1>2, <2>1 DEF ItemClock
  <2>8. now <= Limit(i)
    BY <1>1, <2>7, LimitIsLater DEF ItemRecord
  <2> HIDE DEF record, question, first
  <2>9. \A j \in Items : item'[j] = IF j = i THEN record ELSE item[j]
    BY <2>2 DEF IInv, Types
  <2>10. \A r \in Questions : ask'[r] = IF r = first THEN question ELSE ask[r]
    BY <2>2 DEF IInv, Types
  <2>11. ASSUME NEW j \in Items PROVE ItemClock(j)'
    <3>1. CASE j = i
      <4>1. Active(ask'[<<i, 1>>])
        BY <2>3, <2>5, <2>10 DEF first
      <4> QED
        BY <2>3, <2>6, <2>7, <2>9, <3>1, <4>1, SameBatch DEF ItemClock, Active
    <3>2. CASE j # i
      <4>1. \A p \in Providers : ask'[<<j, p>>] = ask[<<j, p>>]
        BY <2>10, <3>2, SameBatch DEF first
      <4> QED
        BY <2>1, <2>9, <3>2, <4>1, SameBatch DEF Clocks, ItemClock, Limit, Active
    <3> QED
      BY <3>1, <3>2
  <2>12. ASSUME NEW r \in Questions PROVE QuestionClock(ask[r], r[1])'
    <3>1. r[1] \in Items
      BY SameBatch
    <3>2. \A j \in Items : item'[j].started = item[j].started
      BY <2>6, <2>9
    <3>3. CASE r = first
      <4>1. r[1] = i
        BY <3>3 DEF first
      <4> QED
        BY <2>1, <2>3, <2>5, <2>7, <2>8, <2>10, <3>2, <3>3, <4>1, <1>1, SameBatch
           DEF QuestionClock, Limit, Active
    <3>4. CASE r # first
      BY <2>1, <2>10, <3>1, <3>2, <3>4, SameBatch DEF Clocks, QuestionClock, Limit, Active
    <3> QED
      BY <3>3, <3>4
  <2> QED
    BY <2>11, <2>12, SameBatch DEF Clocks
<1> QED
  BY <1>3, <1>6, <1>7, <1>9, <1>10, <1>11 DEF ItemStep

\* Time passes only while everything that clocks run for is before its time.
LEMMA TickInTime ==
    ASSUME IInv, Clocks, batch' = batch, Tick
    PROVE  Clocks'
<1>1. now \in Int /\ now' = now + 1 /\ item' = item /\ ask' = ask
  BY DEF Tick, IInv, Types
<1>2. ASSUME NEW i \in Items PROVE ItemClock(i)'
  <2>1. item[i] \in ItemRecord
    BY DEF IInv, Types
  <2>2. item[i].at \in {"dialing", "handshake", "resolving"} => now + 1 <= item[i].until
    <3>1. item[i].at \in {"dialing", "handshake", "resolving"} => now < item[i].until
      BY DEF Tick, Timed
    <3> QED
      BY <1>1, <2>1, <3>1 DEF ItemRecord
  <2> QED
    BY <1>1, <2>2, SameBatch DEF Clocks, ItemClock, Limit
<1>3. ASSUME NEW q \in Questions PROVE QuestionClock(ask[q], q[1])'
  <2>1. ask[q] \in AskRecord
    BY DEF IInv, Types
  <2>2. Active(ask[q]) => now + 1 <= ask[q].until
    <3>1. Active(ask[q]) => q \in Asking
      BY DEF Active, InRound, Checking, Asking
    <3> QED
      BY <1>1, <2>1, <3>1 DEF Tick, AskRecord
  <2> QED
    BY <1>1, <2>2, SameBatch DEF Clocks, QuestionClock, Limit
<1> QED
  BY <1>2, <1>3, SameBatch DEF Clocks

LEMMA ClocksStep == IInv /\ Clocks /\ [Next]_vars => Clocks'
<1> SUFFICES ASSUME IInv, Clocks, [Next]_vars PROVE Clocks'
  OBVIOUS
<1>1. CASE batch' = batch /\ now' = now /\ item' = item /\ ask' = ask
  BY <1>1, SameBatch DEF Clocks, ItemClock, QuestionClock, Limit
<1>2. CASE Next
  <2>1. batch' = batch
    BY <1>2 DEF Next
  <2>2. CASE Tick
    BY <2>1, <2>2, TickInTime
  <2>3. CASE BeginRetries \/ Finish
    BY <1>1, <2>1, <2>3 DEF BeginRetries, Finish
  <2>4. ASSUME NEW i \in Items, ItemStep(i) PROVE Clocks'
    BY <2>1, <2>4, ItemInTimeStep
  <2>5. ASSUME NEW q \in Questions, QuestionStep(q) PROVE Clocks'
    BY <2>1, <2>5, TurnInTime, CheckInTime, RetryInTime DEF QuestionStep
  <2> QED
    BY <1>2, <2>2, <2>3, <2>4, <2>5 DEF Next
<1> QED
  BY <1>1, <1>2 DEF vars, changing

\* A worker is done with its item by the deadline, or by twice the time on port
\* 443, where the handshake has a limit of its own (checker.go): however long
\* the limiters make it wait and however requests are repeated in between
\* (batch.go 194-246, providers.go 78-103).
THEOREM ItemsAreInTime == Spec => []ItemInTime
<1>1. IInv /\ Clocks => ItemInTime
  <2> SUFFICES ASSUME IInv, Clocks, NEW i \in Busy PROVE now <= Limit(i)
    BY DEF ItemInTime, Limit
  <2>1. i \in Items /\ item[i] \in ItemRecord /\ now \in Int /\ Limit(i) \in Int
    BY LimitIsLater DEF Busy, IInv, Types
  <2>2. CASE item[i].at \in {"dialing", "handshake", "resolving"}
    BY <2>1, <2>2 DEF Clocks, ItemClock, ItemRecord
  <2>3. CASE item[i].at = "asking"
    <3>1. PICK p \in Providers : Active(ask[<<i, p>>])
      BY <2>1, <2>3 DEF Clocks, ItemClock
    <3>2. <<i, p>> \in Questions
      BY <2>1 DEF Questions
    <3>3. now <= ask[<<i, p>>].until /\ ask[<<i, p>>].until <= Limit(i) /\ ask[<<i, p>>].until \in Int
      BY <3>1, <3>2 DEF Clocks, QuestionClock, IInv, Types, AskRecord
    <3> QED
      BY <2>1, <3>3
  <2> QED
    BY <2>1, <2>2, <2>3 DEF Busy, ItemRecord, Early
<1> QED
  BY <1>1, InitInvariant, StepInvariant, InitClocks, ClocksStep, PTL DEF Spec

-----------------------------------------------------------------------------
(* The rate limiters.  The places in a bucket that are taken, by checks    *)
(* that have begun and by those that wait, push the time at which the      *)
(* bucket is full on by an interval each, and that time is never further   *)
(* away than the bucket and the waits that are still to come.              *)

\* The items whose question to provider p waits for the limiter: all of them,
\* and those that wait beyond a time.
Held(I, p, asks)        == {i \in I : asks[<<i, p>>].at = "waiting"}
HeldPast(I, p, asks, t) == {i \in Held(I, p, asks) : asks[<<i, p>>].until > t}

Begun(I, p, requests) == UNION {{i} \X DOMAIN requests[<<i, p>>] : i \in I}

BegunAs(I, p, requests, check) ==
    \E i \in I : \E n \in DOMAIN requests[<<i, p>>] : check = <<i, n>>

LEMMA InBegun ==
    ASSUME NEW I, NEW p, NEW requests, NEW check
    PROVE  check \in Begun(I, p, requests) <=> BegunAs(I, p, requests, check)
<1> USE DEF BegunAs
<1>1. ASSUME check \in Begun(I, p, requests)
      PROVE  \E i \in I : \E n \in DOMAIN requests[<<i, p>>] : check = <<i, n>>
  <2>1. PICK i \in I : check \in {i} \X DOMAIN requests[<<i, p>>]
    BY <1>1 DEF Begun
  <2>2. PICK j \in {i}, n \in DOMAIN requests[<<i, p>>] : check = <<j, n>>
    BY <2>1
  <2> QED
    BY <2>2
<1>2. ASSUME NEW i \in I, NEW n \in DOMAIN requests[<<i, p>>]
      PROVE  <<i, n>> \in Begun(I, p, requests)
  <2>1. <<i, n>> \in {i} \X DOMAIN requests[<<i, p>>]
    OBVIOUS
  <2> QED
    BY <2>1 DEF Begun
<1> QED
  BY <1>1, <1>2

InBudget(I, p, asks, requests, full, time) ==
    /\ (Cardinality(Begun(I, p, requests)) + Cardinality(Held(I, p, asks))) * Interval <= full
    /\ \A t \in Int : t >= time =>
          full <= t + (Burst + Cardinality(HeldPast(I, p, asks, t))) * Interval

\* No wait of the first round is longer than the item has time.
WaitInTime(question) ==
    question.at = "waiting" /\ question.round = 1 => question.until <= question.deadline

Budgets ==
    /\ \A q \in Questions : WaitInTime(ask[q])
    /\ \A p \in Providers : InBudget(Items, p, ask, sent, next[p], now)

\* A question that goes on waits as it did.
WaitsOn(before, after) ==
    /\ before.at = "waiting" <=> after.at = "waiting"
    /\ before.at = "waiting" =>
          /\ after.until = before.until
          /\ after.round = before.round
          /\ after.deadline = before.deadline

\* No limiter notices the step.
Unnoticed ==
    /\ batch' = batch
    /\ next' = next
    /\ now' \in Int /\ now <= now'
    /\ \A q \in Questions : /\ WaitsOn(ask[q], ask'[q])
                            /\ DOMAIN sent'[q] = DOMAIN sent[q]

LEMMA UnnoticedKeeps ==
    ASSUME IInv, Budgets, Unnoticed
    PROVE  Budgets'
<1>1. \A q \in Questions : WaitInTime(ask'[q])
  BY DEF Budgets, Unnoticed, WaitsOn, WaitInTime
<1>2. ASSUME NEW p \in Providers PROVE InBudget(Items, p, ask', sent', next'[p], now')
  <2>1. \A i \in Items : <<i, p>> \in Questions
    BY DEF Questions
  <2>2. Held(Items, p, ask') = Held(Items, p, ask)
    BY <2>1 DEF Held, Unnoticed, WaitsOn
  <2>3. ASSUME NEW t PROVE HeldPast(Items, p, ask', t) = HeldPast(Items, p, ask, t)
    BY <2>1, <2>2 DEF HeldPast, Held, Unnoticed, WaitsOn
  <2>4. Begun(Items, p, sent') = Begun(Items, p, sent)
    BY <2>1 DEF Begun, Unnoticed
  <2>5. next'[p] = next[p] /\ now' \in Int /\ now \in Int /\ now <= now'
    BY DEF Unnoticed, IInv, Types
  <2>6. \A t \in Int : t >= now' => t >= now
    BY <2>5
  <2>7. InBudget(Items, p, ask, sent, next[p], now)
    BY DEF Budgets
  <2> QED
    BY <2>2, <2>3, <2>4, <2>5, <2>6, <2>7 DEF InBudget
<1> QED
  BY <1>1, <1>2, SameBatch DEF Budgets, Unnoticed

\* A question that is over does not wait, and the next one does not yet.
LEMMA OverWaits ==
    ASSUME IInv, NEW q \in Questions, NEW outcome \in Settled, Over(q, outcome),
           ask[q].at \in InRound
    PROVE  /\ ask'[q].at # "waiting"
           /\ \A r \in Questions : r # q => WaitsOn(ask[r], ask'[r])
<1> DEFINE at     == IF outcome = "pending" /\ ask[q].round = 2 THEN "failed" ELSE outcome
           closed == [ask EXCEPT ![q].at = at]
           i      == q[1]
           after  == <<i, q[2] + 1>>
<1>1. /\ q[1] \in Items /\ q[2] \in Providers /\ q = <<q[1], q[2]>> /\ q[2] \in Int
      /\ ask \in [Questions -> AskRecord] /\ DOMAIN closed = Questions
  BY DEF Questions, Providers, IInv, Types
<1>2. at \in Settled
  BY DEF Settled
<1>3. /\ closed[q].at = at /\ \A r \in Questions : r # q => closed[r] = ask[r]
  BY <1>1 DEF AskRecord
<1>4. "waiting" \notin Settled
  BY DEF Settled
<1>5. CASE ask' = closed
  BY <1>2, <1>3, <1>4, <1>5 DEF WaitsOn
<1>6. CASE ask[q].round = 1 /\ q[2] < ProviderCount
  <2>1. after \in Questions /\ after # q /\ q[2] < q[2] + 1 /\ q[2] + 1 \in Providers
    BY <1>1, <1>6, BatchesAssumption DEF Questions, Providers, ProviderCount, IInv, Types
  <2>2. ask[after].at = "none"
    BY <1>1, <1>6, <2>1 DEF IInv, InTurn
  <2>3. ask' = [closed EXCEPT ![after].at = "turn", ![after].until = now,
                              ![after].deadline = item[i].deadline]
    BY <1>6 DEF Over
  <2> HIDE DEF closed
  <2>4. /\ \A r \in Questions : r # after => ask'[r] = closed[r]
        /\ closed[after] \in AskRecord
        /\ ask'[after] = [closed[after] EXCEPT !.at = "turn", !.until = now, !.deadline = item[i].deadline]
    BY <1>1, <1>3, <2>1, <2>3
  <2>5. ask'[after].at = "turn"
    BY <2>4 DEF AskRecord
  <2> QED
    BY <1>2, <1>3, <1>4, <2>1, <2>2, <2>4, <2>5 DEF WaitsOn
<1> QED
  BY <1>5, <1>6 DEF Over

LEMMA Scaled ==
    /\ \A a \in Int : a * Interval \in Int /\ (a + 1) * Interval = a * Interval + Interval
    /\ \A a, b \in Int : a <= b => a * Interval <= b * Interval
<1>1. Interval \in Int /\ Interval > 0
  BY TimesAssumption
<1>2. ASSUME NEW a \in Int
      PROVE  a * Interval \in Int /\ (a + 1) * Interval = a * Interval + Interval
  BY <1>1
<1>3. ASSUME NEW a \in Int, NEW b \in Int, a <= b PROVE a * Interval <= b * Interval
  <2>1. PICK n \in Nat : b = a + n
    <3>1. b - a \in Nat /\ b = a + (b - a)
      BY <1>3
    <3> QED
      BY <3>1
  <2>2. b * Interval = a * Interval + n * Interval
    BY <1>1, <2>1
  <2>3. n * Interval >= 0 /\ n * Interval \in Int /\ a * Interval \in Int
    BY <1>1
  <2> QED
    BY <2>2, <2>3
<1> QED
  BY <1>2, <1>3

\* What is counted is finite.
LEMMA FiniteParts ==
    ASSUME IInv, NEW p \in Providers
    PROVE  /\ IsFiniteSet(Held(Items, p, ask)) /\ Cardinality(Held(Items, p, ask)) \in Nat
           /\ IsFiniteSet(Begun(Items, p, sent)) /\ Cardinality(Begun(Items, p, sent)) \in Nat
           /\ \A t : /\ IsFiniteSet(HeldPast(Items, p, ask, t))
                     /\ Cardinality(HeldPast(Items, p, ask, t)) \in Nat
                     /\ Cardinality(HeldPast(Items, p, ask, t)) <= Cardinality(Held(Items, p, ask))
<1>1. IsFiniteSet(Items)
  <2>1. Endpoints \in Seq([named: BOOLEAN, port443: BOOLEAN])
    BY BatchesAssumption DEF IInv, Types, Endpoints
  <2>2. PICK n \in Nat : Items = 1..n
    BY <2>1, LenProperties DEF Items
  <2> QED
    BY <2>2, FS_Interval
<1>2. Held(Items, p, ask) \in SUBSET Items
  BY DEF Held
<1>3. Begun(Items, p, sent) \in SUBSET (Items \X (1..2))
  <2>1. ASSUME NEW i \in Items PROVE DOMAIN sent[<<i, p>>] \subseteq 1..2
    <3>1. <<i, p>> \in Questions
      BY DEF Questions
    <3>2. sent[<<i, p>>] \in Seq(Nat) /\ ask[<<i, p>>] \in AskRecord
          /\ Len(sent[<<i, p>>]) <= ask[<<i, p>>].round
      BY <3>1 DEF IInv, Types, Counts, Counted
    <3>3. ask[<<i, p>>].round \in {1, 2}
      BY <3>2 DEF AskRecord
    <3> DEFINE requests == sent[<<i, p>>]
               round    == ask[<<i, p>>].round
    <3>4. requests \in Seq(Nat) /\ Len(requests) <= round /\ round \in {1, 2}
      BY <3>2, <3>3
    <3> HIDE DEF requests, round
    <3>5. DOMAIN requests \subseteq 1..2
      BY <3>4, LenProperties
    <3> QED
      BY <3>5 DEF requests
  <2> HIDE DEF Items
  <2>2. \A c \in Begun(Items, p, sent) : c \in Items \X (1..2)
    <3> SUFFICES ASSUME NEW c \in Begun(Items, p, sent) PROVE c \in Items \X (1..2)
      OBVIOUS
    <3>1. PICK i \in Items : \E n \in DOMAIN sent[<<i, p>>] : c = <<i, n>>
      BY InBegun DEF BegunAs
    <3> QED
      BY <2>1, <3>1
  <2> QED
    BY <2>2
<1>4. IsFiniteSet(Items \X (1..2))
  <2> DEFINE rounds == 1..2
             all    == Items
  <2>1. IsFiniteSet(rounds) /\ IsFiniteSet(all)
    <3>1. 1 \in Int /\ 2 \in Int
      OBVIOUS
    <3>2. IsFiniteSet(1..2)
      BY ONLY <3>1, FS_Interval
    <3> QED
      BY <1>1, <3>2
  <2> HIDE DEF rounds, all
  <2>2. IsFiniteSet(all \X rounds)
    BY <2>1, FS_Product
  <2> QED
    BY <2>2 DEF rounds, all
<1>5. IsFiniteSet(Held(Items, p, ask)) /\ IsFiniteSet(Begun(Items, p, sent))
  BY <1>1, <1>2, <1>3, <1>4, FS_Subset
<1>6. ASSUME NEW t PROVE HeldPast(Items, p, ask, t) \in SUBSET Held(Items, p, ask)
  BY DEF HeldPast
<1>7. ASSUME NEW t
      PROVE  /\ IsFiniteSet(HeldPast(Items, p, ask, t))
             /\ Cardinality(HeldPast(Items, p, ask, t)) <= Cardinality(Held(Items, p, ask))
  BY <1>5, <1>6, FS_Subset
<1> QED
  BY <1>5, <1>7, FS_CardinalityType

\* What a step does to one question changes the counts of its provider only.
LEMMA OtherProviders ==
    ASSUME IInv, Budgets, batch' = batch, now' = now,
           NEW q \in Questions, NEW p \in Providers, p # q[2],
           next'[p] = next[p],
           \A r \in Questions : r # q => WaitsOn(ask[r], ask'[r]) /\ sent'[r] = sent[r]
    PROVE  InBudget(Items, p, ask', sent', next'[p], now')
<1>1. \A i \in Items : <<i, p>> \in Questions /\ <<i, p>> # q
  BY SameBatch
<1>2. Held(Items, p, ask') = Held(Items, p, ask)
  BY <1>1 DEF Held, WaitsOn
<1>3. ASSUME NEW t PROVE HeldPast(Items, p, ask', t) = HeldPast(Items, p, ask, t)
  BY <1>1, <1>2 DEF HeldPast, Held, WaitsOn
<1>4. Begun(Items, p, sent') = Begun(Items, p, sent)
  BY <1>1 DEF Begun
<1>5. InBudget(Items, p, ask, sent, next[p], now)
  BY DEF Budgets
<1> QED
  BY <1>2, <1>3, <1>4, <1>5 DEF InBudget

\* The places grow by one, and the bucket is full an interval later.
LEMMA GrantedKeeps ==
    ASSUME IInv, Budgets, batch' = batch, NEW q \in Questions, Granted(q)
    PROVE  Budgets'
<1> DEFINE i     == q[1]
           p     == q[2]
           until == PassesAt(p)
           full  == next[p]
<1>1. i \in Items /\ p \in Providers /\ q = <<i, p>>
  BY SameBatch
<1>2. /\ now \in Int /\ full \in Int /\ ask \in [Questions -> AskRecord] /\ next \in [Providers -> Int]
      /\ now' = now /\ sent' = sent
  BY <1>1 DEF IInv, Types, Granted
<1>3. /\ next' = [next EXCEPT ![p] = Later(now, @) + Interval]
      /\ ask[q].at = "turn"
      /\ ask' = [ask EXCEPT ![q].at = "waiting", ![q].until = until]
  BY DEF Granted, Reserved, AskMoves
<1>4. PICK passes \in Int : passes = until /\ passes >= now
                            /\ passes >= full - (Burst - 1) * Interval
                            /\ (passes = now \/ passes = full - (Burst - 1) * Interval)
  <2>1. (Burst - 1) * Interval \in Int
    BY Scaled, TimesAreInts
  <2> DEFINE spare == (Burst - 1) * Interval
  <2> HIDE DEF spare, full
  <2>2. until = Later(now, full - spare)
    BY DEF PassesAt, full, spare
  <2>3. full - spare \in Int
    BY <1>2, <2>1 DEF spare
  <2> HIDE DEF until
  <2>4. until \in Int /\ until >= now /\ until >= full - spare /\ (until = now \/ until = full - spare)
    BY <1>2, <2>2, <2>3 DEF Later
  <2> QED
    BY <2>4 DEF spare
<1> HIDE DEF until
<1>5. /\ ask'[q].at = "waiting" /\ ask'[q].until = passes
      /\ ask'[q].round = ask[q].round /\ ask'[q].deadline = ask[q].deadline
      /\ \A r \in Questions : r # q => ask'[r] = ask[r]
  BY <1>2, <1>3, <1>4 DEF AskRecord
<1>6. \A r \in Questions : WaitInTime(ask'[r])
  <2>1. WaitInTime(ask'[q])
    <3>1. ask[q].round = 1 => until <= ask[q].deadline
      BY DEF Granted, until
    <3> QED
      BY <1>4, <1>5, <3>1 DEF WaitInTime
  <2> QED
    BY <1>5, <2>1 DEF Budgets, WaitInTime
<1>7. Begun(Items, p, sent') = Begun(Items, p, sent)
  BY <1>2
<1>8. Held(Items, p, ask') = Held(Items, p, ask) \cup {i} /\ i \notin Held(Items, p, ask)
  <2>1. \A j \in Items : j # i => <<j, p>> \in Questions /\ <<j, p>> # q
    BY <1>1, SameBatch
  <2> QED
    BY <1>1, <1>3, <1>5, <2>1 DEF Held
<1>9. ASSUME NEW t \in Int
      PROVE  HeldPast(Items, p, ask', t) =
                HeldPast(Items, p, ask, t) \cup (IF passes > t THEN {i} ELSE {})
  <2>1. \A j \in Items : j # i => <<j, p>> \in Questions /\ <<j, p>> # q
    BY <1>1, SameBatch
  <2>2. \A j \in Held(Items, p, ask) : j \in Items /\ j # i
    BY <1>8 DEF Held
  <2>3. \A j \in Held(Items, p, ask) : ask'[<<j, p>>] = ask[<<j, p>>]
    BY <1>5, <2>1, <2>2
  <2>4. ask'[<<i, p>>].until = passes
    BY <1>1, <1>5
  <2> HIDE DEF i, p
  <2> QED
    BY <1>8, <2>3, <2>4 DEF HeldPast
<1>10. ASSUME NEW t \in Int
       PROVE  Cardinality(HeldPast(Items, p, ask', t)) =
                 Cardinality(HeldPast(Items, p, ask, t)) + (IF passes > t THEN 1 ELSE 0)
  <2>1. IsFiniteSet(HeldPast(Items, p, ask, t)) /\ Cardinality(HeldPast(Items, p, ask, t)) \in Nat
    BY <1>1, FiniteParts
  <2>2. i \notin HeldPast(Items, p, ask, t)
    BY <1>8 DEF HeldPast
  <2> DEFINE past == HeldPast(Items, p, ask, t)
  <2> HIDE DEF past, i, p
  <2>3. Cardinality(past \cup {i}) = Cardinality(past) + 1
    BY <2>1, <2>2, FS_AddElement DEF past
  <2>4. CASE passes > t
    BY <1>9, <2>3, <2>4 DEF past
  <2>5. CASE ~(passes > t)
    <3>1. HeldPast(Items, p, ask', t) = past
      BY <1>9, <2>5 DEF past
    <3>2. Cardinality(past) \in Nat
      BY <2>1 DEF past
    <3> QED
      BY <2>5, <3>1, <3>2 DEF past
  <2> QED
    BY <2>4, <2>5
<1>11. Cardinality(Held(Items, p, ask')) = Cardinality(Held(Items, p, ask)) + 1
  <2> DEFINE held == Held(Items, p, ask)
  <2>1. IsFiniteSet(held)
    BY <1>1, FiniteParts
  <2>2. Held(Items, p, ask') = held \cup {i} /\ i \notin held
    BY <1>8
  <2> HIDE DEF held, i, p
  <2>3. Cardinality(held \cup {i}) = Cardinality(held) + 1
    BY <2>1, <2>2, FS_AddElement
  <2> QED
    BY <2>2, <2>3 DEF held
<1>12. PICK later \in Int : /\ later = next'[p]
                            /\ later = (IF now > full THEN now ELSE full) + Interval
  <2>1. next'[p] = Later(now, full) + Interval
    BY <1>1, <1>2, <1>3
  <2> HIDE DEF full, p
  <2> QED
    BY <1>2, <2>1, TimesAreInts DEF Later
<1>13. InBudget(Items, p, ask, sent, full, now)
  BY <1>1 DEF Budgets
<1>14. /\ Burst * Interval = (Burst - 1) * Interval + Interval
       /\ Burst * Interval \in Int /\ (Burst - 1) * Interval \in Int
       /\ Interval \in Int /\ Interval > 0 /\ Burst \in Int
       /\ (Burst - 1) * Interval >= 0
  <2>1. Burst - 1 \in Int /\ Burst - 1 + 1 = Burst /\ 0 <= Burst - 1 /\ Burst \in Int
    BY TimesAssumption
  <2>2. 0 * Interval <= (Burst - 1) * Interval /\ 0 * Interval = 0
    BY <2>1, Scaled, TimesAreInts
  <2> QED
    BY <2>1, <2>2, Scaled, TimesAssumption
<1>15. InBudget(Items, p, ask', sent', next'[p], now')
  <2> DEFINE begun == Cardinality(Begun(Items, p, sent))
             held  == Cardinality(Held(Items, p, ask))
  <2>1. begun \in Nat /\ held \in Nat
    BY <1>1, FiniteParts
  <2>2. (begun + held) * Interval <= full
    BY <1>13 DEF InBudget
  <2>3. (begun + (held + 1)) * Interval <= later
    <3>1. begun + held \in Int /\ begun + (held + 1) = begun + held + 1
      BY <2>1
    <3>2. PICK taken \in Int : /\ taken = (begun + held) * Interval
                               /\ (begun + (held + 1)) * Interval = taken + Interval
      BY <3>1, Scaled
    <3> HIDE DEF begun, held, full
    <3> QED
      BY <1>2, <1>12, <1>14, <2>2, <3>2
  <2>4. ASSUME NEW t \in Int, t >= now
        PROVE  later <= t + (Burst + Cardinality(HeldPast(Items, p, ask', t))) * Interval
    <3> DEFINE past == Cardinality(HeldPast(Items, p, ask, t))
    <3>1. past \in Nat
      BY <1>1, FiniteParts
    <3>2. full <= t + (Burst + past) * Interval
      BY <1>13, <2>4 DEF InBudget
    <3>3. Cardinality(HeldPast(Items, p, ask', t)) = past + (IF passes > t THEN 1 ELSE 0)
      BY <1>10
    <3> HIDE DEF past, full, p
    <3>4. CASE passes > t
      <4>1. passes = full - (Burst - 1) * Interval /\ passes > now
        BY <1>2, <1>4, <2>4, <3>4
      <4>2. full >= now
        <5> DEFINE spare == (Burst - 1) * Interval
        <5>1. spare \in Int /\ spare >= 0 /\ passes = full - spare
          BY <1>14, <4>1
        <5> HIDE DEF spare
        <5> QED
          BY <1>2, <4>1, <5>1
      <4>3. PICK room \in Int : /\ room = (Burst + past) * Interval
                                /\ (Burst + (past + 1)) * Interval = room + Interval
        <5>1. Burst + past \in Int /\ Burst + (past + 1) = Burst + past + 1
          BY <1>14, <3>1
        <5> QED
          BY <5>1, Scaled
      <4>4. later = full + Interval
        BY <1>2, <1>12, <1>14, <4>2
      <4>5. later <= t + (Burst + (past + 1)) * Interval
        BY <1>2, <1>14, <2>4, <3>2, <4>3, <4>4
      <4> QED
        BY <3>1, <3>3, <3>4, <4>5
    <3>5. CASE ~(passes > t)
      <4>1. PICK least \in Int : least = Burst * Interval /\ least <= (Burst + past) * Interval
                                 /\ (Burst + past) * Interval \in Int
        <5>1. Burst + past \in Int /\ Burst <= Burst + past
          BY <1>14, <3>1
        <5> QED
          BY <1>14, <5>1, Scaled
      <4>2. PICK spare \in Int : spare = (Burst - 1) * Interval /\ spare >= 0 /\ least = spare + Interval
        BY <1>14, <4>1
      <4>3. later <= passes + least
        BY <1>2, <1>4, <1>12, <1>14, <4>2
      <4>4. later <= t + (Burst + past) * Interval
        <5> DEFINE room == (Burst + past) * Interval
        <5>1. room \in Int /\ least <= room
          BY <4>1
        <5> HIDE DEF room
        <5>2. later <= t + room
          BY <3>5, <4>3, <5>1
        <5> QED
          BY <5>2 DEF room
      <4>5. Cardinality(HeldPast(Items, p, ask', t)) = past
        BY <3>1, <3>3, <3>5
      <4> QED
        BY <4>4, <4>5
    <3> QED
      BY <3>4, <3>5
  <2> QED
    BY <1>2, <1>7, <1>11, <1>12, <2>3, <2>4 DEF InBudget
<1>16. ASSUME NEW r \in Providers PROVE InBudget(Items, r, ask', sent', next'[r], now')
  <2>1. CASE r = p
    BY <1>15, <2>1
  <2>2. CASE r # p
    <3>1. next'[r] = next[r]
      BY <1>2, <1>3, <2>2
    <3>2. \A s \in Questions : s # q => WaitsOn(ask[s], ask'[s]) /\ sent'[s] = sent[s]
      BY <1>2, <1>5 DEF WaitsOn
    <3> QED
      BY <1>2, <2>2, <3>1, <3>2, OtherProviders
  <2> QED
    BY <2>1, <2>2
<1> QED
  BY <1>6, <1>16, SameBatch DEF Budgets

\* A question whose wait has come to its end gives up its place among those
\* that wait, and none that a later time would count.
LEMMA WaitEnds ==
    ASSUME IInv, batch' = batch, NEW q \in Questions,
           ask[q].at = "waiting", ask[q].until <= now, ask'[q].at # "waiting",
           \A r \in Questions : r # q => WaitsOn(ask[r], ask'[r])
    PROVE  /\ Cardinality(Held(Items, q[2], ask)) > 0
           /\ Cardinality(Held(Items, q[2], ask')) = Cardinality(Held(Items, q[2], ask)) - 1
           /\ \A t \in Int : t >= now => HeldPast(Items, q[2], ask', t) = HeldPast(Items, q[2], ask, t)
<1> DEFINE i == q[1]
           p == q[2]
<1>1. i \in Items /\ p \in Providers /\ q = <<i, p>>
  BY SameBatch
<1>2. \A j \in Items : j # i => <<j, p>> \in Questions /\ <<j, p>> # q
  BY <1>1, SameBatch
<1>3. now \in Int /\ ask[q].until \in Int
  BY DEF IInv, Types, AskRecord
<1>4. Held(Items, p, ask') = Held(Items, p, ask) \ {i} /\ i \in Held(Items, p, ask)
  BY <1>1, <1>2 DEF Held, WaitsOn
<1>5. ASSUME NEW t \in Int, t >= now
      PROVE  HeldPast(Items, p, ask', t) = HeldPast(Items, p, ask, t)
  <2>1. ~(ask[<<i, p>>].until > t)
    BY <1>1, <1>3, <1>5
  <2>2. \A j \in Held(Items, p, ask') : ask'[<<j, p>>].until = ask[<<j, p>>].until
    BY <1>2, <1>4 DEF Held, WaitsOn
  <2> HIDE DEF i, p
  <2> QED
    BY <1>4, <2>1, <2>2 DEF HeldPast
<1>6. IsFiniteSet(Held(Items, p, ask)) /\ Cardinality(Held(Items, p, ask)) \in Nat
  BY <1>1, FiniteParts
<1>7. /\ Cardinality(Held(Items, p, ask)) > 0
      /\ Cardinality(Held(Items, p, ask')) = Cardinality(Held(Items, p, ask)) - 1
  <2> DEFINE held == Held(Items, p, ask)
  <2>1. IsFiniteSet(held) /\ Cardinality(held) \in Nat
    BY <1>6
  <2>2. i \in held /\ Held(Items, p, ask') = held \ {i}
    BY <1>4
  <2> HIDE DEF held, i, p
  <2>3. Cardinality(held \ {i}) = Cardinality(held) - 1
    BY <2>1, <2>2, FS_RemoveElement
  <2>4. Cardinality(held) # 0
    BY <2>1, <2>2, FS_EmptySet
  <2> QED
    BY <2>1, <2>2, <2>3, <2>4 DEF held
<1> QED
  BY <1>5, <1>7

\* The place goes over from the wait to the check.
LEMMA PassesKeeps ==
    ASSUME IInv, Budgets, batch' = batch, NEW q \in Questions, Passes(q)
    PROVE  Budgets'
<1> DEFINE i     == q[1]
           p     == q[2]
           place == Len(sent[q]) + 1
<1>1. i \in Items /\ p \in Providers /\ q = <<i, p>>
  BY SameBatch
<1>2. /\ now \in Int /\ now' = now /\ next' = next
      /\ ask \in [Questions -> AskRecord] /\ sent \in [Questions -> Seq(Nat)]
      /\ ask[q].at = "waiting" /\ ask[q].until = now
  BY DEF IInv, Types, Passes
<1>3. /\ ask'[q].at = "requesting"
      /\ \A r \in Questions : r # q => ask'[r] = ask[r]
  BY <1>2 DEF Passes, Request, AskRecord
<1>4. /\ \A r \in Questions : r # q => sent'[r] = sent[r]
      /\ DOMAIN sent'[q] = DOMAIN sent[q] \cup {place} /\ place \notin DOMAIN sent[q]
  <2>1. PICK went \in Nat : sent' = [sent EXCEPT ![q] = Append(@, went)]
    BY DEF Passes, Request, Noted
  <2>2. sent'[q] = Append(sent[q], went) /\ \A r \in Questions : r # q => sent'[r] = sent[r]
    BY <1>2, <2>1
  <2> DEFINE requests == sent[q]
  <2>3. requests \in Seq(Nat)
    BY <1>2
  <2> HIDE DEF requests
  <2>4. /\ DOMAIN requests = 1..Len(requests) /\ Len(requests) \in Nat
        /\ DOMAIN Append(requests, went) = 1..(Len(requests) + 1)
    BY <2>3, LenProperties, AppendProperties
  <2>5. DOMAIN Append(requests, went) = DOMAIN requests \cup {Len(requests) + 1}
        /\ Len(requests) + 1 \notin DOMAIN requests
    BY <2>4
  <2> QED
    BY <2>2, <2>5 DEF requests
<1>5. \A r \in Questions : WaitInTime(ask'[r])
  BY <1>3 DEF Budgets, WaitInTime
<1>6. \A r \in Questions : r # q => WaitsOn(ask[r], ask'[r]) /\ sent'[r] = sent[r]
  BY <1>3, <1>4 DEF WaitsOn
<1>7. /\ Cardinality(Held(Items, p, ask)) > 0
      /\ Cardinality(Held(Items, p, ask')) = Cardinality(Held(Items, p, ask)) - 1
      /\ \A t \in Int : t >= now => HeldPast(Items, p, ask', t) = HeldPast(Items, p, ask, t)
  BY <1>2, <1>3, <1>6, WaitEnds
<1>8. /\ Begun(Items, p, sent') = Begun(Items, p, sent) \cup {<<i, place>>}
      /\ <<i, place>> \notin Begun(Items, p, sent)
  <2>1. \A j \in Items : j # i => <<j, p>> \in Questions /\ sent'[<<j, p>>] = sent[<<j, p>>]
    BY <1>1, <1>4, SameBatch
  <2>2. /\ DOMAIN sent'[<<i, p>>] = DOMAIN sent[<<i, p>>] \cup {place}
        /\ place \notin DOMAIN sent[<<i, p>>]
    BY <1>1, <1>4
  <2>0. i \in Items
    BY <1>1
  <2> HIDE DEF i, p, place
  <2>3. ASSUME NEW c
        PROVE  c \in Begun(Items, p, sent') <=> c \in Begun(Items, p, sent) \cup {<<i, place>>}
    <3>1. /\ c \in Begun(Items, p, sent') <=> BegunAs(Items, p, sent', c)
          /\ c \in Begun(Items, p, sent) <=> BegunAs(Items, p, sent, c)
      BY InBegun
    <3>3. ASSUME NEW j \in Items, NEW n
          PROVE  n \in DOMAIN sent'[<<j, p>>] <=>
                    n \in DOMAIN sent[<<j, p>>] \/ (j = i /\ n = place)
      BY <2>1, <2>2
    <3>4. BegunAs(Items, p, sent', c) <=> BegunAs(Items, p, sent, c) \/ c = <<i, place>>
      BY <2>0, <3>3 DEF BegunAs
    <3> QED
      BY <3>1, <3>4
  <2>4. <<i, place>> \notin Begun(Items, p, sent)
    <3>1. ~BegunAs(Items, p, sent, <<i, place>>)
      BY <2>2 DEF BegunAs
    <3> QED
      BY <3>1, InBegun
  <2> QED
    BY <2>3, <2>4
<1>9. /\ Cardinality(Begun(Items, p, sent')) = Cardinality(Begun(Items, p, sent)) + 1
      /\ Cardinality(Begun(Items, p, sent)) \in Nat /\ Cardinality(Held(Items, p, ask)) \in Nat
  <2> DEFINE begun == Begun(Items, p, sent)
             added == <<i, place>>
  <2>1. IsFiniteSet(begun) /\ Cardinality(begun) \in Nat /\ Cardinality(Held(Items, p, ask)) \in Nat
    BY <1>1, FiniteParts
  <2>2. Begun(Items, p, sent') = begun \cup {added} /\ added \notin begun
    BY <1>8
  <2> HIDE DEF begun, added, p
  <2>3. Cardinality(begun \cup {added}) = Cardinality(begun) + 1
    BY <2>1, <2>2, FS_AddElement
  <2> QED
    BY <2>1, <2>2, <2>3 DEF begun
<1>10. Cardinality(Begun(Items, p, sent')) + Cardinality(Held(Items, p, ask'))
          = Cardinality(Begun(Items, p, sent)) + Cardinality(Held(Items, p, ask))
  BY <1>7, <1>9
<1>11. InBudget(Items, p, ask', sent', next'[p], now')
  <2>1. InBudget(Items, p, ask, sent, next[p], now)
    BY <1>1 DEF Budgets
  <2> QED
    BY <1>2, <1>7, <1>10, <2>1 DEF InBudget
<1>12. ASSUME NEW r \in Providers PROVE InBudget(Items, r, ask', sent', next'[r], now')
  <2>1. CASE r = p
    BY <1>11, <2>1
  <2>2. CASE r # p
    BY <1>2, <1>6, <2>2, OtherProviders
  <2> QED
    BY <2>1, <2>2
<1> QED
  BY <1>5, <1>12, SameBatch DEF Budgets

\* The place is given back, at once or never.
LEMMA CancelKeeps ==
    ASSUME IInv, Budgets, batch' = batch, NEW q \in Questions, WaitCancelled(q)
    PROVE  Budgets'
<1> DEFINE i == q[1]
           p == q[2]
<1>1. i \in Items /\ p \in Providers /\ q = <<i, p>>
  BY SameBatch
<1>2. /\ now \in Int /\ now' = now /\ sent' = sent
      /\ next \in [Providers -> Int] /\ ask[q] \in AskRecord
      /\ ask[q].at = "waiting" /\ ask[q].round = 1 /\ now >= ask[q].deadline
      /\ Over(q, "pending")
  BY DEF IInv, Types, WaitCancelled
<1>3. ask[q].until <= now
  <2>1. ask[q].until <= ask[q].deadline
    BY <1>2 DEF Budgets, WaitInTime
  <2> QED
    BY <1>2, <2>1 DEF AskRecord
<1>4. /\ ask'[q].at # "waiting"
      /\ \A r \in Questions : r # q => WaitsOn(ask[r], ask'[r])
  <2>1. ask[q].at \in InRound /\ "pending" \in Settled
    BY <1>2 DEF InRound, Settled
  <2> QED
    BY <1>2, <2>1, OverWaits
<1>5. \A r \in Questions : WaitInTime(ask'[r])
  BY <1>4 DEF Budgets, WaitInTime, WaitsOn
<1>6. /\ Cardinality(Held(Items, p, ask)) > 0
      /\ Cardinality(Held(Items, p, ask')) = Cardinality(Held(Items, p, ask)) - 1
      /\ \A t \in Int : t >= now => HeldPast(Items, p, ask', t) = HeldPast(Items, p, ask, t)
  BY <1>2, <1>3, <1>4, WaitEnds
<1>7. PICK full \in Int : full = next[p]
  BY <1>1, <1>2
<1>8. PICK less \in Int : less = next'[p] /\ (less = full \/ less = full - Interval)
  BY <1>1, <1>2, <1>7, TimesAreInts DEF WaitCancelled
<1>9. \A r \in Providers : r # p => next'[r] = next[r]
  BY <1>2 DEF WaitCancelled
<1>10. Interval \in Int /\ Interval > 0
  BY TimesAssumption
<1>11. InBudget(Items, p, ask', sent', next'[p], now')
  <2> DEFINE begun == Cardinality(Begun(Items, p, sent))
             held  == Cardinality(Held(Items, p, ask))
  <2>1. begun \in Nat /\ held \in Nat
    BY <1>1, FiniteParts
  <2>2. InBudget(Items, p, ask, sent, full, now)
    BY <1>1, <1>7 DEF Budgets
  <2>3. (begun + held) * Interval <= full
    BY <2>2 DEF InBudget
  <2>4. (begun + (held - 1)) * Interval <= less
    <3>1. begun + (held - 1) \in Int /\ begun + (held - 1) + 1 = begun + held
      BY <2>1
    <3>2. PICK left \in Int : /\ left = (begun + (held - 1)) * Interval
                              /\ (begun + held) * Interval = left + Interval
      BY <3>1, Scaled
    <3> HIDE DEF begun, held
    <3> QED
      BY <1>8, <1>10, <2>3, <3>2
  <2>5. ASSUME NEW t \in Int, t >= now
        PROVE  less <= t + (Burst + Cardinality(HeldPast(Items, p, ask', t))) * Interval
    <3>1. Cardinality(HeldPast(Items, p, ask, t)) \in Nat
      BY <1>1, FiniteParts
    <3>2. PICK room \in Int : room = (Burst + Cardinality(HeldPast(Items, p, ask, t))) * Interval
      <4>1. Burst + Cardinality(HeldPast(Items, p, ask, t)) \in Int
        BY <3>1, TimesAreInts
      <4> QED
        BY <4>1, Scaled
    <3>3. full <= t + room
      BY <2>2, <2>5, <3>2 DEF InBudget
    <3>4. less <= t + room
      BY <1>8, <1>10, <2>5, <3>3
    <3> QED
      BY <1>6, <2>5, <3>2, <3>4
  <2>6. Cardinality(Held(Items, p, ask')) = held - 1
    BY <1>6
  <2> QED
    BY <1>2, <1>8, <2>4, <2>5, <2>6 DEF InBudget
<1>12. ASSUME NEW r \in Providers PROVE InBudget(Items, r, ask', sent', next'[r], now')
  <2>1. CASE r = p
    BY <1>11, <2>1
  <2>2. CASE r # p
    BY <1>2, <1>4, <1>9, <2>2, OtherProviders
  <2> QED
    BY <2>1, <2>2
<1> QED
  BY <1>5, <1>12, SameBatch DEF Budgets

LEMMA NotWaiting ==
    ASSUME IInv, batch' = batch, now' = now, next' = next,
           NEW q \in Questions, ask[q].at # "waiting", ask'[q].at # "waiting",
           \A r \in Questions : r # q => WaitsOn(ask[r], ask'[r]) /\ sent'[r] = sent[r],
           DOMAIN sent'[q] = DOMAIN sent[q]
    PROVE  Unnoticed
<1>1. now \in Int
  BY DEF IInv, Types
<1>2. WaitsOn(ask[q], ask'[q])
  BY DEF WaitsOn
<1> QED
  BY <1>1, <1>2 DEF Unnoticed

LEMMA OverUnnoticed ==
    ASSUME IInv, batch' = batch, now' = now, next' = next, sent' = sent,
           NEW q \in Questions, NEW outcome \in Settled, Over(q, outcome),
           ask[q].at \in InRound, ask[q].at # "waiting"
    PROVE  Unnoticed
BY OverWaits, NotWaiting

LEMMA MovesUnnoticed ==
    ASSUME IInv, batch' = batch, now' = now, next' = next, sent' = sent,
           NEW q \in Questions, NEW at, NEW until, AskMoves(q, at, until),
           ask[q].at # "waiting", at # "waiting"
    PROVE  Unnoticed
<1>1. ask \in [Questions -> AskRecord]
  BY DEF IInv, Types
<1>2. ask'[q].at = at /\ \A r \in Questions : r # q => ask'[r] = ask[r]
  BY <1>1 DEF AskMoves, AskRecord
<1>3. \A r \in Questions : r # q => WaitsOn(ask[r], ask'[r]) /\ sent'[r] = sent[r]
  BY <1>2 DEF WaitsOn
<1> QED
  BY <1>2, <1>3, NotWaiting

LEMMA ItemUnnoticed ==
    ASSUME IInv, batch' = batch, NEW i \in Items, ItemStep(i)
    PROVE  Unnoticed
<1>1. now \in Int /\ now' = now /\ next' = next /\ sent' = sent
  BY DEF IInv, Types, ItemStep, StartItem, Dialed, HandshakeEnds, Resolves, ResolveFails
<1>2. CASE ask' = ask
  BY <1>1, <1>2 DEF Unnoticed, WaitsOn
<1>3. CASE Resolves(i) /\ ProviderCount # 0
  <2> DEFINE first == <<i, 1>>
  <2>1. first \in Questions /\ 1 \in Providers
    <3>1. Questions = Items \X Providers
      BY SameBatch
    <3> QED
      BY <1>3, <3>1, BatchesAssumption DEF IInv, Types, Providers, ProviderCount
  <2>2. ask[first].at = "none"
    BY <1>3, <2>1 DEF IInv, InTurn, Early, Resolves
  <2>3. ask' = [ask EXCEPT ![first].at = "turn", ![first].until = now,
                           ![first].deadline = item[i].deadline]
    BY <1>3 DEF Resolves, Due
  <2>4. ask \in [Questions -> AskRecord]
    BY DEF IInv, Types
  <2> HIDE DEF first
  <2>5. ask'[first].at = "turn" /\ \A r \in Questions : r # first => ask'[r] = ask[r]
    BY <2>1, <2>3, <2>4 DEF AskRecord
  <2>6. \A r \in Questions : r # first => WaitsOn(ask[r], ask'[r]) /\ sent'[r] = sent[r]
    BY <1>1, <2>5 DEF WaitsOn
  <2>7. DOMAIN sent'[first] = DOMAIN sent[first]
    BY <1>1
  <2> QED
    BY <1>1, <2>1, <2>2, <2>5, <2>6, <2>7, NotWaiting
<1> QED
  BY <1>2, <1>3 DEF ItemStep, StartItem, Dialed, HandshakeEnds, Resolves, ResolveFails

LEMMA CheckUnnoticed ==
    ASSUME IInv, batch' = batch, NEW q \in Questions,
           \/ \E failure \in {"limited", "server", "status", "connection", "timeout"} :
                 RequestFails(q, failure)
           \/ SleepEnds(q)
           \/ RequestAnswered(q)
           \/ \E outcome \in {"answered", "failed", "pending"} : ReadEnds(q, outcome)
    PROVE  Unnoticed
<1>1. CASE \E failure \in {"limited", "server", "status", "connection", "timeout"} :
              RequestFails(q, failure)
  <2>1. PICK failure \in {"limited", "server", "status", "connection", "timeout"} :
              RequestFails(q, failure)
    BY <1>1
  <2>2. /\ ask[q].at = "requesting" /\ now' = now /\ next' = next /\ sent' = sent
        /\ \/ \E until : AskMoves(q, "sleeping", until)
           \/ Over(q, IF failure \in {"limited", "timeout"} THEN "pending" ELSE "failed")
    BY <2>1 DEF RequestFails
  <2>3. ask[q].at \in InRound /\ ask[q].at # "waiting"
    BY <2>2 DEF InRound, Checking
  <2>4. CASE \E until : AskMoves(q, "sleeping", until)
    BY <2>2, <2>3, <2>4, MovesUnnoticed
  <2>5. CASE Over(q, IF failure \in {"limited", "timeout"} THEN "pending" ELSE "failed")
    <3>1. PICK outcome \in Settled : Over(q, outcome)
      BY <2>5 DEF Settled
    <3> QED
      BY <2>2, <2>3, <3>1, OverUnnoticed
  <2> QED
    BY <2>2, <2>4, <2>5
<1>2. CASE SleepEnds(q)
  <2>1. /\ ask[q].at = "sleeping" /\ now' = now /\ next' = next
        /\ \/ Request(q, ask[q].attempt + 1, ask[q].deadline)
           \/ Over(q, "pending") /\ sent' = sent
    BY <1>2 DEF SleepEnds
  <2>2. ask[q].at \in InRound /\ ask[q].at # "waiting" /\ "pending" \in Settled
    BY <2>1 DEF InRound, Checking, Settled
  <2>3. CASE Request(q, ask[q].attempt + 1, ask[q].deadline)
    <3>1. /\ ask \in [Questions -> AskRecord] /\ sent \in [Questions -> Seq(Nat)]
          /\ ask[q].attempt + 1 # 0
      BY DEF IInv, Types, AskRecord
    <3>2. ask'[q].at = "requesting" /\ \A r \in Questions : r # q => ask'[r] = ask[r]
      BY <2>3, <3>1 DEF Request, AskRecord
    <3>3. PICK went \in Nat :
             sent' = [sent EXCEPT ![q] = [sent[q] EXCEPT ![Len(sent[q])] = @ + went]]
      BY <2>3, <3>1 DEF Request, Noted
    <3>4. DOMAIN sent'[q] = DOMAIN sent[q] /\ \A r \in Questions : r # q => sent'[r] = sent[r]
      BY <3>1, <3>3
    <3>5. \A r \in Questions : r # q => WaitsOn(ask[r], ask'[r]) /\ sent'[r] = sent[r]
      BY <3>2, <3>4 DEF WaitsOn
    <3> QED
      BY <2>1, <2>2, <3>2, <3>4, <3>5, NotWaiting
  <2>4. CASE Over(q, "pending") /\ sent' = sent
    BY <2>1, <2>2, <2>4, OverUnnoticed
  <2> QED
    BY <2>1, <2>3, <2>4
<1>3. CASE RequestAnswered(q)
  BY <1>3, MovesUnnoticed DEF RequestAnswered
<1>4. CASE \E outcome \in {"answered", "failed", "pending"} : ReadEnds(q, outcome)
  <2>1. PICK outcome \in Settled : ReadEnds(q, outcome)
    BY <1>4 DEF Settled
  <2>2. ask[q].at \in InRound /\ ask[q].at # "waiting"
    BY <2>1 DEF ReadEnds, InRound, Checking
  <2> QED
    BY <2>1, <2>2, OverUnnoticed DEF ReadEnds
<1> QED
  BY <1>1, <1>2, <1>3, <1>4

LEMMA RetryUnnoticed ==
    ASSUME IInv, batch' = batch, NEW q \in Questions,
           Refused(q) \/ StartRetry(q) \/ BackoffEnds(q)
    PROVE  Unnoticed
<1>1. CASE Refused(q)
  <2>1. ask[q].at \in InRound /\ ask[q].at # "waiting" /\ "pending" \in Settled
    BY <1>1 DEF Refused, InRound, Settled
  <2> QED
    BY <1>1, <2>1, OverUnnoticed DEF Refused
<1>2. CASE StartRetry(q)
  <2>1. ask \in [Questions -> AskRecord] /\ ask[q].at = "pending"
    BY <1>2 DEF IInv, Types, StartRetry, FirstPending, Pending
  <2>2. ask'[q].at = "backoff" /\ \A r \in Questions : r # q => ask'[r] = ask[r]
    BY <1>2, <2>1 DEF StartRetry, AskRecord
  <2>3. \A r \in Questions : r # q => WaitsOn(ask[r], ask'[r]) /\ sent'[r] = sent[r]
    BY <1>2, <2>2 DEF WaitsOn, StartRetry
  <2> QED
    BY <1>2, <2>1, <2>2, <2>3, NotWaiting DEF StartRetry
<1>3. CASE BackoffEnds(q)
  BY <1>3, MovesUnnoticed DEF BackoffEnds
<1> QED
  BY <1>1, <1>2, <1>3

LEMMA BudgetsStep == IInv /\ Budgets /\ [Next]_vars => Budgets'
<1> SUFFICES ASSUME IInv, Budgets, [Next]_vars PROVE Budgets'
  OBVIOUS
<1>1. now \in Int
  BY DEF IInv, Types
<1>2. CASE UNCHANGED vars
  <2>1. Unnoticed
    BY <1>1, <1>2 DEF vars, changing, Unnoticed, WaitsOn
  <2> QED
    BY <2>1, UnnoticedKeeps
<1>3. CASE Next
  <2>1. batch' = batch
    BY <1>3 DEF Next
  <2>2. CASE Tick \/ BeginRetries \/ Finish
    <3>1. Unnoticed
      BY <1>1, <2>1, <2>2 DEF Tick, BeginRetries, Finish, Unnoticed, WaitsOn
    <3> QED
      BY <3>1, UnnoticedKeeps
  <2>3. ASSUME NEW i \in Items, ItemStep(i) PROVE Budgets'
    BY <2>1, <2>3, ItemUnnoticed, UnnoticedKeeps
  <2>4. ASSUME NEW q \in Questions, QuestionStep(q) PROVE Budgets'
    <3>1. CASE Granted(q) \/ Passes(q) \/ WaitCancelled(q)
      BY <2>1, <3>1, GrantedKeeps, PassesKeeps, CancelKeeps
    <3>2. CASE ~(Granted(q) \/ Passes(q) \/ WaitCancelled(q))
      <4>1. Unnoticed
        BY <2>1, <2>4, <3>2, CheckUnnoticed, RetryUnnoticed DEF QuestionStep
      <4> QED
        BY <4>1, UnnoticedKeeps
    <3> QED
      BY <3>1, <3>2
  <2> QED
    BY <1>3, <2>2, <2>3, <2>4 DEF Next
<1> QED
  BY <1>2, <1>3

LEMMA InitBudgets == Init => Budgets
<1> SUFFICES ASSUME Init PROVE Budgets
  OBVIOUS
<1>1. \A q \in Questions : WaitInTime(ask[q])
  BY DEF Init, NotAsked, WaitInTime
<1>2. ASSUME NEW p \in Providers PROVE InBudget(Items, p, ask, sent, next[p], now)
  <2>1. \A i \in Items : <<i, p>> \in Questions
    BY DEF Questions
  <2>2. Held(Items, p, ask) = {}
    BY <2>1 DEF Init, NotAsked, Held
  <2>3. \A t \in Int : HeldPast(Items, p, ask, t) = {}
    BY <2>2 DEF HeldPast
  <2>4. Begun(Items, p, sent) = {}
    <3>1. \A i \in Items : DOMAIN sent[<<i, p>>] = {}
      <4>1. \A i \in Items : sent[<<i, p>>] = << >>
        BY <2>1 DEF Init
      <4> QED
        BY <4>1
    <3>2. \A c : ~BegunAs(Items, p, sent, c)
      BY <3>1 DEF BegunAs
    <3> QED
      BY <3>2, InBegun
  <2>5. next[p] = 0 /\ now = 0
    BY DEF Init
  <2>6. Cardinality({}) = 0
    BY FS_EmptySet
  <2>7. 0 * Interval = 0 /\ Burst * Interval \in Int /\ 0 <= Burst * Interval
    <3>1. 0 \in Int /\ Burst \in Int /\ 0 <= Burst /\ Interval \in Int
      BY TimesAssumption
    <3>2. 0 * Interval <= Burst * Interval
      BY <3>1, Scaled
    <3> QED
      BY <3>1, <3>2, Scaled
  <2>8. (0 + 0) * Interval <= 0 /\ \A t \in Int : t >= 0 => 0 <= t + (Burst + 0) * Interval
    <3>1. 0 + 0 = 0 /\ Burst + 0 = Burst
      BY TimesAssumption
    <3> QED
      BY <2>7, <3>1
  <2> QED
    BY <2>2, <2>3, <2>4, <2>5, <2>6, <2>8 DEF InBudget
<1> QED
  BY <1>1, <1>2 DEF Budgets

\* However waits are given up, mixed between the rounds and served, the checks of
\* a provider that have begun are never more than its limiter lets pass in the
\* time that has gone by (batch.go 241-246, 371).
THEOREM BudgetIsHeld == Spec => []BudgetHeld
<1>1. IInv /\ Budgets => BudgetHeld
  <2> SUFFICES ASSUME IInv, Budgets, NEW p \in Providers
               PROVE  Cardinality(Checks(p)) <= Burst + now \div Interval
    BY DEF BudgetHeld
  <2> DEFINE begun == Cardinality(Begun(Items, p, sent))
             held  == Cardinality(Held(Items, p, ask))
             past  == Cardinality(HeldPast(Items, p, ask, now))
  <2>1. begun \in Nat /\ held \in Nat /\ past \in Nat /\ past <= held
    BY FiniteParts
  <2>2. now \in Int /\ Interval \in Int /\ Interval > 0 /\ Burst \in Int
    BY TimesAssumption DEF IInv, Types
  <2>3. InBudget(Items, p, ask, sent, next[p], now)
    BY DEF Budgets
  <2>4. (begun + held) * Interval <= next[p] /\ next[p] <= now + (Burst + past) * Interval
        /\ next[p] \in Int
    BY <2>2, <2>3 DEF InBudget, IInv, Types
  <2> HIDE DEF begun, held, past
  <2>5. (begun - Burst) * Interval <= now
    <3>1. (begun - Burst) * Interval = (begun + held) * Interval - (Burst + held) * Interval
      BY <2>1, <2>2
    <3>2. (Burst + past) * Interval <= (Burst + held) * Interval
      BY <2>1, <2>2, Scaled
    <3>3. PICK a, b, c \in Int : /\ a = (begun + held) * Interval
                                 /\ b = (Burst + held) * Interval
                                 /\ c = (Burst + past) * Interval
      BY <2>1, <2>2
    <3> QED
      BY <2>2, <2>4, <3>1, <3>2, <3>3
  <2>6. begun - Burst <= now \div Interval
    <3>1. PICK over \in Int : over = begun - Burst
      BY <2>1, <2>2
    <3>2. over * Interval <= now
      BY <2>5, <3>1
    <3>3. PICK whole \in Int, rest \in Int :
             whole = now \div Interval /\ now = whole * Interval + rest /\ rest < Interval
      BY <2>2
    <3>4. ~(whole + 1 <= over)
      <4>1. whole + 1 <= over => (whole + 1) * Interval <= over * Interval
        BY Scaled
      <4>2. (whole + 1) * Interval = whole * Interval + Interval
        BY Scaled
      <4>3. PICK a, b \in Int : a = whole * Interval /\ b = over * Interval
        BY <2>2
      <4> QED
        BY <2>2, <3>2, <3>3, <4>1, <4>2, <4>3
    <3> QED
      BY <3>1, <3>3, <3>4
  <2>7. Cardinality(Checks(p)) = begun
    BY DEF Checks, Begun, begun
  <2> QED
    BY <2>1, <2>2, <2>6, <2>7
<1> QED
  BY <1>1, InitInvariant, StepInvariant, InitBudgets, BudgetsStep, PTL DEF Spec
=============================================================================
