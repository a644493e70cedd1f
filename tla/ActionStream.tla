---------------------------- MODULE ActionStream ----------------------------
(***************************************************************************)
(* The life of an action in the terminal UI: internal/tui/actions.go and   *)
(* the message handlers of view.go.                                        *)
(*                                                                         *)
(* Update runs on one goroutine and handles one message at a time.  A      *)
(* command it returns runs on a goroutine of its own and posts one message *)
(* when it ends; messages of different commands arrive in any order, so    *)
(* the inbox is a bag.  An action has a producer goroutine, which writes   *)
(* its messages to a bounded stream, and waiters, commands that read one   *)
(* message from a stream each and post it to the inbox.                    *)
(*                                                                         *)
(* Actions are numbered in the order the user starts them.  The model's    *)
(* activeActionStream and activeActionCancel are always set and cleared    *)
(* together, so they are one variable, active; 0 stands for nil.           *)
(***************************************************************************)
EXTENDS Integers, Sequences, Bags

CONSTANTS
    MaxActions,     \* bound: actions the user starts
    Users,          \* users: patient or not, the actions they start and how
                    \* large, and a bound on their speed tests
    StreamCapacity  \* the buffer of a stream, 64 in the code

Kinds == {"batch", "import", "check", "dedupe"}

ASSUME BoundsAssumption == MaxActions \in Nat
ASSUME UsersAssumption ==
    \A u \in Users : /\ u.patient \in BOOLEAN
                     /\ u.kinds \subseteq Kinds
                     /\ u.sizes \subseteq Nat \ {0}
                     /\ u.speedtests \in Nat
ASSUME StreamCapacityAssumption == StreamCapacity \in Nat \ {0}

Actions == 1..MaxActions

VARIABLES
    user,           \* who sits in front of the UI, one of Users
    mode,           \* "list", "input", or "other": menu, filter and detail
    active,         \* the action of activeActionStream and activeActionCancel
    shown,          \* snapshot.Items: which action's result is at which row
    processed,      \* snapshot.Summary.Processed, as the last message told
    quitting,       \* q was pressed; its QuitMsg is under way until the loop is over
    over,           \* the event loop has taken the QuitMsg: nothing is handled any more
    started,        \* how many actions the user has started
    job,            \* per action: its kind, its size and where its producer is
    done,           \* per action: its context is done
    stream,         \* per action: the buffered messages
    closed,         \* per action: the stream is closed
    waiting,        \* per action: how many waiters read its stream
    speedtests,     \* speed tests started, and still running
    inbox,          \* posted messages that Update has not handled yet
    adopted         \* history: the last action whose start was handled

uiVars       == <<mode, active, shown, processed, quitting, over>>
producerVars == <<job, done, stream, closed>>
changing == <<uiVars, producerVars, started, waiting, speedtests, inbox, adopted>>
vars     == <<user, changing>>

Message(type, by, number) == [type |-> type, by |-> by, number |-> number]
Post(m)   == inbox' = inbox (+) SetToBag({m})
Posted    == BagToSet(inbox)

\* step is the number of the next message to produce; fails tells that the
\* input could not be read.
NoJob == [kind |-> "none", size |-> 0, fails |-> FALSE, step |-> 0, phase |-> "none"]

Init ==
    /\ user \in Users
    /\ mode = "list"
    /\ active = 0
    /\ shown = <<>>
    /\ processed = 0
    /\ quitting = FALSE
    /\ over = FALSE
    /\ started = 0
    /\ job = [a \in Actions |-> NoJob]
    /\ done = [a \in Actions |-> FALSE]
    /\ stream = [a \in Actions |-> <<>>]
    /\ closed = [a \in Actions |-> FALSE]
    /\ waiting = [a \in Actions |-> 0]
    /\ speedtests = [started |-> 0, running |-> 0]
    /\ inbox = EmptyBag
    /\ adopted = 0

\* Nothing that was started can still reach Update.  A patient user starts
\* something only then.
Quiet ==
    /\ ~quitting
    /\ inbox = EmptyBag
    /\ speedtests.running = 0
    /\ \A a \in Actions : waiting[a] = 0 /\ job[a].phase # "launching"

-----------------------------------------------------------------------------
(* Keys.                                                                   *)

OpenAction ==
    /\ ~over
    /\ mode \in {"list", "other"}
    /\ started < MaxActions
    /\ mode' = "input"
    /\ UNCHANGED <<active, shown, processed, quitting, over, producerVars, started, waiting,
                   speedtests, inbox, adopted>>

\* enter in ModeInput: runActionCmd.
Enter(kind, size) ==
    /\ ~over
    /\ mode = "input"
    /\ started < MaxActions
    /\ user.patient => Quiet
    /\ kind \in {"batch", "import"} \/ size = 1
    /\ mode' = "list"
    /\ started' = started + 1
    /\ job' = [job EXCEPT ![started'] =
                 [kind |-> kind, size |-> size, fails |-> FALSE, step |-> 1,
                  phase |-> "launching"]]
    /\ UNCHANGED <<active, shown, processed, quitting, over, done, stream, closed, waiting,
                   speedtests, inbox, adopted>>

\* esc, and the keys that open and leave the menu, the filter and the detail.
SwitchMode ==
    /\ ~over
    /\ mode' \in IF mode = "list" THEN {"other"} ELSE {"list"}
    /\ UNCHANGED <<active, shown, processed, quitting, over, producerVars, started, waiting,
                   speedtests, inbox, adopted>>

\* D: rows have distinct endpoints already; the summary is computed again.
DeduplicateCurrent ==
    /\ ~over
    /\ mode \in {"list", "other"}
    /\ processed # Len(shown)
    /\ processed' = Len(shown)
    /\ UNCHANGED <<mode, active, shown, quitting, over, producerVars, started, waiting,
                   speedtests, inbox, adopted>>

StartSpeedtest ==
    /\ ~over
    /\ mode \in {"list", "other"}
    /\ speedtests.started < user.speedtests
    /\ user.patient => Quiet
    /\ speedtests' = [started |-> speedtests.started + 1, running |-> speedtests.running + 1]
    /\ UNCHANGED <<uiVars, producerVars, started, waiting, inbox, adopted>>

CancelActive == [a \in Actions |-> done[a] \/ a = active]

\* Mutant of Quit: the action runs on.
QuitOnly ==
    /\ ~over
    /\ mode = "list"
    /\ quitting' = TRUE
    /\ UNCHANGED <<mode, active, shown, processed, over, producerVars, started, waiting,
                   speedtests, inbox, adopted>>

\* q or ctrl+c in ModeList.  tea.Quit is a command like the others: what is
\* posted before its QuitMsg is handled, and so are keys, a second q among them.
Quit ==
    /\ ~over
    /\ mode = "list"
    /\ done' = CancelActive
    /\ quitting' = TRUE
    /\ UNCHANGED <<mode, active, shown, processed, over, job, stream, closed, started,
                   waiting, speedtests, inbox, adopted>>

\* The loop takes the QuitMsg and ends, without a call of Update.
LoopEnds ==
    /\ quitting
    /\ ~over
    /\ over' = TRUE
    /\ UNCHANGED <<mode, active, shown, processed, quitting, producerVars, started,
                   waiting, speedtests, inbox, adopted>>

-----------------------------------------------------------------------------
(* Commands and producers.                                                 *)

\* The command of runActionCmd: context, stream, producer, ActionStartedMsg.
Launch(a) ==
    /\ job[a].phase = "launching"
    /\ job' = [job EXCEPT ![a].phase = "producing"]
    /\ Post(Message("started", a, 0))
    /\ UNCHANGED <<uiVars, done, stream, closed, started, waiting, speedtests, adopted>>

\* The messages of streamAction, in order.
Script(a) ==
    LET k == job[a].kind
        n == job[a].size
        Results == [i \in 1..n |-> Message("result", a, i)]
    IN  CASE job[a].fails -> << Message("error", a, 0) >>
          [] ~job[a].fails /\ k = "dedupe" -> << Message("replace", a, 0) >>
          [] OTHER -> Append(Results, Message("complete", a, n))

Producing(a) == job[a].phase = "producing"
ToProduce(a) == Producing(a) /\ job[a].step \in DOMAIN Script(a)

\* The file, the paste or the subscription cannot be read or holds nothing.
SourceFails(a) ==
    /\ ToProduce(a)
    /\ job[a].step = 1
    /\ ~job[a].fails
    /\ job' = [job EXCEPT ![a].fails = TRUE]
    /\ UNCHANGED <<uiVars, done, stream, closed, started, waiting, speedtests, inbox,
                   adopted>>

\* sendActionMsg: the select takes the message while the buffer has room, and
\* may drop it once the context is done, whether or not there is room.
SendDelivered(a) ==
    /\ ToProduce(a)
    /\ Len(stream[a]) < StreamCapacity
    /\ stream' = [stream EXCEPT ![a] = Append(@, Script(a)[job[a].step])]
    /\ job' = [job EXCEPT ![a].step = @ + 1]
    /\ UNCHANGED <<uiVars, done, closed, started, waiting, speedtests, inbox, adopted>>

\* Mutant of StepAfterDrop: what was dropped is sent again.
StepRepeated(a) == job[a].step

\* A dropped result: the batch goes on with the next one, an import goes on
\* with its completion message, a check or a report gives up.
StepAfterDrop(a) ==
    LET last == Len(Script(a))
    IN  CASE job[a].step = last       -> last + 1
          [] job[a].step # last /\ job[a].kind = "batch"  -> job[a].step + 1
          [] job[a].step # last /\ job[a].kind = "import" -> last
          [] OTHER                    -> last + 1

SendDropped(a) ==
    /\ ToProduce(a)
    /\ done[a]
    /\ job' = [job EXCEPT ![a].step = StepAfterDrop(a)]
    /\ UNCHANGED <<uiVars, done, stream, closed, started, waiting, speedtests, inbox,
                   adopted>>

\* Under a done context BatchEngine.Run may stop sending endpoints: those it
\* has collected are all that the completion message reports.
BatchCutShort(a) ==
    /\ ToProduce(a)
    /\ job[a].kind = "batch"
    /\ done[a]
    /\ ~job[a].fails
    /\ job[a].step < Len(Script(a))
    /\ job' = [job EXCEPT ![a].size = job[a].step - 1]
    /\ UNCHANGED <<uiVars, done, stream, closed, started, waiting, speedtests, inbox,
                   adopted>>

\* The deferred cancel() and then close(stream).
ProducerEnds(a) ==
    /\ Producing(a)
    /\ job[a].step \notin DOMAIN Script(a)
    /\ job' = [job EXCEPT ![a].phase = "ended"]
    /\ done' = [done EXCEPT ![a] = TRUE]
    /\ closed' = [closed EXCEPT ![a] = TRUE]
    /\ UNCHANGED <<uiVars, stream, started, waiting, speedtests, inbox, adopted>>

\* actionTimeout passes.
Deadline(a) ==
    /\ Producing(a)
    /\ ~done[a]
    /\ done' = [done EXCEPT ![a] = TRUE]
    /\ UNCHANGED <<uiVars, job, stream, closed, started, waiting, speedtests, inbox,
                   adopted>>

\* Mutant of WaiterReads: the command reads on after its first message.
WaiterReadsOn(a) ==
    /\ waiting[a] > 0
    /\ stream[a] # <<>>
    /\ Post(Head(stream[a]))
    /\ stream' = [stream EXCEPT ![a] = Tail(@)]
    /\ UNCHANGED <<uiVars, job, done, closed, started, waiting, speedtests, adopted>>

\* waitForActionStream: one message, or actionStreamClosedMsg.
WaiterReads(a) ==
    /\ waiting[a] > 0
    /\ \/ /\ stream[a] # <<>>
          /\ Post(Head(stream[a]))
          /\ stream' = [stream EXCEPT ![a] = Tail(@)]
       \/ /\ stream[a] = <<>>
          /\ closed[a]
          /\ Post(Message("closed", a, 0))
          /\ UNCHANGED stream
    /\ waiting' = [waiting EXCEPT ![a] = @ - 1]
    /\ UNCHANGED <<uiVars, job, done, closed, started, speedtests, adopted>>

\* The command of speedtestCmd ends, well or not.
SpeedtestEnds ==
    /\ speedtests.running > 0
    /\ \E type \in {"speed", "error"} : Post(Message(type, 0, 0))
    /\ speedtests' = [speedtests EXCEPT !.running = @ - 1]
    /\ UNCHANGED <<uiVars, producerVars, started, waiting, adopted>>

-----------------------------------------------------------------------------
(* Update, one message at a time, until the event loop is over.            *)

Take(m) == inbox' = inbox (-) SetToBag({m})

\* Mutant of OnStarted: the rows of the previous action stay.
OnStartedKeepingRows(m) ==
    /\ m.type = "started"
    /\ done' = CancelActive
    /\ active' = m.by
    /\ adopted' = m.by
    /\ processed' = 0
    /\ mode' = "list"
    /\ waiting' = [waiting EXCEPT ![m.by] = @ + 1]
    /\ UNCHANGED shown

OnStarted(m) ==
    /\ m.type = "started"
    /\ done' = CancelActive
    /\ active' = m.by
    /\ adopted' = m.by
    /\ shown' = <<>>
    /\ processed' = 0
    /\ mode' = "list"
    /\ waiting' = [waiting EXCEPT ![m.by] = @ + 1]

\* Mutant of OnResult: nobody reads the next message.
OnResultOnce(m) ==
    /\ m.type = "result"
    /\ LET row  == [by |-> m.by, endpoint |-> m.number]
           same == {i \in DOMAIN shown : shown[i].endpoint = m.number}
       IN  shown' = IF same = {} THEN Append(shown, row)
                    ELSE [i \in DOMAIN shown |-> IF i \in same THEN row ELSE shown[i]]
    /\ processed' = m.number
    /\ UNCHANGED <<mode, active, done, waiting, adopted>>

\* Rows are keyed by endpoint: a result replaces the row of the same endpoint.
\* The next waiter reads the active stream, whoever sent this result.
OnResult(m) ==
    /\ m.type = "result"
    /\ LET row    == [by |-> m.by, endpoint |-> m.number]
           same   == {i \in DOMAIN shown : shown[i].endpoint = m.number}
       IN  shown' = IF same = {} THEN Append(shown, row)
                    ELSE [i \in DOMAIN shown |-> IF i \in same THEN row ELSE shown[i]]
    /\ processed' = m.number
    /\ waiting' = IF active = 0 THEN waiting ELSE [waiting EXCEPT ![active] = @ + 1]
    /\ UNCHANGED <<mode, active, done, adopted>>

\* Mutant of OnComplete: the completed action stays active.
OnCompleteHoldingOn(m) ==
    /\ m.type = "complete"
    /\ processed' = m.number
    /\ UNCHANGED <<mode, active, shown, done, waiting, adopted>>

OnComplete(m) ==
    /\ m.type = "complete"
    /\ processed' = m.number
    /\ active' = 0
    /\ UNCHANGED <<mode, shown, done, waiting, adopted>>

OnClosed(m) ==
    /\ m.type = "closed"
    /\ active' = 0
    /\ UNCHANGED <<mode, shown, processed, done, waiting, adopted>>

OnError(m) ==
    /\ m.type = "error"
    /\ done' = CancelActive
    /\ active' = 0
    /\ UNCHANGED <<mode, shown, processed, waiting, adopted>>

\* ActionCompleteMsg of a dedupe replaces the list, a speed test's keeps it.
OnReplace(m) ==
    /\ m.type \in {"replace", "speed"}
    /\ active' = 0
    /\ mode' = "list"
    /\ shown' = IF m.type = "replace" THEN << [by |-> m.by, endpoint |-> 1] >> ELSE shown
    /\ processed' = IF m.type = "replace" THEN 1 ELSE processed
    /\ UNCHANGED <<done, waiting, adopted>>

Update ==
    /\ ~over
    /\ \E m \in Posted :
        /\ Take(m)
        /\ \/ OnStarted(m) \/ OnResult(m) \/ OnComplete(m)
           \/ OnClosed(m) \/ OnError(m) \/ OnReplace(m)
    /\ UNCHANGED <<quitting, over, job, stream, closed, started, speedtests>>

-----------------------------------------------------------------------------
Key == \/ OpenAction \/ SwitchMode \/ DeduplicateCurrent \/ StartSpeedtest \/ Quit
       \/ \E kind \in user.kinds, size \in user.sizes : Enter(kind, size)

ProducerStep(a) == SourceFails(a) \/ SendDelivered(a) \/ SendDropped(a) \/ BatchCutShort(a) \/ ProducerEnds(a)

Next ==
    /\ \/ Key
       \/ Update
       \/ LoopEnds
       \/ SpeedtestEnds
       \/ \E a \in Actions : Launch(a) \/ ProducerStep(a) \/ Deadline(a) \/ WaiterReads(a)
    /\ UNCHANGED user

Spec == Init /\ [][Next]_vars

\* The event loop handles what is posted, commands and producers run on, and
\* time passes: an action's context times out.  The user need not do anything.
Fairness ==
    /\ WF_changing(Update)
    /\ WF_changing(LoopEnds)
    /\ WF_changing(SpeedtestEnds)
    /\ \A a \in Actions :
        /\ WF_changing(Launch(a))
        /\ WF_changing(ProducerStep(a))
        /\ WF_changing(Deadline(a))
        /\ WF_changing(WaiterReads(a))

FairSpec == Spec /\ Fairness

-----------------------------------------------------------------------------
(* Properties.                                                             *)

\* Messages of an action's stream that were read and not yet handled.
InFlight(a) == {m \in Posted : m.by = a /\ m.type # "started"}

\* The action still has something to say, or the UI has not heard its last word.
Unheard(a) == stream[a] # <<>> \/ ToProduce(a)

\* While the action on display runs, somebody reads its stream: results keep
\* arriving one by one, and the producer is not left to block on a full buffer.
\* This and the next three hold for a user who waits for what was started.
ReaderNeverLost ==
    user.patient /\ ~over /\ adopted # 0 /\ Unheard(adopted) =>
        waiting[adopted] > 0 \/ InFlight(adopted) # {}

\* A stream has one reader at a time, so its messages are handled in the order
\* they were sent.
OneReader ==
    user.patient =>
        \A a \in Actions :
            \/ waiting[a] = 1 /\ InFlight(a) = {}
            \/ waiting[a] = 0 /\ \A m, n \in InFlight(a) : m = n /\ inbox[m] = 1

\* The list holds the results of the action on display, in the order they were
\* produced, and the progress shown is that of the last row, unless messages
\* were dropped because the action's time was up.
ListMatchesAction ==
    user.patient =>
        /\ \A i \in DOMAIN shown : shown[i].by = adopted
        /\ \A i, j \in DOMAIN shown : i < j => shown[i].endpoint < shown[j].endpoint
        /\ adopted # 0 /\ ~done[adopted] => processed = Len(shown)

\* Update has handled the action's start, so the UI can cancel it.
TakenOn(a) ==
    /\ job[a].phase \in {"producing", "ended"}
    /\ \A m \in Posted : m.type = "started" => m.by # a

\* q is pressed, for the first time.
Quits == ~quitting /\ quitting'

\* README.md, Interactive TUI: quitting "cancels any active action".  When q is
\* pressed, every action the UI has taken on is cancelled or has nothing left
\* to do, whoever the user is.  An action whose start is still to be handled is
\* not among them: handled before the QuitMsg, it runs uncancelled.
QuittingCancels ==
    [][Quits => \A a \in Actions : TakenOn(a) /\ ToProduce(a) => done'[a]]_vars

\* Quitting cancels every action the UI has taken on, for a patient user.
QuitCancels ==
    [][user.patient /\ Quits => \A a \in Actions : TakenOn(a) /\ ToProduce(a) => done'[a]]_vars

\* No producer is left behind: whatever the user does and whether or not
\* anybody reads its stream, an action that was launched comes to its end.
ProducersEnd ==
    \A a \in Actions : (job[a].phase = "launching") ~> (job[a].phase = "ended")

\* The UI lets go of every action it has taken on, unless its loop ends before,
\* whoever the user is: a reader is left for the action it holds on to, though
\* messages of replaced actions come between.
ActionsReleased ==
    \A a \in Actions : (active = a) ~> (active # a \/ over)
=============================================================================
