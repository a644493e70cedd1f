---------------------------- MODULE BatchPromise ----------------------------
(***************************************************************************)
(* What BatchEngine.Run promises its caller, with no goroutine, channel or *)
(* context in sight: every endpoint is answered once, the providers that   *)
(* could not answer in time stay owed until they have answered or failed   *)
(* for good, and Run comes back, with everything answered and nothing owed *)
(* unless the caller stopped it.                                           *)
(***************************************************************************)
EXTENDS FiniteSets

CONSTANTS Asked,        \* the endpoints handed to Run
          Informants    \* the providers

VARIABLES phase,        \* "open", "running", "returned" or "rejected"
          stopped,      \* the caller cancelled
          answered,     \* endpoints that have an item
          owed          \* <<endpoint, provider>>: to be asked once more

vars == <<phase, stopped, answered, owed>>

Init == /\ phase = "open"
        /\ stopped = FALSE
        /\ answered = {}
        /\ owed = {}

Accept == /\ phase = "open"
          /\ phase' \in {"running", "rejected"}
          /\ UNCHANGED <<stopped, answered, owed>>

Stop == /\ phase \in {"open", "running"}
        /\ ~stopped
        /\ stopped' = TRUE
        /\ UNCHANGED <<phase, answered, owed>>

Answer(e) == /\ phase = "running"
             /\ e \notin answered
             /\ answered' = answered \cup {e}
             /\ \E late \in SUBSET ({e} \X Informants) : owed' = owed \cup late
             /\ UNCHANGED <<phase, stopped>>

Settle(debt) == /\ phase = "running"
                /\ answered = Asked \/ stopped
                /\ owed' = owed \ {debt}
                /\ UNCHANGED <<phase, stopped, answered>>

Return == /\ phase = "running"
          /\ stopped \/ (answered = Asked /\ owed = {})
          /\ phase' = "returned"
          /\ UNCHANGED <<stopped, answered, owed>>

Progress == \/ Accept
            \/ \E e \in Asked : Answer(e)
            \/ \E debt \in owed : Settle(debt)
            \/ Return

Spec == Init /\ [][Progress \/ Stop]_vars /\ WF_vars(Progress)
=============================================================================
