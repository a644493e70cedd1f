--------------------------- MODULE MCActionStream ---------------------------
(***************************************************************************)
(* Users of the terminal UI.                                               *)
(***************************************************************************)
EXTENDS ActionStream

User(patient, kinds, sizes, tests) ==
    [patient |-> patient, kinds |-> kinds, sizes |-> sizes, speedtests |-> tests]

Patient == User(TRUE, Kinds, {1, 2}, 1)
Hasty   == User(FALSE, {"batch"}, {1}, 0)

BothUsers == {Patient, Hasty}
HastyOnly == {Hasty}
=============================================================================
