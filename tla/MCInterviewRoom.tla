--------------------------- MODULE MCInterviewRoom ---------------------------
(* Small instances of InterviewRoom for TLC. *)
EXTENDS InterviewRoom

MCTickLengths == {1, 2}
MCRungs == <<4, 6>>
=============================================================================
