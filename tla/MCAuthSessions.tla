--------------------------- MODULE MCAuthSessions ---------------------------
(* Instances of AuthSessions for TLC.                                      *)
EXTENDS AuthSessions, TLC

\* Requests are interchangeable, and so are users.
SlotSymmetry == Permutations(Slots)
SlotUserSymmetry == Permutations(Slots) \cup Permutations(Users)
=============================================================================
