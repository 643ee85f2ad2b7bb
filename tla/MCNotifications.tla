-------------------------- MODULE MCNotifications --------------------------
(***************************************************************************)
(* Values for the constants of Notifications: one user submits, another    *)
(* approves both steps.                                                    *)
(***************************************************************************)
EXTENDS Notifications, TLC

CONSTANTS u1, u2, q1, q2

Approvers == [step \in 1..Last |-> u2]

\* In the run about mails, only the starter gets some.
OneMailbox == {<<u2, "email">>}

\* Calls are interchangeable.
CallSymmetry == Permutations(Calls)

=============================================================================
