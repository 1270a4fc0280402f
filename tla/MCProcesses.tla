---------------------------- MODULE MCProcesses ----------------------------
(***************************************************************************)
(* Four pids, so that one of them is soon needed again.                    *)
(***************************************************************************)
EXTENDS Processes, TLC

Call(f, p, c, g, t) == [file |-> f, ports |-> p, stopChildren |-> c,
                        stopProcessGroup |-> g, timeout |-> t]
MCCalls == {Call(TRUE, FALSE, TRUE, FALSE, TRUE), Call(TRUE, FALSE, TRUE, TRUE, TRUE),
            Call(TRUE, FALSE, FALSE, TRUE, TRUE), Call(FALSE, TRUE, TRUE, FALSE, TRUE),
            Call(TRUE, TRUE, FALSE, FALSE, FALSE), Call(FALSE, TRUE, TRUE, TRUE, TRUE)}

Symmetry == Permutations(Pid)

=============================================================================
