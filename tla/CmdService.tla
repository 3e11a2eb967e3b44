---------------------------- MODULE CmdService -----------------------------
(***************************************************************************)
(* What the mlx5 command interface promises to the callers of              *)
(* mlx5_cmd_exec() and mlx5_cmd_exec_cb(), without slots, semaphores,      *)
(* events or reference counts: every command is answered at most once;     *)
(* the answer "OK" is given only after the firmware executed the command;  *)
(* a command that was refused, cancelled or found no slot is never         *)
(* executed, neither before nor after the answer.  A command that timed    *)
(* out or was aborted with the device may have been executed, and may      *)
(* still be executed later.                                                *)
(***************************************************************************)
CONSTANTS Ents,     \* the commands
          Refusals, \* errors after which the firmware never sees the command
          Unknown   \* errors that leave open whether it was executed

VARIABLES answered,  \* the commands that were answered
          answer,    \* the answer
          executed   \* the commands the firmware executed

svars == <<answered, answer, executed>>

Init ==
    /\ answered = {}
    /\ answer = [e \in Ents |-> "none"]
    /\ executed = {}

Execute(e) ==
    /\ e \notin executed
    /\ answer[e] \in Unknown \cup {"none"}
    /\ executed' = executed \cup {e}
    /\ UNCHANGED <<answered, answer>>

Answer(e, r) ==
    /\ e \notin answered
    /\ r = "OK" => e \in executed
    /\ r \in Refusals => e \notin executed
    /\ answered' = answered \cup {e}
    /\ answer' = [answer EXCEPT ![e] = r]
    /\ UNCHANGED executed

Next ==
    \E e \in Ents :
        \/ Execute(e)
        \/ \E r \in Refusals \cup Unknown \cup {"OK"} : Answer(e, r)

Spec == Init /\ [][Next]_svars
=============================================================================
