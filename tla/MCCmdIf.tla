------------------------------ MODULE MCCmdIf ------------------------------
(***************************************************************************)
(* Instances of CmdIf for TLC: which calls of cmd_exec() a run makes.      *)
(***************************************************************************)
EXTENDS CmdIf

CONSTANTS e1, e2, e3, e4, e5

Cmd(cb, pg, poll, thr) ==
    [callback |-> cb, page |-> pg, polling |-> poll, throttle |-> thr]

SyncCmd     == Cmd(FALSE, FALSE, FALSE, FALSE)  \* mlx5_cmd_exec()
AsyncCmd    == Cmd(TRUE, FALSE, FALSE, FALSE)   \* mlx5_cmd_exec_cb()
PageCmd     == Cmd(FALSE, TRUE, FALSE, FALSE)   \* MANAGE_PAGES
PollCmd     == Cmd(FALSE, FALSE, TRUE, FALSE)   \* mlx5_cmd_exec_polling()
ThrottleCmd == Cmd(FALSE, FALSE, FALSE, TRUE)   \* a throttled opcode
BadPageCmd  == Cmd(TRUE, TRUE, FALSE, FALSE)    \* refused by mlx5_cmd_invoke()
BadThrottleCmd == Cmd(TRUE, FALSE, FALSE, TRUE) \* refused by cmd_exec()

KindMix   == [x \in Ents |-> IF x = e1 THEN SyncCmd
                             ELSE IF x = e2 THEN AsyncCmd
                             ELSE IF x = e3 THEN PageCmd
                             ELSE IF x = e4 THEN BadThrottleCmd ELSE BadPageCmd]
KindSwitch == [x \in Ents |-> IF x = e2 THEN AsyncCmd ELSE ThrottleCmd]
KindSync  == [x \in Ents |-> SyncCmd]
KindAsync == [x \in Ents |-> AsyncCmd]
KindSyncAsync == [x \in Ents |-> IF x = e1 THEN SyncCmd ELSE AsyncCmd]
KindSyncPoll  == [x \in Ents |-> IF x = e1 THEN SyncCmd ELSE PollCmd]
KindPollAsync == [x \in Ents |-> IF x = e1 THEN PollCmd ELSE AsyncCmd]
=============================================================================
