-------------------------- MODULE MC_CommandExecutor --------------------------
(***************************************************************************)
(* Model-checking instance of CommandExecutor: two command ids, one        *)
(* command of each type (an update with and without a reboot), batches of  *)
(* up to two commands and two polls, so a reboot or an update can be       *)
(* followed by another command of the same batch or of the next poll.      *)
(***************************************************************************)
EXTENDS CommandExecutor

MCCmdIds == {"c1", "c2"}
MCUpdateIds == {"u1"}
MCDigests == {"good", "evil"}

\* The payload of an update for the genuine artifact.
UpdPayload(reboot) ==
    [update_id |-> "u1", checksum |-> Hexdigest("good"),
     reboot_required |-> reboot]

MCCmds ==
    {[id |-> "c1", command |-> t, payload |-> UpdPayload(FALSE)] :
        t \in {"reboot", "execute", "collect_logs", "unknown"}}
    \cup {[id |-> "c2", command |-> "update", payload |-> UpdPayload(r)] :
            r \in BOOLEAN}
    \cup {[id |-> "c2", command |-> "malformed", payload |-> UpdPayload(FALSE)]}

MCSpec == ExecInit /\ [][ExecNext]_vars /\ WF_vars(ExecNext)
=============================================================================
