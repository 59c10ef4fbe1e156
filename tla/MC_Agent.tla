------------------------------- MODULE MC_Agent -------------------------------
(***************************************************************************)
(* Model-checking instance of Agent: a fresh device (no credentials file,  *)
(* unknown to the server), two process starts, two heartbeats, two polls   *)
(* of one command each: a script and an update of the genuine artifact.   *)
(***************************************************************************)
EXTENDS Agent

MCCmdIds == {"c1", "c2"}
MCUpdateIds == {"u1"}

MCCmds ==
    {[id |-> "c1", command |-> "execute",
      payload |-> [update_id |-> "u1", checksum |-> Hexdigest("good"),
                   reboot_required |-> FALSE]],
     [id |-> "c2", command |-> "update",
      payload |-> [update_id |-> "u1", checksum |-> Hexdigest("good"),
                   reboot_required |-> FALSE]]}

\* Exploration ends when the last process has ended and none may start.
BoundReached ==
    /\ mpc \in {"exited", "down"}
    /\ starts = MaxStarts
    /\ UNCHANGED allVars

MCNext == AgentNext \/ BoundReached

MCSpec == AgentInit /\ [][MCNext]_allVars /\ WF_allVars(CommandThread)
=============================================================================
