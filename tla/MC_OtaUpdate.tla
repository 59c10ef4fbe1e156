----------------------------- MODULE MC_OtaUpdate -----------------------------
(***************************************************************************)
(* Model-checking instance of OtaUpdate: one command id, one update id, an *)
(* artifact of three chunks, a genuine and a foreign artifact, and two     *)
(* update jobs, enough for a second job to follow a failed or a completed  *)
(* one.                                                                    *)
(***************************************************************************)
EXTENDS OtaUpdate

MCDigests == {"good", "evil"}

\* Exploration ends when the bound on jobs is reached and the handler is idle.
BoundReached ==
    /\ jobs = MaxJobs
    /\ uphase = "idle"
    /\ UNCHANGED updVars

\* A thread blocked in a read never returns.
Blocked ==
    /\ uphase = "hung"
    /\ UNCHANGED updVars

MCNext == UpdNext \/ BoundReached \/ Blocked

MCSpec == UpdInit /\ [][MCNext]_updVars
=============================================================================
