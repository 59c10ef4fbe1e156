---------------------------- MODULE UpdateAbstract ----------------------------
(***************************************************************************)
(* What an over-the-air update promises (spec 4.2), without downloads,     *)
(* reports or phases: update jobs run one at a time; a job installs at     *)
(* most one artifact, and only one whose SHA-256 digest the payload        *)
(* checksum spells, in either letter case; a job ends with its install or  *)
(* after it, or without installing anything.                               *)
(***************************************************************************)
EXTENDS Sequences

CONSTANTS UpdateIds, Digests, HexCases

VARIABLES
    active,    \* an update job is running
    installed, \* the running job has installed its artifact
    installs   \* the artifacts installed so far, in order

absVars == <<active, installed, installs>>

\* An install record whose checksum names the digest of the installed bytes.
Installable ==
    {r \in [update_id : UpdateIds, digest : Digests,
            checksum : [digest : Digests, case : HexCases]] :
        r.checksum.digest = r.digest}

Init ==
    /\ active = FALSE
    /\ installed = FALSE
    /\ installs = <<>>

Begin ==
    /\ ~active
    /\ active' = TRUE
    /\ installed' = FALSE
    /\ UNCHANGED installs

\* The job installs a verified artifact, and may end with it.
Install ==
    /\ active /\ ~installed
    /\ \E r \in Installable : installs' = Append(installs, r)
    /\ \/ active' /\ installed'
       \/ ~active' /\ ~installed'

Finish ==
    /\ active
    /\ active' = FALSE
    /\ installed' = FALSE
    /\ UNCHANGED installs

Next == Begin \/ Install \/ Finish

Spec == Init /\ [][Next]_absVars
=============================================================================
