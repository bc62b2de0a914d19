----------------------------- MODULE Supervisor -----------------------------
(***************************************************************************)
(* What running a group of servers promises, without its channels: a       *)
(* server goes down in error by itself, but stops in good order only when  *)
(* stopping was asked for or another one failed; the process ends when all *)
(* of them are down, and its exit code tells whether each stopped in good  *)
(* order.  Lifecycle is shown to implement this module.                    *)
(***************************************************************************)
EXTENDS Integers

CONSTANT Servers

VARIABLES
    stage,      \* "boot", "up" once the servers were started, "ended"
    up,         \* the servers that are up
    failed,     \* the servers that went down in error
    asked,      \* whether stopping was asked for
    code        \* the exit code, -1 before

svars == <<stage, up, failed, asked, code>>

SInit ==
    /\ stage = "boot"
    /\ up = {}
    /\ failed = {}
    /\ asked = FALSE
    /\ code = -1

Ask ==
    /\ stage # "ended"
    /\ asked' = TRUE
    /\ UNCHANGED <<stage, up, failed, code>>

\* The process ends with some code before any server was started.
Abort ==
    /\ stage = "boot" /\ stage' = "ended"
    /\ code' \in {0, 1, 2}
    /\ UNCHANGED <<up, failed, asked>>

Launch ==
    /\ stage = "boot" /\ stage' = "up"
    /\ up' = Servers
    /\ UNCHANGED <<failed, asked, code>>

GoDown(s) == s \in up /\ up' = up \ {s}

Fail(s) ==
    /\ GoDown(s)
    /\ failed' = failed \cup {s}
    /\ UNCHANGED <<stage, asked, code>>

Stop(s) ==
    /\ asked \/ failed # {}
    /\ GoDown(s)
    /\ UNCHANGED <<stage, failed, asked, code>>

End ==
    /\ stage = "up" /\ stage' = "ended"
    /\ up = {}
    /\ code' = IF failed = {} THEN 0 ELSE 1
    /\ UNCHANGED <<up, failed, asked>>

SNext == Ask \/ Abort \/ Launch \/ End \/ \E s \in Servers : Fail(s) \/ Stop(s)

SSpec == SInit /\ [][SNext]_svars
=============================================================================
