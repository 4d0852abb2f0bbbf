------------------------------ MODULE ProcTree ------------------------------
(***************************************************************************)
(* What the process calls promise of the process tree, with no table, no  *)
(* scheduler and no sleeping: a live process forks a child under a pid    *)
(* never used before (or fails after taking one); a process other than    *)
(* init exits and becomes a zombie, its children handed to init; a live   *)
(* parent collects a zombie child exactly once, after which the pid is    *)
(* gone for good.  Every call is made by the running process; scheduling, *)
(* sleeping and yielding only change which process runs (or that none    *)
(* does).  Killing and the lottery are invisible here.                    *)
(*                                                                         *)
(* This is the contract the process descriptor section of spec.md states  *)
(* (parent back-reference, ZOMBIE until reaped, reparenting to init);     *)
(* ProcTable refines it under the mapping given there.                    *)
(***************************************************************************)
EXTENDS FiniteSets

CONSTANTS Pid,      \* the pids that can be handed out
          InitPid   \* the first process, which never exits

NoPid == 0

VARIABLES used,     \* pids handed out so far
          live,     \* processes that have not exited
          zombie,   \* processes that exited and are not yet collected
          par,      \* the parent of each live or zombie process
          running   \* the process making calls, NoPid when none does

vars == <<used, live, zombie, par, running>>

Init ==
    /\ used = {InitPid}
    /\ live = {InitPid}
    /\ zombie = {}
    /\ par = [k \in Pid |-> NoPid]
    /\ running = NoPid

\* The CPU passes to a live process, or to none.
Switch(p) ==
    /\ p \in live \cup {NoPid}
    /\ running' = p
    /\ UNCHANGED <<used, live, zombie, par>>

\* fork(): p gets a child under a fresh pid.
Spawn(p, c) ==
    /\ p = running /\ p # NoPid
    /\ c \in Pid \ used
    /\ used' = used \cup {c}
    /\ live' = live \cup {c}
    /\ par' = [par EXCEPT ![c] = p]
    /\ UNCHANGED <<zombie, running>>

\* fork() fails after it has taken a pid: the pid is burnt.
SpawnFails(c) ==
    /\ running # NoPid
    /\ c \in Pid \ used
    /\ used' = used \cup {c}
    /\ UNCHANGED <<live, zombie, par, running>>

\* exit(): the running c stops and gives up the CPU; its live and zombie
\* children now belong to init.
Exit(c) ==
    /\ c = running /\ c \in live \ {InitPid}
    /\ live' = live \ {c}
    /\ zombie' = zombie \cup {c}
    /\ par' = [k \in Pid |-> IF k \in live \cup zombie /\ par[k] = c
                             THEN InitPid ELSE par[k]]
    /\ running' = NoPid
    /\ UNCHANGED used

\* wait(): the running parent p collects its zombie child c.
Reap(p, c) ==
    /\ p = running /\ p # NoPid
    /\ c \in zombie
    /\ par[c] = p
    /\ zombie' = zombie \ {c}
    /\ par' = [par EXCEPT ![c] = NoPid]
    /\ UNCHANGED <<used, live, running>>

Next ==
    \/ \E p \in Pid, c \in Pid : Spawn(p, c) \/ Reap(p, c)
    \/ \E c \in Pid : SpawnFails(c) \/ Exit(c)
    \/ \E p \in Pid \cup {NoPid} : Switch(p)

Spec == Init /\ [][Next]_vars

=============================================================================
