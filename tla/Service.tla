------------------------------ MODULE Service ------------------------------
(***************************************************************************)
(* The life of the service: the handler that runs the agent under the      *)
(* Windows Service Control Manager (service/service_windows.go) or under   *)
(* systemd (service_linux.go, notify_linux.go, unit.go), and the commands  *)
(* that install, stop, restart and remove it (cmd/ipulse/cmd_service.go).  *)
(*                                                                         *)
(* The supervisor is outside the repository: what it does is what the      *)
(* calls made of it, the recovery actions and the unit file ask for, and   *)
(* any of those calls may fail.  One command runs at a time, and its polls *)
(* happen once in a unit of time.                                          *)
(***************************************************************************)
EXTENDS Integers, Sequences

CONSTANTS Platforms,            \* a subset of {"windows", "systemd"}
          StopTimeout,          \* the 30 seconds of Execute, of waitForState and of TimeoutStopSec
          RecoveryDelays,       \* the restarts asked of the SCM; systemd is asked for any number
          RestartSec,
          MaxTime, MaxCommands

VARIABLES
    platform,
    installed,
    state,       \* what the supervisor reports
    agent,       \* Agent.Run: "none", "starting", "serving" or "stopping"
    since,       \* when the supervisor entered its state
    recoveries,  \* restarts by the supervisor
    wanted,      \* no command has asked for it to stop
    data,        \* the data and log directories are there
    command,     \* the command under way, since when it waits, whether it still does, and
                 \* whether its stop was heard: neither it nor the wait for it failed
    now, commands,
    \* history
    result,      \* how the last agent ended: "ok", "error" or "killed"
    spoiled      \* the stops (heard or not) of purges that removed the directories under
                 \* an agent

host == <<platform, now>>
shell == <<command, commands>>
vars == <<host, shell, installed, state, agent, since, recoveries, wanted, data, result, spoiled>>

NoCommand == [op |-> "none", at |-> 0, waits |-> FALSE, heard |-> FALSE]
Active == {"starting", "running", "stopping"}

Init ==
    /\ platform \in Platforms /\ now = 0 /\ command = NoCommand /\ commands = 0
    /\ installed = FALSE /\ state = "stopped" /\ agent = "none" /\ since = 0
    /\ recoveries = 0 /\ wanted = FALSE /\ data = FALSE /\ result = "ok" /\ spoiled = {}

Enter(s) == state' = s /\ since' = now

\* The supervisor starts the process: runAgent, and for the SCM StartPending.
Launch == Enter("starting") /\ agent' = "starting"

Begin == command = NoCommand /\ commands < MaxCommands /\ commands' = commands + 1

Done == command' = NoCommand

-----------------------------------------------------------------------------
\* The agent, and the handler around it.

\* ready(): Running to the SCM, READY=1 to systemd, which no longer listens when it is
\* stopping the unit.
Ready ==
    /\ agent = "starting"
    /\ IF state = "starting" THEN agent' = "serving" /\ Enter("running")
       ELSE agent' = "stopping" /\ UNCHANGED <<state, since>>
    /\ UNCHANGED <<host, shell, installed, recoveries, wanted, data, result, spoiled>>

\* The agent returns, by itself or because its context was cancelled.  systemd calls a unit
\* failed that ended with an error or was killed; to the SCM the service is then stopped
\* like any other.
Ended(how) == IF how = "ok" \/ platform = "windows" THEN "stopped" ELSE "failed"

Returned(how) ==
    /\ agent # "none" /\ agent' = "none" /\ result' = how
    /\ Enter(Ended(how))
    /\ UNCHANGED <<host, shell, installed, recoveries, wanted, data, spoiled>>

AgentReturns ==
    \/ agent = "stopping" /\ (Returned("ok") \/ Returned("error"))
    \/ agent = "starting" /\ Returned("error")

Crash == agent # "none" /\ Returned("killed")

\* Mutant: giving up is reported as a clean stop.
GiveUp_Clean ==
    /\ state = "stopping" /\ now - since >= StopTimeout /\ agent # "none"
    /\ agent' = "none" /\ result' = "killed" /\ Enter("stopped")
    /\ UNCHANGED <<host, shell, installed, recoveries, wanted, data, spoiled>>

\* Thirty seconds after the request Execute returns an error without the agent, and systemd
\* kills it.
GiveUp ==
    /\ state = "stopping" /\ now - since >= StopTimeout
    /\ Returned(IF platform = "windows" THEN "error" ELSE "killed")

\* SetRecoveryActions, and Restart=on-failure: the SCM restarts a process that died without
\* reporting that it stopped, and not one that reported an error; systemd restarts both, and
\* leaves alone what it was told to stop.
SCMRestarts ==
    /\ platform = "windows" /\ state = "stopped" /\ result = "killed"
    /\ recoveries < Len(RecoveryDelays) /\ now - since >= RecoveryDelays[recoveries + 1]
SystemdRestarts ==
    platform = "systemd" /\ state = "failed" /\ wanted /\ now - since >= RestartSec

Recover ==
    /\ installed
    /\ SCMRestarts \/ SystemdRestarts
    /\ Launch /\ recoveries' = recoveries + 1
    /\ UNCHANGED <<host, shell, installed, wanted, data, result, spoiled>>

\* A control code, or SIGTERM: the SCM takes it only for what is running, as StartPending
\* accepts none.
Stoppable == IF platform = "windows" THEN state = "running" ELSE state \in {"starting", "running"}

RequestStop == Enter("stopping") /\ agent' = (IF agent = "serving" THEN "stopping" ELSE agent)

-----------------------------------------------------------------------------
\* The commands.

\* Manager.Install, with --no-start or without: systemd's unit is written again when it is
\* there already, and the SCM refuses a second service.
Registers == platform = "windows" => ~installed

Install(start) ==
    /\ Registers
    /\ Begin /\ Done
    /\ installed' = TRUE /\ data' = TRUE
    /\ IF start /\ state \notin Active THEN Launch /\ wanted' = TRUE
       ELSE UNCHANGED <<state, agent, since, wanted>>
    /\ UNCHANGED <<host, recoveries, result, spoiled>>

Start ==
    /\ installed /\ state \notin Active
    /\ Begin /\ Done
    /\ Launch /\ wanted' = TRUE
    /\ UNCHANGED <<host, installed, recoveries, data, result, spoiled>>

\* Stop, Restart and Uninstall ask for a stop first.  The SCM hears none while the service is
\* starting or stopping, and any request may fail: that ends Stop and Restart with an error,
\* while Uninstall goes on (and asks nobody of a service the SCM does not know).
Removing == {"uninstall", "purge"}
Known == installed \/ state \in Active
CanHear == Known /\ ~(platform = "windows" /\ state \in {"starting", "stopping"})

AskToStop(op, heard) ==
    /\ Known \/ op \in Removing
    /\ heard => CanHear
    /\ Begin
    /\ wanted' = (wanted /\ ~heard)
    /\ IF heard /\ Stoppable THEN RequestStop ELSE UNCHANGED <<state, agent, since>>
    /\ command' = IF heard \/ op \in Removing
                  THEN [op |-> op, at |-> now, waits |-> heard, heard |-> heard] ELSE NoCommand
    /\ UNCHANGED <<host, installed, recoveries, data, result, spoiled>>

\* The wait fails: systemctl ends, or the SCM cannot be queried.  A restart that systemd has
\* begun goes on without the command.
WaitFails ==
    /\ command.waits /\ ~(platform = "systemd" /\ command.op = "restart")
    /\ command' = IF command.op \in Removing THEN [command EXCEPT !.waits = FALSE, !.heard = FALSE]
                  ELSE NoCommand
    /\ UNCHANGED <<host, commands, installed, state, agent, since, recoveries, wanted, data, result, spoiled>>

\* Whether the command waits no longer: systemctl until the unit is down, waitForState for
\* thirty seconds at most.
WaitIsOver ==
    /\ command.waits
    /\ state \notin Active \/ (platform = "windows" /\ now - command.at >= StopTimeout)

StopEnds ==
    /\ command.op = "stop" /\ WaitIsOver /\ Done
    /\ UNCHANGED <<host, commands, installed, state, agent, since, recoveries, wanted, data, result, spoiled>>

\* Restart starts what is stopped; a wait that ran out ends it there.
RestartEnds ==
    /\ command.op = "restart" /\ WaitIsOver /\ Done
    /\ IF state \notin Active THEN Launch /\ wanted' = TRUE
       ELSE UNCHANGED <<state, agent, since, wanted>>
    /\ UNCHANGED <<host, commands, installed, recoveries, data, result, spoiled>>

\* Uninstall does not look at what the wait found.
UninstallGoesOn ==
    /\ command.op \in Removing /\ WaitIsOver
    /\ command' = [command EXCEPT !.waits = FALSE]
    /\ UNCHANGED <<host, commands, installed, state, agent, since, recoveries, wanted, data, result, spoiled>>

\* The service, or the unit file, is deleted; a failure of that ends the command.
Delete(fails) ==
    /\ command.op \in Removing /\ ~command.waits
    /\ installed' = (installed /\ fails)
    /\ command' = IF command.op = "purge" /\ ~fails THEN [command EXCEPT !.op = "directories"]
                  ELSE NoCommand
    /\ UNCHANGED <<host, commands, state, agent, since, recoveries, wanted, data, result, spoiled>>

\* The directories are iPulse's own: isSafeToRemove does not keep them.
RemoveDirectories ==
    /\ command.op = "directories" /\ Done
    /\ data' = FALSE
    /\ spoiled' = spoiled \cup (IF agent = "none" THEN {}
                               ELSE {IF command.heard THEN "heard" ELSE "unheard"})
    /\ UNCHANGED <<host, commands, installed, state, agent, since, recoveries, wanted, result>>

Tick ==
    /\ now < MaxTime /\ now' = now + 1
    /\ UNCHANGED <<platform, shell, installed, state, agent, since, recoveries, wanted, data, result, spoiled>>

Commands ==
    \/ \E start \in BOOLEAN : Install(start)
    \/ Start
    \/ \E op \in {"stop", "restart"} \cup Removing, heard \in BOOLEAN : AskToStop(op, heard)
    \/ WaitFails \/ StopEnds \/ RestartEnds \/ UninstallGoesOn
    \/ \E fails \in BOOLEAN : Delete(fails)
    \/ RemoveDirectories

Next == Ready \/ AgentReturns \/ Crash \/ GiveUp \/ Recover \/ Commands \/ Tick

Spec == Init /\ [][Next]_vars

TypeOK ==
    /\ state \in {"stopped", "failed"} \cup Active
    /\ agent \in {"none", "starting", "serving", "stopping"}
    /\ state \notin Active => agent = "none"
    /\ now \in Nat /\ spoiled \subseteq {"heard", "unheard"}
    /\ command \in [op : {"none", "stop", "restart", "directories"} \cup Removing,
                    at : Nat, waits : BOOLEAN, heard : BOOLEAN]

-----------------------------------------------------------------------------
\* Whatever order commands, crashes, recoveries, failing calls and slow shutdowns come in: the
\* service is reported running only while its agent serves; and under systemd it is
\* reported stopped only when the last agent returned without an error, and a purge takes
\* the directories from an agent only when systemctl failed to stop it.
\* (Execute, runService, Manager.Status, Manager.Uninstall)
ServiceIsHonest ==
    /\ state = "running" => agent = "serving"
    /\ platform = "systemd" => /\ state = "stopped" => result = "ok"
                               /\ "heard" \notin spoiled

\* A purge never takes the directories from an agent.  Uninstall ignores a stop that fails
\* (service_linux.go:86); on Windows also one that is not accepted as the service is
\* starting, and a wait that runs out, and a restart may come after the wait.
PurgeWaitsForTheAgent == spoiled = {}

\* What is reported stopped ended well.  On Windows it may as well have failed.
StoppedMeansWell == state = "stopped" => result = "ok"
=============================================================================
