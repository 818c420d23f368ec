------------------------------ MODULE TerminalBoot ------------------------------
(***************************************************************************)
(* createTerminalBoot of the terminal SDK (terminal/boot.ts): the container *)
(* with retries, the restore, the host daemon, the application's steps as   *)
(* boot-steps.ts gives them, and the host's readiness, for which the old    *)
(* process is killed and another one started up to attempts times.  The     *)
(* steps are counted as the progress line shows them, for a guest (no home).*)
(***************************************************************************)
EXTENDS Naturals, FiniteSets

CONSTANTS
    MaxBootAttempts,    \* MAX_BOOT_ATTEMPTS
    MaxReadyAttempts,   \* MAX_HOST_READY_ATTEMPTS
    MaxAutostart        \* bound: services that start with the boot

VARIABLES
    pc,
    attempt,       \* of the container, then of the readiness
    bootStep, bootTotal,
    services,      \* the autostart services that are still to be started
    injected,      \* host.js is in the container
    spawned,       \* how many host processes there have been
    killed,        \* those that were told to end
    up,            \* those that run and answer
    hostProc       \* the process boot() will return, or 0

sdkVars == <<pc, attempt, bootStep, bootTotal, services, injected, spawned, killed, up, hostProc>>

Init ==
    /\ pc = "container" /\ attempt = 1 /\ bootStep = 0 /\ bootTotal = 0
    /\ services \in 0..MaxAutostart /\ injected = FALSE
    /\ spawned = 0 /\ killed = {} /\ up = {} /\ hostProc = 0

\* ok, note and failStep count; noteOnly does not.
Counted(n) == bootStep' = bootStep + n

\* The environment is no browser for it, or every attempt at the container failed.
ContainerFails ==
    /\ pc = "container"
    /\ IF attempt < MaxBootAttempts
       THEN attempt' = attempt + 1 /\ UNCHANGED pc
       ELSE pc' = "null" /\ UNCHANGED attempt
    /\ UNCHANGED <<bootStep, bootTotal, services, injected, spawned, killed, up, hostProc>>

\* The total is the fixed steps and the services that the application announces.
\* Here it announces those it will start.
ContainerBoots ==
    /\ pc = "container" /\ pc' = "restore" /\ attempt' = 1
    /\ bootTotal' = 8 + services /\ bootStep' = 1
    /\ UNCHANGED <<services, injected, spawned, killed, up, hostProc>>

\* Restored, fresh, or failed and gone on: one step, and a line for the failure.
Restore ==
    /\ pc = "restore" /\ pc' = "host" /\ Counted(1)
    /\ UNCHANGED <<attempt, bootTotal, services, injected, spawned, killed, up, hostProc>>

\* bootEngineHost, of the boot: the injection is a step, the spawn two.
SpawnHost ==
    /\ pc = "host"
    /\ \/ /\ pc' = "workspace" /\ injected' = TRUE
          /\ Counted(IF injected THEN 2 ELSE 3)
          /\ spawned' = spawned + 1 /\ hostProc' = spawned + 1
       \/ pc' = "threw" /\ UNCHANGED <<bootStep, injected, spawned, hostProc>>
    /\ UNCHANGED <<attempt, bootTotal, services, killed, up>>

\* The workspace, the variables, the service files, the banner: two steps, and
\* lines for what fails.  The file that shows the sharing may not fail.
Configure ==
    /\ pc = "workspace" /\ Counted(2)
    /\ pc' \in {"probe", "threw"}
    /\ UNCHANGED <<attempt, bootTotal, services, injected, spawned, killed, up, hostProc>>

\* A process that was not killed comes up, or ends, at any time.
HostChanges ==
    /\ \/ \E p \in 1..spawned: p \notin up \cup killed /\ up' = up \cup {p}
       \/ \E p \in up: up' = up \ {p}
    /\ UNCHANGED <<pc, attempt, bootStep, bootTotal, services, injected, spawned, killed, hostProc>>

\* waitHostReady: the process of the channel's epoch has answered a ping.
Pong ==
    /\ pc = "probe" /\ spawned \in up /\ pc' = "autostart" /\ Counted(1)
    /\ UNCHANGED <<attempt, bootTotal, services, injected, spawned, killed, up, hostProc>>

\* withRetry: the deadline has passed; the last attempt throws, also out of boot().
NotReady ==
    /\ pc = "probe"
    /\ pc' = IF attempt < MaxReadyAttempts THEN "kill" ELSE "threw"
    /\ UNCHANGED <<attempt, bootStep, bootTotal, services, injected, spawned, killed, up, hostProc>>

\* (mutant: the process the boot began with is killed, not the last one)
KillFirst ==
    /\ pc = "kill" /\ pc' = "respawn"
    /\ killed' = killed \cup {1} /\ up' = up \ {1}
    /\ UNCHANGED <<attempt, bootStep, bootTotal, services, injected, spawned, hostProc>>

\* respawnWithKillFirst: the process at hand is killed before another is started.
Kill ==
    /\ pc = "kill" /\ pc' = "respawn"
    /\ killed' = killed \cup {hostProc} /\ up' = up \ {hostProc}
    /\ UNCHANGED <<attempt, bootStep, bootTotal, services, injected, spawned, hostProc>>

\* Of the second process nothing is counted; a spawn that throws ends the retries.
Respawn ==
    /\ pc = "respawn"
    /\ \/ /\ pc' = "probe" /\ attempt' = attempt + 1
          /\ spawned' = spawned + 1 /\ hostProc' = spawned + 1
       \/ pc' = "threw" /\ UNCHANGED <<attempt, spawned, hostProc>>
    /\ UNCHANGED <<bootStep, bootTotal, services, injected, killed, up>>

\* (mutant: a service that does not start is no step)
AutostartOk ==
    /\ pc = "autostart" /\ services > 0
    /\ services' = services - 1 /\ bootStep' \in {bootStep, bootStep + 1}
    /\ UNCHANGED <<pc, attempt, bootTotal, injected, spawned, killed, up, hostProc>>

\* The services one by one: started (ok) or not (failStep).
Autostart ==
    /\ pc = "autostart" /\ services > 0
    /\ services' = services - 1 /\ Counted(1)
    /\ UNCHANGED <<pc, attempt, bootTotal, injected, spawned, killed, up, hostProc>>

\* All have been started; or what throws there skips the rest of them.
Done ==
    /\ pc = "autostart" /\ pc' = "done"
    /\ UNCHANGED <<attempt, bootStep, bootTotal, services, injected, spawned, killed, up, hostProc>>

Next ==
    \/ ContainerFails \/ ContainerBoots \/ Restore \/ SpawnHost \/ Configure
    \/ HostChanges \/ Pong \/ NotReady \/ Kill \/ Respawn \/ Autostart \/ Done

Spec == Init /\ [][Next]_sdkVars

-------------------------------------------------------------------------------
\* From the first answer on the process that boot() returns was not killed and is
\* the one that answered; all processes before it were killed, so that one host
\* polls at most, and there were no more of them than attempts.
ReturnedHostIsTheOnlyOne ==
    pc \in {"autostart", "done"} =>
        /\ hostProc = spawned /\ killed = 1..(spawned - 1)
        /\ spawned <= MaxReadyAttempts

\* The progress line ends at N of N, whatever was retried or failed on the way,
\* and short of it only by the services that were skipped.
StepsAddUp == pc = "done" => bootStep + services = bootTotal
=============================================================================
