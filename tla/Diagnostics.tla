------------------------------ MODULE Diagnostics ------------------------------
(***************************************************************************)
(* What the component tells its operator: the two diagnostic statuses of a *)
(* drive and its joint, and the log of the transport's losses and          *)
(* recoveries, in both I/O modes; and state_mutex_, under which they are   *)
(* collected. read() with synchronous I/O keeps its shared lock while      *)
(* force_update() takes it again for every status.                         *)
(*                                                                         *)
(* The commands, the mode switch and the axes are in                       *)
(* ODriveHardwareInterface and AsyncIo. An activation that fails when it   *)
(* clears the errors finalises the component and is left out.              *)
(***************************************************************************)
EXTENDS Naturals

CONSTANT WritersPreferred  \* a waiting writer keeps new shared locks of state_mutex_ out

ASSUME DiagnosticsAssumption == WritersPreferred \in BOOLEAN

VARIABLES
    enable_async_io,  \* the I/O mode, chosen by on_init
    lifecycle,        \* "inactive" or "active"
    transport,        \* "null", "ok", or "broken": it has a sticky error
    \* state_mutex_
    shares,           \* shared locks the control loop holds
    owner,            \* who holds the exclusive lock: "nobody", "loop", "service"
    waiting,          \* threads that wait for the exclusive lock
    \* where the threads are
    loop, svc, worker,
    pending,          \* async_io_request_pending_
    \* what is known of the joint and its drive
    known,            \* joints_ and drives_
    latest,           \* async_latest_telemetry_
    copied,           \* and read()'s copy of it
    \* what is told
    due,              \* diagnostics_period_ has passed since the last update, or there was none
    status,           \* the last statuses published
    log               \* transport_log_state_: "unknown", "online" or "offline"

lock == <<shares, owner, waiting>>
asynchronous == <<worker, pending, latest>>
told == <<due, status, log>>
vars == <<enable_async_io, lifecycle, transport, lock, loop, svc, asynchronous, known, copied,
          told>>

\* A read error comes with telemetry that is not valid, so the latter stands for both; "fault"
\* says that an error register of the axis is not zero.
Known == [telemetry_valid : BOOLEAN, write_error : BOOLEAN, fault : BOOLEAN]
Snapshot == [transport_ok : BOOLEAN, known : Known]
\* The level of the drive, and what the status of the joint shows.
Status == [drive : {"OK", "WARN", "ERROR"}, io_fault : BOOLEAN, fault : BOOLEAN]

\* reset_runtime_state(); not-a-number is no error.
Nothing == [telemetry_valid |-> FALSE, write_error |-> FALSE, fault |-> FALSE]
Fresh == [transport_ok |-> TRUE, known |-> Nothing]

Init ==
    /\ enable_async_io \in BOOLEAN
    /\ lifecycle = "inactive" /\ transport = "null"
    /\ shares = 0 /\ owner = "nobody" /\ waiting = {}
    /\ loop = "idle" /\ svc = "none" /\ worker = "none" /\ pending = FALSE
    /\ known = Nothing /\ latest = [Fresh EXCEPT !.transport_ok = FALSE] /\ copied = Fresh
    /\ due = TRUE /\ log = "unknown"
    /\ status = [drive |-> "OK", io_fault |-> FALSE, fault |-> FALSE]

-----------------------------------------------------------------------------
(* state_mutex_ *)

SharedIsFree == owner = "nobody" /\ (WritersPreferred => waiting = {})

LockShared ==
    /\ SharedIsFree
    /\ shares' = shares + 1
    /\ UNCHANGED <<owner, waiting>>

UnlockShared ==
    /\ shares' = shares - 1
    /\ UNCHANGED <<owner, waiting>>

LockExclusive(thread) ==
    /\ thread \in waiting /\ owner = "nobody" /\ shares = 0
    /\ owner' = thread
    /\ waiting' = waiting \ {thread}
    /\ UNCHANGED shares

WaitExclusive(thread) == waiting' = waiting \cup {thread} /\ UNCHANGED <<shares, owner>>
UnlockExclusive == owner' = "nobody" /\ UNCHANGED <<shares, waiting>>

-----------------------------------------------------------------------------
(* What is told.                                                           *)

\* update_transport_health(): the log gets a line when the state changes.
Health(ok) == log' = IF ok THEN "online" ELSE "offline"

IoFault(k) == ~k.telemetry_valid \/ k.write_error

\* Mutant: a joint whose telemetry is not valid is no I/O fault of its drive.
DriveLevel_ErrorsOnly(k) ==
    IF k.write_error THEN "ERROR" ELSE IF k.fault THEN "WARN" ELSE "OK"

\* populate_drive_diagnostics(); a CAN error or its register that cannot be read raises the
\* level as well.
DriveLevel(k) == IF IoFault(k) THEN "ERROR" ELSE IF k.fault THEN "WARN" ELSE "OK"

\* populate_joint_diagnostics(): the I/O state is shown, but of it all only the error
\* registers (and the temperatures) decide the level.
JointLevel(shown) == IF shown.fault THEN "ERROR" ELSE "OK"

\* maybe_update_diagnostics(): due or not; every status takes the shared lock.
Tasks == {"lock_drive", "drive", "lock_joint", "joint"}
AfterTasks == IF enable_async_io THEN "post" ELSE "unlock"

TellKeeps == UNCHANGED <<enable_async_io, lifecycle, transport, svc, asynchronous, known, copied,
                         log>>

\* Mutant: nothing is published while the log says offline.
MaybeUpdate_OnlyOnline ==
    /\ loop = "update"
    /\ loop' = IF due /\ log # "offline" THEN "lock_drive" ELSE AfterTasks
    /\ TellKeeps /\ UNCHANGED <<lock, due, status>>

MaybeUpdate ==
    /\ loop = "update"
    /\ loop' = IF due THEN "lock_drive" ELSE AfterTasks
    /\ TellKeeps /\ UNCHANGED <<lock, due, status>>

LockTask ==
    /\ \/ loop = "lock_drive" /\ loop' = "drive"
       \/ loop = "lock_joint" /\ loop' = "joint"
    /\ LockShared
    /\ TellKeeps /\ UNCHANGED <<due, status>>

PopulateDrive ==
    /\ loop = "drive" /\ loop' = "lock_joint"
    /\ status' = [status EXCEPT !.drive = DriveLevel(known)]
    /\ UnlockShared
    /\ TellKeeps /\ UNCHANGED due

PopulateJoint ==
    /\ loop = "joint" /\ loop' = AfterTasks
    /\ status' = [status EXCEPT !.io_fault = IoFault(known), !.fault = known.fault]
    /\ due' = FALSE
    /\ UnlockShared
    /\ TellKeeps

-----------------------------------------------------------------------------
(* The control loop with synchronous I/O.                                  *)

Answers == IF transport = "broken" THEN {"fatal"} ELSE {"ok", "soft", "fatal"}
Worn(s) == IF s = "fatal" THEN "broken" ELSE transport

\* The framework serialises every callback but on_deactivate with read() and write().
MayCall == loop = "idle" /\ svc \in {"none", "join", "want", "wait", "axes"}
LoopKeeps == UNCHANGED <<enable_async_io, lifecycle, svc, asynchronous, copied>>

\* mark_all_unhealthy_and_hold()
AllUnhealthy == [known EXCEPT !.telemetry_valid = FALSE]

StartRead ==
    /\ ~enable_async_io /\ MayCall
    /\ LockShared
    /\ loop' = "registers"
    /\ LoopKeeps /\ UNCHANGED <<transport, known, told>>

ReadWithoutTransport ==
    /\ loop = "registers" /\ transport = "null"
    /\ known' = [known EXCEPT !.telemetry_valid = FALSE]
    /\ Health(FALSE)
    /\ loop' = "unlock"
    /\ LoopKeeps /\ UNCHANGED <<transport, lock, due, status>>

\* Mutant: the loss of the transport is found and not reported.
ReadRegisters_Silent(s) ==
    /\ loop = "registers" /\ transport # "null" /\ s \in Answers
    /\ transport' = Worn(s)
    /\ IF s = "fatal"
       THEN known' = AllUnhealthy /\ loop' = "unlock"
       ELSE loop' = "telemetry" /\ UNCHANGED known
    /\ LoopKeeps /\ UNCHANGED <<lock, due, status, log>>

\* The registers of the sensors and of the drive.
ReadRegisters(s) ==
    /\ loop = "registers" /\ transport # "null" /\ s \in Answers
    /\ transport' = Worn(s)
    /\ IF s = "fatal"
       THEN known' = AllUnhealthy /\ Health(FALSE) /\ loop' = "unlock"
       ELSE loop' = "telemetry" /\ UNCHANGED <<known, log>>
    /\ LoopKeeps /\ UNCHANGED <<lock, due, status>>

\* A sample of the joint: accepted, or rejected like one that was not received.
Sampled(k, accepted, fault) ==
    IF accepted
    THEN [k EXCEPT !.telemetry_valid = TRUE, !.fault = fault]
    ELSE [k EXCEPT !.telemetry_valid = FALSE]

ReadJoint(s, accepted, fault) ==
    /\ loop = "telemetry" /\ s \in Answers
    /\ accepted => s = "ok"
    /\ transport' = Worn(s)
    /\ IF s = "fatal"
       THEN known' = AllUnhealthy /\ Health(FALSE) /\ loop' = "unlock"
       ELSE /\ known' = Sampled(known, accepted, fault)
            /\ loop' = "update" /\ UNCHANGED log
    /\ LoopKeeps /\ UNCHANGED <<lock, due, status>>

\* Mutant: write() asks for its lock while read() keeps the share it has.
EndRead_Upgrades ==
    /\ loop = "unlock"
    /\ loop' = "want"
    /\ LoopKeeps /\ UNCHANGED <<transport, lock, known, told>>

EndRead ==
    /\ loop = "unlock"
    /\ UnlockShared
    /\ loop' = "want"
    /\ LoopKeeps /\ UNCHANGED <<transport, known, told>>

\* What perform_command_mode_switch() leaves in the interfaces when it ends with this status: the
\* write error, but for a joint it masks, and on a claim the axis error as the drive has it now,
\* or cleared. Errors of an unclaim are passed over, and none is reported to
\* update_transport_health().
Switched(s) ==
    {k \in Known : /\ k.telemetry_valid = known.telemetry_valid
                   /\ \/ k.write_error = (s # "ok")
                      \/ k.fault /\ k.write_error = known.write_error}

\* A mode switch that is due uses the transport without the lock. Then write() asks for its lock.
StartWrite(s) ==
    /\ loop = "want"
    /\ \/ s = "none" /\ UNCHANGED <<transport, known>>
       \/ transport # "null" /\ s \in Answers /\ transport' = Worn(s) /\ known' \in Switched(s)
    /\ WaitExclusive("loop")
    /\ loop' = "wait"
    /\ LoopKeeps /\ UNCHANGED told

LoopLocks ==
    /\ loop = "wait"
    /\ LockExclusive("loop")
    /\ loop' = IF enable_async_io THEN "apply" ELSE "write"
    /\ LoopKeeps /\ UNCHANGED <<transport, known, told>>

\* write(): a masked joint or a closed gate ("none") leaves write_error as it is.
Written(k, s) == IF s = "none" THEN k ELSE [k EXCEPT !.write_error = s # "ok"]

Write(s) ==
    /\ loop = "write"
    /\ \/ /\ transport = "null" /\ s = "none"
          /\ Health(FALSE) /\ UNCHANGED <<transport, known>>
       \/ /\ transport # "null" /\ s \in Answers \cup {"none"}
          /\ known' = Written(known, s)
          /\ IF s = "fatal" THEN transport' = "null" /\ Health(FALSE) ELSE UNCHANGED <<transport, log>>
    /\ UnlockExclusive
    /\ loop' = "idle"
    /\ LoopKeeps /\ UNCHANGED <<due, status>>

-----------------------------------------------------------------------------
(* The control loop and the worker with asynchronous I/O.                  *)

InFlight == worker \in {"cycle", "lost"}

\* read() takes the snapshot; a cycle that is overdue counts as a lost transport.
ReadSnapshot(overdue) ==
    /\ enable_async_io /\ MayCall
    /\ overdue => InFlight
    /\ copied' = IF overdue
                 THEN [latest EXCEPT !.transport_ok = FALSE, !.known.telemetry_valid = FALSE]
                 ELSE latest
    /\ WaitExclusive("loop")
    /\ loop' = "wait"
    /\ UNCHANGED <<enable_async_io, lifecycle, svc, transport, asynchronous, known, told>>

ReadApply ==
    /\ loop = "apply"
    /\ known' = copied.known
    /\ copied' = [copied EXCEPT !.known = Nothing]
    /\ UnlockExclusive
    /\ loop' = "health"
    /\ UNCHANGED <<enable_async_io, lifecycle, svc, transport, asynchronous, told>>

ReadHealth ==
    /\ loop = "health"
    /\ Health(copied.transport_ok)
    /\ copied' = Fresh
    /\ loop' = "update"
    /\ UNCHANGED <<enable_async_io, lifecycle, svc, transport, lock, asynchronous, known, due,
                   status>>

\* write(): the commands are copied under the shared lock and posted.
WritePost ==
    /\ loop = "post"
    /\ SharedIsFree
    /\ pending' = TRUE
    /\ loop' = "idle"
    /\ UNCHANGED <<enable_async_io, lifecycle, svc, transport, lock, worker, latest, known, copied,
                   told>>

\* A mode switch: the worker is joined, and started again if it ran.
AsyncModeSwitch(s) ==
    /\ loop = "post" /\ worker \in {"none", "idle"}
    /\ transport # "null" /\ s \in Answers /\ transport' = Worn(s) /\ known' \in Switched(s)
    /\ pending' = (worker = "idle")
    /\ UNCHANGED <<enable_async_io, lifecycle, lock, loop, svc, worker, latest, copied, told>>

WorkerKeeps == UNCHANGED <<enable_async_io, lifecycle, svc, lock, loop, known, copied, due, status>>

\* Mutant: a request is looked at before the stop flag.
WorkerStart_RequestFirst ==
    /\ worker = "idle" /\ pending
    /\ worker' = "cycle" /\ pending' = FALSE
    /\ WorkerKeeps /\ UNCHANGED <<transport, latest, log>>

\* The stop flag ends the worker before it looks at a request.
WorkerStart ==
    /\ worker = "idle" /\ pending /\ svc \notin {"join", "join_recover"}
    /\ worker' = "cycle" /\ pending' = FALSE
    /\ WorkerKeeps /\ UNCHANGED <<transport, latest, log>>

\* A cycle works on a copy of the last snapshot and publishes it at its end: a sample (or none,
\* or one that is rejected) and a command.
WorkerCycle(accepted, fault, w) ==
    /\ worker = "cycle" /\ worker' = "idle"
    /\ transport = "ok"
    /\ latest' = [transport_ok |-> TRUE,
                  known |-> Written(Sampled(latest.known, accepted, fault), w)]
    /\ WorkerKeeps /\ UNCHANGED <<transport, pending, log>>

\* Mutant: a cycle without a transport keeps the health its snapshot was made with.
WorkerWithoutTransport_Healthy ==
    /\ worker = "cycle" /\ worker' = "idle"
    /\ transport = "null"
    /\ latest' = [transport_ok |-> TRUE, known |-> [latest.known EXCEPT !.telemetry_valid = FALSE]]
    /\ WorkerKeeps /\ UNCHANGED <<transport, pending, log>>

WorkerWithoutTransport ==
    /\ worker = "cycle" /\ worker' = "idle"
    /\ transport = "null"
    /\ latest' = [transport_ok |-> FALSE, known |-> [latest.known EXCEPT !.telemetry_valid = FALSE]]
    /\ WorkerKeeps /\ UNCHANGED <<transport, pending, log>>

\* A fail-fast status, at whichever transaction of the cycle: the transport is dropped and the
\* log told at once.
WorkerLoses ==
    /\ worker = "cycle" /\ worker' = "lost"
    /\ transport # "null" /\ transport' = "null"
    /\ Health(FALSE)
    /\ WorkerKeeps /\ UNCHANGED <<pending, latest>>

\* The joints' samples from before the loss are published with it.
PublishLoss(sampled, fault) ==
    /\ worker = "lost" /\ worker' = "idle"
    /\ latest' = [transport_ok |-> FALSE,
                  known |-> [telemetry_valid |-> FALSE, write_error |-> TRUE,
                             fault |-> IF sampled THEN fault ELSE latest.known.fault]]
    /\ WorkerKeeps /\ UNCHANGED <<transport, pending, log>>

-----------------------------------------------------------------------------
(* The service thread and the clock.                                       *)

SvcKeeps == UNCHANGED <<enable_async_io, loop, known, copied, due, status>>

\* Mutant: an activation that finds its drives does not say so.
Activate_Unreported(outcome) ==
    /\ lifecycle = "inactive" /\ svc = "none" /\ loop = "idle"
    /\ lifecycle' = "active"
    /\ transport' = IF outcome = "ok" THEN "ok" ELSE "null"
    /\ IF outcome = "ok" THEN UNCHANGED log ELSE Health(FALSE)
    /\ IF outcome = "ok" /\ enable_async_io
       THEN worker' = "idle" /\ pending' = TRUE /\ latest' = Fresh
       ELSE UNCHANGED asynchronous
    /\ SvcKeeps /\ UNCHANGED <<svc, lock>>

\* on_activate(): initialize_transport() finds no device, fails at a joint, or succeeds.
Activate(outcome) ==
    /\ lifecycle = "inactive" /\ svc = "none" /\ loop = "idle"
    /\ lifecycle' = "active"
    /\ transport' = IF outcome = "ok" THEN "ok" ELSE "null"
    /\ Health(outcome = "ok")
    /\ IF outcome = "ok" /\ enable_async_io
       THEN worker' = "idle" /\ pending' = TRUE /\ latest' = Fresh
       ELSE UNCHANGED asynchronous
    /\ SvcKeeps /\ UNCHANGED <<svc, lock>>

\* async_io_stop_and_join(), called by on_deactivate, on_cleanup and recover.
StopAndJoin(call) ==
    /\ svc = "none"
    /\ \/ call = "join" /\ lifecycle = "active"
       \/ call = "join_recover" /\ loop = "idle"
    /\ svc' = call
    /\ SvcKeeps /\ UNCHANGED <<lifecycle, transport, lock, asynchronous, log>>

Joined(next) ==
    /\ worker \in {"none", "idle"}
    /\ worker' = "none" /\ pending' = FALSE
    /\ svc' = next
    /\ UNCHANGED latest

DeactivateWants ==
    /\ svc = "join" /\ Joined("wait")
    /\ WaitExclusive("service")
    /\ SvcKeeps /\ UNCHANGED <<lifecycle, transport, log>>

DeactivateLocks ==
    /\ svc = "wait" /\ svc' = "axes"
    /\ LockExclusive("service")
    /\ SvcKeeps /\ UNCHANGED <<lifecycle, transport, asynchronous, log>>

\* The IDLE requests; the first that fails drops the transport, unreported.
DeactivateAxes(s) ==
    /\ svc = "axes" /\ svc' = "none"
    /\ \/ transport = "null" /\ s = "ok" /\ UNCHANGED transport
       \/ /\ transport # "null" /\ s \in Answers
          /\ transport' = IF s = "ok" THEN transport ELSE "null"
    /\ lifecycle' = "inactive"
    /\ UnlockExclusive
    /\ SvcKeeps /\ UNCHANGED <<asynchronous, log>>

\* recover(), or on_cleanup() and the configuration that follows it.
Recover ==
    /\ svc = "join_recover" /\ Joined("none")
    /\ transport' = "null" /\ known' = Nothing /\ due' = TRUE
    /\ UNCHANGED <<enable_async_io, lifecycle, lock, loop, copied, status, log>>

PeriodPasses ==
    /\ ~due /\ due' = TRUE
    /\ UNCHANGED <<enable_async_io, lifecycle, transport, lock, loop, svc, asynchronous, known,
                   copied, status, log>>

-----------------------------------------------------------------------------

\* The steps that follow a call of the control loop.
LoopStep ==
    \/ MaybeUpdate \/ LockTask \/ PopulateDrive \/ PopulateJoint
    \/ ReadWithoutTransport
    \/ \E s \in {"none", "ok", "soft", "fatal"} : StartWrite(s) \/ Write(s)
    \/ \E s \in {"ok", "soft", "fatal"} :
        \/ ReadRegisters(s)
        \/ \E accepted, fault \in BOOLEAN : ReadJoint(s, accepted, fault)
    \/ EndRead \/ LoopLocks
    \/ ReadApply \/ ReadHealth \/ WritePost

LoopCall == StartRead \/ \E overdue \in BOOLEAN : ReadSnapshot(overdue)

Worker ==
    \/ WorkerStart \/ WorkerWithoutTransport \/ WorkerLoses
    \/ \E accepted, fault \in BOOLEAN :
        \/ PublishLoss(accepted, fault)
        \/ \E w \in {"none", "ok", "soft"} : WorkerCycle(accepted, fault, w)

\* What follows the call of a callback in the service thread.
Callback ==
    \/ DeactivateWants \/ DeactivateLocks \/ Recover
    \/ \E s \in {"ok", "soft", "fatal"} : DeactivateAxes(s)

Framework ==
    \/ \E outcome \in {"none", "partly", "ok"} : Activate(outcome)
    \/ \E call \in {"join", "join_recover"} : StopAndJoin(call)
    \/ \E s \in {"ok", "soft", "fatal"} : AsyncModeSwitch(s)

Next == LoopCall \/ LoopStep \/ Worker \/ Callback \/ Framework \/ PeriodPasses

Spec == Init /\ [][Next]_vars

\* The control loop is periodic, whatever callbacks come between two of its calls; every
\* transfer ends, and a thread that waits for a lock that is free again and again gets it.
Fairness ==
    /\ SF_vars(LoopCall) /\ WF_vars(LoopStep) /\ SF_vars(LoopLocks)
    /\ WF_vars(Worker) /\ WF_vars(PeriodPasses)
    /\ WF_vars(Callback) /\ SF_vars(DeactivateLocks)

FairSpec == Spec /\ Fairness

-----------------------------------------------------------------------------
(* Properties *)

\* Types, and the lock: an exclusive holder is alone, and read() holds at most two shares.
TypeOK ==
    /\ enable_async_io \in BOOLEAN /\ lifecycle \in {"inactive", "active"}
    /\ transport \in {"null", "ok", "broken"}
    /\ shares \in 0..2 /\ owner \in {"nobody", "loop", "service"}
    /\ waiting \subseteq {"loop", "service"}
    /\ owner # "nobody" => shares = 0
    /\ loop \in {"idle", "registers", "telemetry", "update", "unlock", "want", "wait", "write",
                 "apply", "health", "post"} \cup Tasks
    /\ svc \in {"none", "join", "join_recover", "wait", "axes"}
    /\ worker \in {"none", "idle", "cycle", "lost"} /\ pending \in BOOLEAN
    /\ known \in Known
    /\ latest \in Snapshot /\ copied \in Snapshot
    /\ due \in BOOLEAN /\ status \in Status /\ log \in {"unknown", "online", "offline"}

\* Who waits for state_mutex_ waits for a thread that goes on, unless read() with synchronous
\* I/O takes its second share of a mutex that keeps readers out for waiting writers: the control
\* loop for on_deactivate() in its critical section or just before it, on_deactivate() for a
\* read() or write() that will get every lock it still asks for.
MutexIsFree == owner = "nobody" /\ shares = 0
LoopGoesOn ==
    /\ loop \in {"lock_drive", "lock_joint", "post"} => SharedIsFree
    /\ loop = "wait" => MutexIsFree
NoCircularWait ==
    enable_async_io \/ ~WritersPreferred =>
    /\ ~LoopGoesOn => svc = "axes" \/ (svc = "wait" /\ MutexIsFree)
    /\ svc = "wait" /\ ~MutexIsFree =>
         LoopGoesOn /\ loop \notin {"idle", "want", "wait", "health", "post"}

\* The two statuses of one update agree: a drive is nominal only if no joint of it is published
\* with an I/O fault or an error register set. They are collected under locks of their own, so
\* nothing may change what they show in between.
DriveStatusCoversItsJoint ==
    loop \notin Tasks => (status.drive = "OK" => ~status.io_fault /\ ~status.fault)

\* The log of a component with synchronous I/O never says offline while the transport works.
OfflineIsTrue == ~enable_async_io /\ log = "offline" => transport # "ok"

\* Somebody uses the transport: the worker, or the control loop itself.
Watched == enable_async_io => worker # "none"

\* A loss of the transport gets to the log, whoever finds it first and whether or not that
\* caller reports it.
LossIsLogged ==
    Watched /\ transport # "ok" ~> log = "offline" \/ transport = "ok" \/ ~Watched

\* read() may log a recovery from a snapshot that is older than the loss the worker has logged.
\* The log does not keep it, and does not go back and forth between the two: of a transport that
\* stays lost there is a last line, and it says offline.
LossStaysLogged == <>[](Watched /\ transport # "ok") => <>[](log = "offline")

\* With asynchronous I/O a loss is published as an error of the drive.
LossIsPublished ==
    enable_async_io /\ Watched /\ transport # "ok" ~>
        status.drive = "ERROR" \/ transport = "ok" \/ ~Watched

\* on_deactivate() joins the worker, gets state_mutex_ and returns, although the control loop
\* goes on posting requests, and read() takes the mutex twice.
DeactivationReturns == svc = "join" ~> svc = "none"
=============================================================================
