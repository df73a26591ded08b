--------------------------- MODULE DiagnosticsProofs ---------------------------
(***************************************************************************)
(* Proofs about Diagnostics, in both I/O modes and for both kinds of       *)
(* shared mutex.                                                           *)
(***************************************************************************)
EXTENDS Diagnostics, TLAPS

\* Where read() with synchronous I/O holds its share, and where a status holds its own.
Reading == {"registers", "telemetry", "update", "unlock", "lock_drive", "drive", "lock_joint",
            "joint"}
Collecting == {"drive", "joint"}

\* Who holds state_mutex_ and who waits for it is told by where the threads are.
LockInv ==
    /\ shares = (IF ~enable_async_io /\ loop \in Reading THEN 1 ELSE 0)
                  + (IF loop \in Collecting THEN 1 ELSE 0)
    /\ owner = "loop" <=> loop \in {"write", "apply"}
    /\ owner = "service" <=> svc = "axes"
    /\ "loop" \in waiting <=> loop = "wait"
    /\ "service" \in waiting <=> svc = "wait"

\* What belongs to one I/O mode, and what a callback that excludes the control loop is sure of.
ModeInv ==
    /\ loop \in {"registers", "telemetry", "unlock", "want", "write"} => enable_async_io = FALSE
    /\ loop \in {"apply", "health", "post"} => enable_async_io = TRUE
    /\ enable_async_io = FALSE => worker = "none"
    /\ svc = "join_recover" => loop = "idle"

\* While the statuses of one update are collected, what they show does not change.
CollectInv == loop \in {"lock_joint", "joint"} => status.drive = DriveLevel(known)

IInv == TypeOK /\ LockInv /\ ModeInv /\ CollectInv /\ DriveStatusCoversItsJoint /\ OfflineIsTrue

\* What is known of a joint keeps its type through a sample and through a command.
LEMMA KnownTypes ==
  ASSUME NEW k \in Known, NEW a \in BOOLEAN, NEW f \in BOOLEAN, NEW s
  PROVE  /\ Sampled(k, a, f) \in Known /\ Written(k, s) \in Known
         /\ [k EXCEPT !.telemetry_valid = FALSE] \in Known
         /\ Nothing \in Known
  <1>1. Sampled(k, a, f) \in Known
    BY DEF Sampled, Known
  <1>2. Written(k, s) \in Known
    BY DEF Written, Known
  <1>3. [k EXCEPT !.telemetry_valid = FALSE] \in Known /\ Nothing \in Known
    BY DEF Nothing, Known
  <1>4. QED
    BY <1>1, <1>2, <1>3

\* The first state.
LEMMA DiagnosticsInit == Init => IInv
  <1> SUFFICES ASSUME Init PROVE IInv
    OBVIOUS
  <1>1. TypeOK
    <2>1. Nothing \in Known /\ Fresh \in Snapshot /\ [Fresh EXCEPT !.transport_ok = FALSE] \in Snapshot
      BY DEF Known, Snapshot, Nothing, Fresh
    <2>2. status \in Status
      BY DEF Init, Status
    <2>3. known \in Known /\ latest \in Snapshot /\ copied \in Snapshot
      BY <2>1 DEF Init
    <2>4. enable_async_io \in BOOLEAN /\ pending \in BOOLEAN /\ due \in BOOLEAN
      BY DEF Init
    <2>5. /\ shares \in 0..2 /\ owner = "nobody" /\ waiting \subseteq {"loop", "service"}
      BY DEF Init
    <2>6. /\ lifecycle = "inactive" /\ transport = "null" /\ loop = "idle" /\ svc = "none"
          /\ worker = "none" /\ log = "unknown"
      BY DEF Init
    <2>7. QED
      BY <2>2, <2>3, <2>4, <2>5, <2>6 DEF TypeOK
  <1>2. LockInv /\ ModeInv /\ CollectInv
    BY DEF Init, LockInv, ModeInv, CollectInv, Reading, Collecting
  <1>3. DriveStatusCoversItsJoint /\ OfflineIsTrue
    BY DEF Init, DriveStatusCoversItsJoint, OfflineIsTrue
  <1>4. QED
    BY <1>1, <1>2, <1>3 DEF IInv

-----------------------------------------------------------------------------
(* The parts of the invariant, over the steps of each thread.               *)

\* The types, the control loop.
LEMMA TypesLoop == TypeOK /\ LockInv /\ ModeInv /\ (LoopCall \/ LoopStep) => TypeOK'
  <1> SUFFICES ASSUME TypeOK, LockInv, ModeInv, LoopCall \/ LoopStep PROVE TypeOK'
    OBVIOUS
  <1>1. CASE MaybeUpdate
    BY <1>1 DEF MaybeUpdate, TellKeeps, TypeOK, lock, asynchronous, Tasks, AfterTasks
  <1>2. CASE LockTask
    BY <1>2 DEF LockTask, LockShared, SharedIsFree, TellKeeps, TypeOK, LockInv, Reading,
                Collecting, asynchronous, Tasks
  <1>3. CASE PopulateDrive
    <2>1. status' \in Status
      BY <1>3 DEF PopulateDrive, TypeOK, Status, DriveLevel
    <2>2. QED
      BY <1>3, <2>1 DEF PopulateDrive, UnlockShared, TellKeeps, TypeOK, LockInv, Reading,
                        Collecting, asynchronous, Tasks
  <1>4. CASE PopulateJoint
    <2>1. status' \in Status
      BY <1>4 DEF PopulateJoint, TypeOK, Status, IoFault, Known
    <2>2. shares \in 1..2
      BY <1>4 DEF PopulateJoint, LockInv, Reading, Collecting
    <2>3. shares' \in 0..2 /\ shares' = shares - 1 /\ owner = "nobody" /\ UNCHANGED <<owner, waiting>>
      BY <1>4, <2>2 DEF PopulateJoint, UnlockShared, TypeOK
    <2>4. QED
      BY <1>4, <2>1, <2>3 DEF PopulateJoint, TellKeeps, TypeOK, asynchronous, AfterTasks
  <1>5. CASE ReadWithoutTransport
    BY <1>5, KnownTypes DEF ReadWithoutTransport, Health, LoopKeeps, TypeOK, lock, asynchronous
  <1>6. ASSUME NEW s \in {"ok", "soft", "fatal"}, ReadRegisters(s) PROVE TypeOK'
    BY <1>6, KnownTypes
       DEF ReadRegisters, AllUnhealthy, Health, LoopKeeps, TypeOK, lock, asynchronous, Worn
  <1>7. ASSUME NEW s \in {"ok", "soft", "fatal"}, NEW a \in BOOLEAN, NEW f \in BOOLEAN,
               ReadJoint(s, a, f)
        PROVE TypeOK'
    <2>1. known' \in Known /\ loop' \in {"unlock", "update"} /\ log' \in {log, "offline"}
      BY <1>7, KnownTypes DEF ReadJoint, AllUnhealthy, Health, TypeOK
    <2>2. QED
      BY <1>7, <2>1 DEF ReadJoint, LoopKeeps, TypeOK, lock, asynchronous, Worn
  <1>8. CASE EndRead
    <2>1. shares = 1
      BY <1>8 DEF EndRead, LockInv, ModeInv, Reading, Collecting
    <2>2. QED
      BY <1>8, <2>1 DEF EndRead, UnlockShared, LoopKeeps, TypeOK, asynchronous, told
  <1>9. ASSUME NEW s \in {"none", "ok", "soft", "fatal"}, StartWrite(s) PROVE TypeOK'
    <2>1. known' \in Known
      BY <1>9 DEF StartWrite, Switched, TypeOK
    <2>2. QED
      BY <1>9, <2>1 DEF StartWrite, WaitExclusive, LoopKeeps, TypeOK, Worn, asynchronous, told
  <1>10. ASSUME NEW s \in {"none", "ok", "soft", "fatal"}, Write(s) PROVE TypeOK'
    <2>1. known' \in Known
      BY <1>10, KnownTypes DEF Write, TypeOK
    <2>2. transport' \in {"null", transport} /\ log' \in {log, "offline"} /\ loop' = "idle"
      BY <1>10 DEF Write, Health
    <2>3. owner' = "nobody" /\ shares' = shares /\ waiting' = waiting
      BY <1>10 DEF Write, UnlockExclusive
    <2>4. UNCHANGED <<enable_async_io, lifecycle, svc, worker, pending, latest, copied, due, status>>
      BY <1>10 DEF Write, LoopKeeps, asynchronous
    <2>5. QED
      BY <2>1, <2>2, <2>3, <2>4 DEF TypeOK
  <1>11. CASE LoopLocks
    BY <1>11 DEF LoopLocks, LockExclusive, LoopKeeps, TypeOK, asynchronous, told
  <1>12. CASE ReadApply
    <2>1. known' \in Known /\ copied' \in Snapshot
      BY <1>12, KnownTypes DEF ReadApply, TypeOK, Snapshot
    <2>2. QED
      BY <1>12, <2>1 DEF ReadApply, UnlockExclusive, TypeOK, asynchronous, told
  <1>13. CASE ReadHealth
    <2>1. copied' \in Snapshot
      BY <1>13, KnownTypes DEF ReadHealth, Fresh, TypeOK, Snapshot
    <2>2. QED
      BY <1>13, <2>1 DEF ReadHealth, Health, TypeOK, lock, asynchronous
  <1>14. CASE WritePost
    BY <1>14 DEF WritePost, TypeOK, lock, told
  <1>15. CASE StartRead
    BY <1>15 DEF StartRead, MayCall, LockShared, SharedIsFree, LoopKeeps, TypeOK, LockInv, Reading,
                 Collecting, asynchronous, told
  <1>16. ASSUME NEW overdue \in BOOLEAN, ReadSnapshot(overdue) PROVE TypeOK'
    <2>1. copied' \in Snapshot
      <3>1. latest \in Snapshot /\ latest.known \in Known
        BY DEF TypeOK, Snapshot
      <3>2. [latest EXCEPT !.transport_ok = FALSE, !.known.telemetry_valid = FALSE] \in Snapshot
        BY <3>1, KnownTypes DEF Snapshot
      <3>3. QED
        BY <1>16, <3>1, <3>2 DEF ReadSnapshot
    <2>2. QED
      BY <1>16, <2>1 DEF ReadSnapshot, WaitExclusive, TypeOK, asynchronous, told
  <1>17. QED
    BY <1>1, <1>2, <1>3, <1>4, <1>5, <1>6, <1>7, <1>8, <1>9, <1>10, <1>11, <1>12, <1>13, <1>14,
       <1>15, <1>16 DEF LoopCall, LoopStep

\* The types, the worker, the service thread and the clock.
LEMMA TypesOthers ==
  TypeOK /\ ModeInv /\ (Worker \/ Callback \/ Framework \/ PeriodPasses) => TypeOK'
  <1> SUFFICES ASSUME TypeOK, ModeInv, Worker \/ Callback \/ Framework \/ PeriodPasses
               PROVE  TypeOK'
    OBVIOUS
  <1>1. CASE WorkerStart
    <2>1. pending' \in BOOLEAN /\ worker' = "cycle"
      BY <1>1 DEF WorkerStart
    <2>2. QED
      BY <1>1, <2>1 DEF WorkerStart, WorkerKeeps, TypeOK, lock
  <1>2. CASE WorkerWithoutTransport
    <2>1. latest' \in Snapshot
      BY <1>2, KnownTypes DEF WorkerWithoutTransport, TypeOK, Snapshot
    <2>2. QED
      BY <1>2, <2>1 DEF WorkerWithoutTransport, WorkerKeeps, TypeOK, lock
  <1>3. CASE WorkerLoses
    BY <1>3 DEF WorkerLoses, Health, WorkerKeeps, TypeOK, lock
  <1>4. ASSUME NEW a \in BOOLEAN, NEW f \in BOOLEAN, PublishLoss(a, f) PROVE TypeOK'
    <2>1. latest' \in Snapshot
      BY <1>4 DEF PublishLoss, TypeOK, Snapshot, Known
    <2>2. QED
      BY <1>4, <2>1 DEF PublishLoss, WorkerKeeps, TypeOK, lock
  <1>5. ASSUME NEW a \in BOOLEAN, NEW f \in BOOLEAN, NEW w \in {"none", "ok", "soft"},
               WorkerCycle(a, f, w)
        PROVE TypeOK'
    <2>1. Written(Sampled(latest.known, a, f), w) \in Known
      BY KnownTypes DEF TypeOK, Snapshot
    <2>2. latest' \in Snapshot
      BY <1>5, <2>1 DEF WorkerCycle, Snapshot
    <2>3. QED
      BY <1>5, <2>2 DEF WorkerCycle, WorkerKeeps, TypeOK, lock
  <1>6. CASE DeactivateWants
    <2>1. /\ svc' = "wait" /\ worker' = "none" /\ pending' = FALSE /\ latest' = latest
          /\ waiting' = waiting \cup {"service"} /\ UNCHANGED <<shares, owner>>
      BY <1>6 DEF DeactivateWants, Joined, WaitExclusive
    <2>2. UNCHANGED <<enable_async_io, lifecycle, transport, loop, known, copied, due, status, log>>
      BY <1>6 DEF DeactivateWants, SvcKeeps
    <2>3. /\ waiting' \subseteq {"loop", "service"} /\ shares' \in 0..2
          /\ owner' \in {"nobody", "loop", "service"} /\ (owner' # "nobody" => shares' = 0)
      BY <2>1 DEF TypeOK
    <2>4. latest' \in Snapshot /\ copied' \in Snapshot /\ known' \in Known /\ status' \in Status
      BY <2>1, <2>2 DEF TypeOK
    <2>5. QED
      BY <2>1, <2>2, <2>3, <2>4 DEF TypeOK
  <1>7. CASE DeactivateLocks
    BY <1>7 DEF DeactivateLocks, LockExclusive, SvcKeeps, TypeOK, asynchronous
  <1>8. CASE Recover
    <2>1. known' \in Known /\ transport' = "null" /\ due' = TRUE
      BY <1>8 DEF Recover, Nothing, Known
    <2>2. svc' = "none" /\ worker' = "none" /\ pending' = FALSE /\ latest' = latest
      BY <1>8 DEF Recover, Joined
    <2>3. QED
      BY <1>8, <2>1, <2>2 DEF Recover, TypeOK, lock
  <1>9. ASSUME NEW s \in {"ok", "soft", "fatal"}, DeactivateAxes(s) PROVE TypeOK'
    <2>1. transport' \in {"null", transport} /\ svc' = "none" /\ lifecycle' = "inactive"
      BY <1>9 DEF DeactivateAxes
    <2>2. owner' = "nobody" /\ shares' = shares /\ waiting' = waiting
      BY <1>9 DEF DeactivateAxes, UnlockExclusive
    <2>3. UNCHANGED <<enable_async_io, loop, worker, pending, latest, known, copied, due, status, log>>
      BY <1>9 DEF DeactivateAxes, SvcKeeps, asynchronous
    <2>4. QED
      BY <2>1, <2>2, <2>3 DEF TypeOK
  <1>10. ASSUME NEW outcome \in {"none", "partly", "ok"}, Activate(outcome) PROVE TypeOK'
    <2>1. Fresh \in Snapshot
      BY DEF Fresh, Nothing, Snapshot, Known
    <2>2. latest' \in Snapshot /\ pending' \in BOOLEAN
          /\ worker' \in {"none", "idle", "cycle", "lost"}
      BY <1>10, <2>1 DEF Activate, TypeOK, asynchronous
    <2>3. QED
      BY <1>10, <2>2 DEF Activate, Health, SvcKeeps, TypeOK, lock
  <1>11. ASSUME NEW call \in {"join", "join_recover"}, StopAndJoin(call) PROVE TypeOK'
    BY <1>11 DEF StopAndJoin, SvcKeeps, TypeOK, lock, asynchronous
  <1>12. ASSUME NEW s \in {"ok", "soft", "fatal"}, AsyncModeSwitch(s) PROVE TypeOK'
    <2>1. pending' \in BOOLEAN /\ known' \in Known
      BY <1>12 DEF AsyncModeSwitch, Switched
    <2>2. QED
      BY <1>12, <2>1 DEF AsyncModeSwitch, Worn, TypeOK, lock, told
  <1>13. CASE PeriodPasses
    BY <1>13 DEF PeriodPasses, TypeOK, lock, asynchronous
  <1>14. QED
    BY <1>1, <1>2, <1>3, <1>4, <1>5, <1>6, <1>7, <1>8, <1>9, <1>10, <1>11, <1>12, <1>13
       DEF Worker, Callback, Framework

\* Who holds and awaits the mutex, the control loop.
LEMMA LockLoop ==
  TypeOK /\ LockInv /\ ModeInv /\ (LoopCall \/ LoopStep) => LockInv' /\ ModeInv'
  <1> SUFFICES ASSUME TypeOK, LockInv, ModeInv, LoopCall \/ LoopStep PROVE LockInv' /\ ModeInv'
    OBVIOUS
  <1> USE DEF LockInv, ModeInv, Reading, Collecting
  <1>1. CASE MaybeUpdate
    BY <1>1 DEF MaybeUpdate, TellKeeps, TypeOK, lock, asynchronous, AfterTasks
  <1>2. CASE LockTask
    BY <1>2 DEF LockTask, LockShared, TellKeeps, TypeOK, asynchronous
  <1>3. CASE PopulateDrive
    BY <1>3 DEF PopulateDrive, UnlockShared, TellKeeps, TypeOK, asynchronous
  <1>4. CASE PopulateJoint
    BY <1>4 DEF PopulateJoint, UnlockShared, TellKeeps, TypeOK, asynchronous, AfterTasks
  <1>5. CASE ReadWithoutTransport
    BY <1>5 DEF ReadWithoutTransport, LoopKeeps, TypeOK, lock, asynchronous
  <1>6. ASSUME NEW s \in {"ok", "soft", "fatal"}, ReadRegisters(s) PROVE LockInv' /\ ModeInv'
    BY <1>6 DEF ReadRegisters, LoopKeeps, TypeOK, lock, asynchronous
  <1>7. ASSUME NEW s \in {"ok", "soft", "fatal"}, NEW a \in BOOLEAN, NEW f \in BOOLEAN,
               ReadJoint(s, a, f)
        PROVE LockInv' /\ ModeInv'
    <2>1. loop = "telemetry" /\ loop' \in {"unlock", "update"}
      BY <1>7 DEF ReadJoint
    <2>2. QED
      BY <1>7, <2>1 DEF ReadJoint, LoopKeeps, TypeOK, lock, asynchronous
  <1>8. CASE EndRead
    BY <1>8 DEF EndRead, UnlockShared, LoopKeeps, TypeOK, asynchronous
  <1>9. ASSUME NEW s \in {"none", "ok", "soft", "fatal"}, StartWrite(s) PROVE LockInv' /\ ModeInv'
    BY <1>9 DEF StartWrite, WaitExclusive, LoopKeeps, TypeOK, asynchronous
  <1>10. ASSUME NEW s \in {"none", "ok", "soft", "fatal"}, Write(s) PROVE LockInv' /\ ModeInv'
    BY <1>10 DEF Write, UnlockExclusive, LoopKeeps, TypeOK, asynchronous
  <1>11. CASE LoopLocks
    BY <1>11 DEF LoopLocks, LockExclusive, LoopKeeps, TypeOK, asynchronous
  <1>12. CASE ReadApply
    BY <1>12 DEF ReadApply, UnlockExclusive, TypeOK, asynchronous
  <1>13. CASE ReadHealth
    BY <1>13 DEF ReadHealth, TypeOK, lock, asynchronous
  <1>14. CASE WritePost
    BY <1>14 DEF WritePost, TypeOK, lock
  <1>15. CASE StartRead
    BY <1>15 DEF StartRead, MayCall, LockShared, LoopKeeps, TypeOK, asynchronous
  <1>16. ASSUME NEW overdue \in BOOLEAN, ReadSnapshot(overdue) PROVE LockInv' /\ ModeInv'
    BY <1>16 DEF ReadSnapshot, MayCall, WaitExclusive, TypeOK, asynchronous
  <1>17. QED
    BY <1>1, <1>2, <1>3, <1>4, <1>5, <1>6, <1>7, <1>8, <1>9, <1>10, <1>11, <1>12, <1>13, <1>14,
       <1>15, <1>16 DEF LoopCall, LoopStep

\* Who holds and awaits the mutex, the worker, the service thread and the clock.
LEMMA LockOthers ==
  TypeOK /\ LockInv /\ ModeInv /\ (Worker \/ Callback \/ Framework \/ PeriodPasses)
    => LockInv' /\ ModeInv'
  <1> SUFFICES ASSUME TypeOK, LockInv, ModeInv, Worker \/ Callback \/ Framework \/ PeriodPasses
               PROVE  LockInv' /\ ModeInv'
    OBVIOUS
  <1> USE DEF LockInv, ModeInv, Reading, Collecting
  <1>1. CASE Worker
    <2>1. worker # "none" /\ UNCHANGED <<enable_async_io, loop, svc, lock>>
      BY <1>1 DEF Worker, WorkerStart, WorkerWithoutTransport, WorkerLoses, PublishLoss, WorkerCycle,
                  WorkerKeeps
    <2>2. QED
      BY <2>1 DEF lock, TypeOK
  <1>2. CASE DeactivateWants
    BY <1>2 DEF DeactivateWants, Joined, WaitExclusive, SvcKeeps, TypeOK
  <1>3. CASE DeactivateLocks
    BY <1>3 DEF DeactivateLocks, LockExclusive, SvcKeeps, TypeOK, asynchronous
  <1>4. CASE Recover
    BY <1>4 DEF Recover, Joined, TypeOK, lock
  <1>5. ASSUME NEW s \in {"ok", "soft", "fatal"}, DeactivateAxes(s) PROVE LockInv' /\ ModeInv'
    BY <1>5 DEF DeactivateAxes, UnlockExclusive, SvcKeeps, TypeOK, asynchronous
  <1>6. ASSUME NEW outcome \in {"none", "partly", "ok"}, Activate(outcome)
        PROVE LockInv' /\ ModeInv'
    BY <1>6 DEF Activate, SvcKeeps, TypeOK, lock, asynchronous
  <1>7. ASSUME NEW call \in {"join", "join_recover"}, StopAndJoin(call) PROVE LockInv' /\ ModeInv'
    BY <1>7 DEF StopAndJoin, SvcKeeps, TypeOK, lock, asynchronous
  <1>8. ASSUME NEW s \in {"ok", "soft", "fatal"}, AsyncModeSwitch(s) PROVE LockInv' /\ ModeInv'
    BY <1>8 DEF AsyncModeSwitch, TypeOK, lock
  <1>9. CASE PeriodPasses
    BY <1>9 DEF PeriodPasses, TypeOK, lock, asynchronous
  <1>10. QED
    BY <1>1, <1>2, <1>3, <1>4, <1>5, <1>6, <1>7, <1>8, <1>9 DEF Callback, Framework

-----------------------------------------------------------------------------
(* The properties. *)

\* While statuses are collected the control loop is in them, so nobody writes what they show:
\* what could is serialised with the loop (recover()) or belongs to the loop itself.
LEMMA CollectNext ==
  ASSUME TypeOK, ModeInv, CollectInv, DriveStatusCoversItsJoint, [Next]_vars
  PROVE  CollectInv' /\ DriveStatusCoversItsJoint'
  <1>1. CASE PopulateDrive
    <2>1. status.drive' = DriveLevel(known) /\ loop' = "lock_joint" /\ known' = known
      BY <1>1 DEF PopulateDrive, TellKeeps, TypeOK, Status
    <2>2. QED
      BY <2>1 DEF CollectInv, DriveStatusCoversItsJoint, DriveLevel, IoFault, Tasks
  <1>2. CASE PopulateJoint
    <2>1. /\ status.drive = DriveLevel(known) /\ status'.drive = status.drive
          /\ status'.io_fault = IoFault(known) /\ status'.fault = known.fault
      BY <1>2 DEF PopulateJoint, CollectInv, TypeOK, Status
    <2>2. status'.drive = "OK" => ~status'.io_fault /\ ~status'.fault
      BY <2>1 DEF DriveLevel
    <2>3. loop' \notin {"lock_joint", "joint"}
      BY <1>2 DEF PopulateJoint, AfterTasks
    <2>4. QED
      BY <2>2, <2>3 DEF CollectInv, DriveStatusCoversItsJoint
  <1>3. CASE LockTask
    <2>1. status' = status /\ known' = known /\ loop' \in Tasks /\ loop \in Tasks
          /\ (loop' \in {"lock_joint", "joint"} => loop \in {"lock_joint", "joint"})
      BY <1>3 DEF LockTask, TellKeeps, Tasks
    <2>2. QED
      BY <2>1 DEF CollectInv, DriveStatusCoversItsJoint, DriveLevel, IoFault
  <1>4. CASE /\ status' = status
             /\ loop' \notin Tasks => loop \notin Tasks
             /\ loop' \in {"lock_joint", "joint"} => loop' = loop /\ known' = known
    BY <1>4 DEF CollectInv, DriveStatusCoversItsJoint, DriveLevel, IoFault
  <1>5. CASE LoopCall
    BY <1>4, <1>5 DEF LoopCall, StartRead, ReadSnapshot, MayCall, LoopKeeps, told, Tasks
  <1>6. CASE MaybeUpdate
    BY <1>4, <1>6 DEF MaybeUpdate, AfterTasks, Tasks
  <1>7. CASE ReadWithoutTransport \/ EndRead \/ LoopLocks \/ ReadApply \/ ReadHealth \/ WritePost
    BY <1>4, <1>7 DEF ReadWithoutTransport, EndRead, LoopLocks, ReadApply, ReadHealth, WritePost,
                      told, Tasks
  <1>8. ASSUME NEW s \in {"none", "ok", "soft", "fatal"},
               \/ StartWrite(s) \/ Write(s) \/ ReadRegisters(s)
               \/ \E a, f \in BOOLEAN : ReadJoint(s, a, f)
        PROVE CollectInv' /\ DriveStatusCoversItsJoint'
    <2>1. /\ status' = status /\ loop \in {"want", "write", "registers", "telemetry"}
          /\ loop' \in {"wait", "idle", "unlock", "telemetry", "update"}
      BY <1>8 DEF StartWrite, Write, ReadRegisters, ReadJoint, told
    <2>2. QED
      BY <1>4, <2>1 DEF Tasks
  <1>9. CASE Recover
    BY <1>4, <1>9 DEF Recover, ModeInv, Tasks
  <1>10. CASE UNCHANGED <<loop, known, status>>
    BY <1>4, <1>10
  <1>11. CASE Worker \/ PeriodPasses \/ Framework \/ DeactivateWants \/ DeactivateLocks
              \/ \E s \in {"ok", "soft", "fatal"} : DeactivateAxes(s)
    <2>1. UNCHANGED <<loop, status>> /\ (loop # "post" => UNCHANGED known)
      BY <1>11 DEF Worker, WorkerStart, WorkerWithoutTransport, WorkerLoses, PublishLoss, WorkerCycle,
                   WorkerKeeps, PeriodPasses, Framework, Activate, StopAndJoin, AsyncModeSwitch,
                   DeactivateWants, DeactivateLocks, DeactivateAxes, SvcKeeps, told
    <2>2. CASE loop = "post"
      BY <2>1, <2>2, <1>4 DEF Tasks
    <2>3. QED
      BY <2>1, <2>2, <1>10
  <1>12. CASE UNCHANGED vars
    BY <1>10, <1>12 DEF vars, told
  <1>13. CASE LoopStep
    BY <1>1, <1>2, <1>3, <1>6, <1>7, <1>8, <1>13 DEF LoopStep
  <1>14. QED
    BY <1>5, <1>9, <1>11, <1>12, <1>13 DEF Next, Callback

\* Whoever reports a loss with synchronous I/O has found the transport gone or broken, and only
\* an activation that succeeds, and says so, makes it usable again.
LEMMA OfflineNext ==
  ASSUME TypeOK, ModeInv, OfflineIsTrue, [Next]_vars PROVE OfflineIsTrue'
  <1> SUFFICES ASSUME ~enable_async_io', log' = "offline" PROVE transport' # "ok"
    BY DEF OfflineIsTrue
  <1> USE DEF OfflineIsTrue
  <1>1. CASE /\ enable_async_io' = enable_async_io /\ log' = log
             /\ transport' \in {transport, "null", "broken"}
    BY <1>1
  <1>2. CASE LoopCall
    BY <1>1, <1>2 DEF LoopCall, StartRead, ReadSnapshot, LoopKeeps, told
  <1>3. CASE MaybeUpdate \/ LockTask \/ PopulateDrive \/ PopulateJoint
    BY <1>1, <1>3 DEF MaybeUpdate, LockTask, PopulateDrive, PopulateJoint, TellKeeps
  <1>4. CASE EndRead \/ LoopLocks
    BY <1>1, <1>4 DEF EndRead, LoopLocks, LoopKeeps, told
  <1>5. CASE ReadApply \/ ReadHealth \/ WritePost
    <2>1. enable_async_io' = TRUE
      BY <1>5 DEF ReadApply, ReadHealth, WritePost, ModeInv
    <2>2. QED
      BY <2>1
  <1>6. CASE ReadWithoutTransport
    BY <1>6 DEF ReadWithoutTransport
  <1>7. ASSUME NEW s \in {"none", "ok", "soft", "fatal"}, StartWrite(s) PROVE transport' # "ok"
    <2>1. transport' \in {transport, "broken"} /\ log' = log /\ enable_async_io' = enable_async_io
      BY <1>7 DEF StartWrite, Worn, LoopKeeps, told
    <2>2. QED
      BY <2>1, <1>1
  <1>8. ASSUME NEW s \in {"none", "ok", "soft", "fatal"}, Write(s) PROVE transport' # "ok"
    <2>1. \/ transport' = "null"
          \/ transport' = transport /\ log' = log /\ enable_async_io' = enable_async_io
      BY <1>8 DEF Write, LoopKeeps
    <2>2. QED
      BY <2>1
  <1>9. ASSUME NEW s \in {"ok", "soft", "fatal"},
               ReadRegisters(s) \/ \E a, f \in BOOLEAN : ReadJoint(s, a, f)
        PROVE  transport' # "ok"
    <2>1. /\ enable_async_io' = enable_async_io /\ transport' = Worn(s)
          /\ s # "fatal" => log' = log
      BY <1>9 DEF ReadRegisters, ReadJoint, LoopKeeps
    <2>2. QED
      BY <2>1 DEF Worn
  <1>10. CASE LoopStep
    BY <1>3, <1>4, <1>5, <1>6, <1>7, <1>8, <1>9, <1>10 DEF LoopStep
  <1>11. CASE Worker
    <2>1. worker # "none" /\ enable_async_io' = enable_async_io
      BY <1>11 DEF Worker, WorkerStart, WorkerWithoutTransport, WorkerLoses, PublishLoss, WorkerCycle,
                   WorkerKeeps
    <2>2. QED
      BY <2>1 DEF ModeInv
  <1>12. CASE Callback
    BY <1>1, <1>12 DEF Callback, DeactivateWants, DeactivateLocks, Recover, DeactivateAxes, SvcKeeps
  <1>13. ASSUME NEW outcome \in {"none", "partly", "ok"}, Activate(outcome) PROVE transport' # "ok"
    BY <1>13 DEF Activate, Health
  <1>14. ASSUME NEW s \in {"ok", "soft", "fatal"}, AsyncModeSwitch(s) PROVE transport' # "ok"
    BY <1>14 DEF AsyncModeSwitch, ModeInv
  <1>15. ASSUME NEW call \in {"join", "join_recover"}, StopAndJoin(call) PROVE transport' # "ok"
    BY <1>1, <1>15 DEF StopAndJoin, SvcKeeps
  <1>16. CASE PeriodPasses
    BY <1>1, <1>16 DEF PeriodPasses
  <1>17. CASE UNCHANGED vars
    BY <1>1, <1>17 DEF vars, told
  <1>18. QED
    BY <1>2, <1>10, <1>11, <1>12, <1>13, <1>14, <1>15, <1>16, <1>17 DEF Next, Framework

\* The invariant is inductive.
LEMMA DiagnosticsInductive == IInv /\ [Next]_vars => IInv'
  <1> SUFFICES ASSUME IInv, [Next]_vars PROVE IInv'
    OBVIOUS
  <1> USE DEF IInv
  <1>1. TypeOK' /\ LockInv' /\ ModeInv'
    <2>1. CASE LoopCall \/ LoopStep
      BY <2>1, TypesLoop, LockLoop
    <2>2. CASE Worker \/ Callback \/ Framework \/ PeriodPasses
      BY <2>2, TypesOthers, LockOthers
    <2>3. CASE UNCHANGED vars
      BY <2>3 DEF vars, lock, asynchronous, told, TypeOK, LockInv, ModeInv
    <2>4. QED
      BY <2>1, <2>2, <2>3 DEF Next
  <1>2. CollectInv' /\ DriveStatusCoversItsJoint'
    BY CollectNext
  <1>3. OfflineIsTrue'
    BY OfflineNext
  <1>4. QED
    BY <1>1, <1>2, <1>3

\* Every state satisfies it.
LEMMA DiagnosticsInvariant == Spec => []IInv
  BY DiagnosticsInit, DiagnosticsInductive, PTL DEF Spec

-----------------------------------------------------------------------------

\* Types, and that an exclusive holder of state_mutex_ is alone.
THEOREM DiagnosticsTyping == Spec => []TypeOK
  BY DiagnosticsInvariant, PTL DEF IInv

\* A drive is published as nominal only if its joint is.
THEOREM DriveStatusHolds == Spec => []DriveStatusCoversItsJoint
  BY DiagnosticsInvariant, PTL DEF IInv

\* With synchronous I/O the log says offline only of a transport that does not work.
THEOREM OfflineHolds == Spec => []OfflineIsTrue
  BY DiagnosticsInvariant, PTL DEF IInv

\* Nobody waits for state_mutex_ in a circle, but in read() with synchronous I/O on a mutex that
\* prefers writers.
THEOREM NoCircularWaitHolds == Spec => []NoCircularWait
  <1>1. IInv => NoCircularWait
    <2> SUFFICES ASSUME IInv, enable_async_io \/ ~WritersPreferred PROVE NoCircularWait
      BY DEF NoCircularWait
    <2> USE DEF IInv, TypeOK, LockInv, Reading, Collecting, MutexIsFree, SharedIsFree
    <2>1. ASSUME ~LoopGoesOn PROVE svc = "axes" \/ (svc = "wait" /\ MutexIsFree)
      <3>1. CASE loop = "wait" /\ ~MutexIsFree
        BY <3>1
      <3>2. CASE loop \in {"lock_drive", "lock_joint", "post"} /\ ~SharedIsFree
        <4>1. owner # "loop" /\ "loop" \notin waiting
          BY <3>2
        <4>2. CASE owner = "service"
          BY <4>2
        <4>3. CASE owner = "nobody"
          <5>1. WritersPreferred /\ waiting # {}
            BY <3>2, <4>3
          <5>2. svc = "wait" /\ enable_async_io = TRUE
            BY <4>1, <5>1
          <5>3. shares = 0
            BY <3>2, <5>2
          <5>4. QED
            BY <4>3, <5>2, <5>3
        <4>4. QED
          BY <4>1, <4>2, <4>3
      <3>3. QED
        BY <2>1, <3>1, <3>2 DEF LoopGoesOn
    <2>2. ASSUME svc = "wait", ~MutexIsFree
          PROVE  LoopGoesOn /\ loop \notin {"idle", "want", "wait", "health", "post"}
      <3>1. owner # "service"
        BY <2>2
      <3>2. loop \in Reading \cup {"write", "apply"}
        BY <2>2, <3>1
      <3>3. loop \in {"lock_drive", "lock_joint"} => SharedIsFree
        <4> SUFFICES ASSUME loop \in {"lock_drive", "lock_joint"} PROVE SharedIsFree
          OBVIOUS
        <4>1. owner = "nobody"
          BY <3>1
        <4>2. enable_async_io = FALSE
          BY <2>2, <4>1
        <4>3. QED
          BY <4>1, <4>2
      <3>4. QED
        BY <3>2, <3>3 DEF LoopGoesOn
    <2>3. QED
      BY <2>1, <2>2 DEF NoCircularWait
  <1>2. QED
    BY <1>1, DiagnosticsInvariant, PTL
=============================================================================
