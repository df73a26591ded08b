------------------------------ MODULE AsyncProofs ------------------------------
(***************************************************************************)
(* Proofs of the safety properties of AsyncIo, for every number of joints  *)
(* and every configuration: who uses the transport, how long the worker    *)
(* lives, which sequences are sent, and that known faults mask an axis.    *)
(***************************************************************************)
EXTENDS AsyncIo, TLAPS

-----------------------------------------------------------------------------
(* The invariant.                                                          *)

\* While the control loop performs a mode switch, from the stop of the worker to its restart.
Switching == {"stop", "stop_notify", "stop_join", "perform", "restart"}

\* What the framework serialises, and where the worker has been joined.
SerialInv ==
    /\ svc.call = "none" => svc.pc = "body"
    /\ rt \in Switching => mode_switch = "prepared"
    /\ svc.call # "none" => mode_switch = "none"
    /\ svc.call \notin {"none", "deactivate"} => ~InRtCall
    /\ svc.call = "activate" => svc.pc = "body"
    /\ rt \in {"perform", "restart"} => ~Joinable
    /\ svc.call # "none" /\ svc.pc = "body" => ~Joinable

\* There is a worker, or one that a mode switch will start again, only in an active component.
LifeInv ==
    /\ Joinable \/ restart_async_after => lifecycle = "active"
    /\ restart_async_after => rt \in Switching
    /\ in_flight => InCycle

\* The sequences that are on their way to the drive: those of the worker are no newer than the
\* posted ones, and these no newer than those of the joints.
OrderInv ==
    /\ Joinable \/ restart_async_after =>
         \A j \in Joint : async_latest_command.seq[j] <= command_sequence[j]
    /\ InCycle => \A j \in Joint : command.seq[j] <= async_latest_command.seq[j]

\* Since on_activate, a sequence that was acknowledged is no newer than the one remembered as
\* sent, and that one no newer than those under way.
SentInv ==
    gate_stale_commands =>
      \A j \in Joint : ~reactivated[j] /\ written[j] # NaN =>
        /\ written[j] <= last_sent[j] /\ last_sent[j] \in Sequence
        /\ last_sent[j] <= async_latest_command.seq[j]
        /\ async_latest_command.seq[j] <= command_sequence[j]
        /\ InCycle => last_sent[j] <= command.seq[j]

\* The error flags of the snapshot that counts, the worker's own in a cycle, cover the faults
\* that a sample has shown.
Counting == IF InCycle THEN snapshot ELSE async_latest_telemetry
MaskInv == \A j \in Joint : faulted[j] /\ ~missed[j] => Counting.errors[j]

\* A request that the sleeping worker has not seen is about to be notified, and the worker that
\* is being stopped is there, told so, and awake once it is joined.
WakeInv ==
    /\ async_io_thread.pc = "waiting" /\ pending
         => rt \in {"stop_notify", "notify"} \/ svc.pc = "notify"
    /\ rt \in {"stop_notify", "stop_join"} \/ svc.pc \in {"notify", "join"} => stop
    /\ rt \in {"stop", "stop_notify", "stop_join"} \/ svc.pc \in {"notify", "join"} => Joinable
    /\ Joining => async_io_thread.pc # "waiting"

IInv == TypeOK /\ SerialInv /\ LifeInv /\ WakeInv /\ OrderInv /\ SentInv /\ MaskInv

-----------------------------------------------------------------------------
(* Lemmas about the helpers.                                               *)

\* There is a first joint, and the one behind any but the last is a joint.
LEMMA JointFacts == 1 \in Joint /\ \A i \in Joint : i < N => i + 1 \in Joint
  BY AsyncAssumption DEF Joint

\* Sequences are natural numbers, and not-a-number is none of them.
LEMMA SequenceFacts == Sequence \subseteq Nat /\ 0 \in Sequence /\ NaN \in Nat \ Sequence
  BY AsyncAssumption DEF Sequence, NaN

\* What joints, snapshots and commands start from.
LEMMA FreshTypes ==
    /\ \A b \in BOOLEAN : All(b) \in [Joint -> BOOLEAN]
    /\ All(NaN) \in [Joint -> Sequence \cup {NaN}] /\ All(0) \in [Joint -> Sequence]
    /\ All(UNDEFINED) \in [Joint -> Levels \cup {UNDEFINED}]
    /\ NoCommand \in Command /\ NoTelemetry \in Telemetry
  BY SequenceFacts DEF All, NoCommand, NoTelemetry, Command, Telemetry

\* A snapshot with other health flags is a snapshot with the same errors.
LEMMA HealthTypes ==
  ASSUME NEW t \in Telemetry, NEW i \in Joint
  PROVE  /\ [t EXCEPT !.healthy = All(FALSE)] \in Telemetry
         /\ [t EXCEPT !.healthy[i] = FALSE] \in Telemetry
         /\ [t EXCEPT !.healthy = All(FALSE)].errors = t.errors
         /\ [t EXCEPT !.healthy[i] = FALSE].errors = t.errors
  BY FreshTypes DEF Telemetry

\* The worker's loops over the joints stay within them.
LEMMA NextJointTypes ==
  ASSUME NEW loop, NEW done, NEW i \in Joint
  PROVE  \E k \in Joint : NextJoint(loop, i, done) \in {At(loop, k), At(done, k)}
  BY JointFacts DEF NextJoint

\* One more transaction of a cycle: the worker stays in the cycle, and the errors in the
\* snapshot are those it goes on with, unless the transport is lost; then they are the old ones.
LEMMA CycleTypes ==
  ASSUME TypeOK, NEW s, NEW loop \in {"sensors", "read", "start_write", "write", "publish"},
         NEW k \in Joint, NEW s1 \in Telemetry, CycleGoesOn(s, At(loop, k), s1)
  PROVE  /\ async_io_thread' \in [pc : WorkerPc, i : Joint] /\ InCycle'
         /\ transport' \in {transport, "null"}
         /\ snapshot' \in Telemetry
         /\ snapshot'.errors = IF s = "fatal" THEN snapshot.errors ELSE s1.errors
  <1>1. snapshot \in Telemetry
    BY DEF TypeOK
  <1>2. CASE s = "fatal"
    <2>1. /\ async_io_thread' = At("publish", 1) /\ transport' = "null"
          /\ snapshot' = [snapshot EXCEPT !.healthy = All(FALSE)]
      BY <1>2 DEF CycleGoesOn
    <2>2. snapshot' \in Telemetry /\ snapshot'.errors = snapshot.errors
      BY <1>1, <2>1, HealthTypes
    <2>3. QED
      BY <1>2, <2>1, <2>2, JointFacts DEF At, WorkerPc, InCycle
  <1>3. CASE s # "fatal"
    BY <1>3 DEF CycleGoesOn, At, WorkerPc, InCycle
  <1>4. QED
    BY <1>2, <1>3

\* A notification leaves the worker where it is, or takes it from its wait to the check.
LEMMA NotifyTypes ==
  ASSUME TypeOK, Notify
  PROVE  /\ async_io_thread' \in [pc : WorkerPc, i : Joint]
         /\ Joinable' = Joinable /\ InCycle' = InCycle
  BY JointFacts DEF TypeOK, Notify, At, WorkerPc, Joinable, InCycle

-----------------------------------------------------------------------------
(* The transactions of a cycle.                                            *)

CycleStep ==
    \/ WorkerStartWrite
    \/ \E s \in Status : WorkerSensors(s)
    \/ \E i \in Joint : WorkerMasked(i) \/ WorkerNothing(i)
    \/ \E i \in Joint, s \in Status :
         WorkerRead(i, s) \/ WorkerIdleOnFault(i, s) \/ WorkerCommand(i, s)

\* Where a transaction may leave the worker and the transport.
InCycleStill ==
    /\ InCycle /\ InCycle' /\ WorkerKeeps
    /\ async_io_thread' \in [pc : WorkerPc, i : Joint]
    /\ transport' \in {transport, "null"}
    /\ snapshot' \in Telemetry

\* What it may change of the worker's memory and of the history.
MemoryTypes ==
    /\ {last_sent', written'} \subseteq [Joint -> Sequence \cup {NaN}]
    /\ {idle_requested', missed', reactivated'} \subseteq [Joint -> BOOLEAN]

\* A transaction of a write: it leaves the errors of the snapshot alone.
LEMMA WriteStep ==
  ASSUME TypeOK, NEW i \in Joint, NEW s, async_io_thread = At("write", i), WriteGoesOn(i, s),
         WorkerKeeps
  PROVE  InCycleStill /\ snapshot'.errors = snapshot.errors
  <1>1. PICK k \in Joint : NextJoint("write", i, "publish") \in {At("write", k), At("publish", k)}
    BY NextJointTypes
  <1>2. snapshot \in Telemetry /\ InCycle
    BY DEF TypeOK, InCycle, At
  <1>3. CASE NextJoint("write", i, "publish") = At("write", k)
    BY <1>2, <1>3, CycleTypes DEF WriteGoesOn, InCycleStill
  <1>4. CASE NextJoint("write", i, "publish") = At("publish", k)
    BY <1>2, <1>4, CycleTypes DEF WriteGoesOn, InCycleStill
  <1>5. QED
    BY <1>1, <1>3, <1>4

\* The sensors' registers, and the gate of write().
LEMMA GateStep ==
  ASSUME TypeOK, WorkerStartWrite \/ \E s \in Status : WorkerSensors(s)
  PROVE  /\ InCycleStill /\ snapshot'.errors = snapshot.errors
         /\ UNCHANGED <<memory, missed, written, reactivated>>
  <1> DEFINE unhealthy == [snapshot EXCEPT !.healthy = All(FALSE)]
  <1>1. snapshot \in Telemetry /\ unhealthy \in Telemetry /\ unhealthy.errors = snapshot.errors
    BY HealthTypes, JointFacts DEF TypeOK
  <1> HIDE DEF unhealthy
  <1>2. CASE WorkerStartWrite
    <2>1. InCycle /\ WorkerKeeps /\ UNCHANGED <<memory, missed, written, reactivated>>
      BY <1>2 DEF WorkerStartWrite, InCycle
    <2>2. PICK loop \in {"write", "publish"} : CycleGoesOn("ok", At(loop, 1), snapshot)
      BY <1>2 DEF WorkerStartWrite
    <2>3. QED
      BY <1>1, <2>1, <2>2, CycleTypes, JointFacts DEF InCycleStill
  <1>3. ASSUME NEW s \in Status, WorkerSensors(s)
        PROVE  /\ InCycleStill /\ snapshot'.errors = snapshot.errors
               /\ UNCHANGED <<memory, missed, written, reactivated>>
    <2>1. InCycle /\ WorkerKeeps /\ UNCHANGED <<memory, missed, written, reactivated>>
      BY <1>3 DEF WorkerSensors, InCycle
    <2>2. CASE CycleGoesOn("ok", At("start_write", 1), unhealthy)
      BY <1>1, <2>1, <2>2, CycleTypes, JointFacts DEF InCycleStill
    <2>3. CASE CycleGoesOn(s, At("read", 1), snapshot)
      BY <1>1, <2>1, <2>3, CycleTypes, JointFacts DEF InCycleStill
    <2>4. QED
      BY <1>3, <2>2, <2>3 DEF WorkerSensors, unhealthy
  <1>4. QED
    BY <1>2, <1>3

\* A sample: it shows the fault of its joint and nothing of the others, or nothing at all.
LEMMA ReadStep ==
  ASSUME TypeOK, NEW i \in Joint, NEW s \in Status, WorkerRead(i, s)
  PROVE  /\ InCycleStill
         /\ UNCHANGED <<memory, written, reactivated>>
         /\ \/ /\ snapshot'.errors = [snapshot.errors EXCEPT ![i] = faulted[i]]
               /\ missed' = [missed EXCEPT ![i] = FALSE]
            \/ snapshot'.errors = snapshot.errors /\ missed' = missed
  <1> DEFINE shown == [healthy |-> [snapshot.healthy EXCEPT ![i] = ~faulted[i]],
                       errors |-> [snapshot.errors EXCEPT ![i] = faulted[i]]]
             hidden == [snapshot EXCEPT !.healthy[i] = FALSE]
  <1>1. snapshot \in Telemetry /\ faulted \in [Joint -> BOOLEAN]
    BY DEF TypeOK
  <1>2. shown \in Telemetry
    BY <1>1 DEF Telemetry
  <1>3. hidden \in Telemetry /\ hidden.errors = snapshot.errors
    BY <1>1, HealthTypes
  <1>4. shown.errors = [snapshot.errors EXCEPT ![i] = faulted[i]]
    OBVIOUS
  <1>5. InCycle /\ WorkerKeeps /\ UNCHANGED <<memory, written, reactivated>>
    BY DEF WorkerRead, InCycle, At
  <1>6. PICK k \in Joint : NextJoint("read", i, "start_write") \in {At("read", k), At("start_write", k)}
    BY NextJointTypes
  <1>7. PICK next \in {"read", "start_write"} : NextJoint("read", i, "start_write") = At(next, k)
    BY <1>6
  <1> HIDE DEF shown, hidden
  <1>8. CASE s = "ok" /\ CycleGoesOn(s, At(next, k), shown) /\ missed' = [missed EXCEPT ![i] = FALSE]
    BY <1>2, <1>4, <1>5, <1>8, CycleTypes DEF InCycleStill
  <1>9. CASE CycleGoesOn(s, At(next, k), hidden) /\ missed' = missed
    BY <1>3, <1>5, <1>9, CycleTypes DEF InCycleStill
  <1>10. QED
    BY <1>7, <1>8, <1>9 DEF WorkerRead, shown, hidden

\* The transactions of write() and what they remember: nothing new, the sequence of a command
\* that had nothing to say, or that of a command which was acknowledged.
LEMMA JointWriteStep ==
  ASSUME TypeOK, NEW i \in Joint, NEW s \in Status,
         WorkerMasked(i) \/ WorkerNothing(i) \/ WorkerIdleOnFault(i, s) \/ WorkerCommand(i, s)
  PROVE  /\ InCycleStill /\ snapshot'.errors = snapshot.errors /\ missed' = missed
         /\ idle_requested' \in [Joint -> BOOLEAN]
         /\ \/ UNCHANGED <<last_sent, written, reactivated>>
            \/ Remember(i) /\ UNCHANGED <<written, reactivated>>
            \/ /\ Remember(i)
               /\ written' = [written EXCEPT ![i] = command.seq[i]]
               /\ reactivated' = [reactivated EXCEPT ![i] = FALSE]
  <1>1. /\ async_io_thread = At("write", i) /\ WorkerKeeps /\ missed' = missed
        /\ WriteGoesOn(i, s) \/ WriteGoesOn(i, "ok")
    BY DEF WorkerMasked, WorkerNothing, WorkerIdleOnFault, WorkerCommand
  <1>2. InCycleStill /\ snapshot'.errors = snapshot.errors
    BY <1>1, WriteStep
  <1>3. idle_requested' \in [Joint -> BOOLEAN]
    BY DEF TypeOK, WorkerMasked, WorkerNothing, WorkerIdleOnFault, WorkerCommand, memory
  <1>4. QED
    BY <1>1, <1>2, <1>3
       DEF WorkerMasked, WorkerNothing, WorkerIdleOnFault, WorkerCommand, memory

\* Remembering a sequence that is on its way keeps the types.
LEMMA RememberTypes ==
  ASSUME TypeOK, NEW i \in Joint
  PROVE  /\ Remember(i) => last_sent' \in [Joint -> Sequence \cup {NaN}]
         /\ [written EXCEPT ![i] = command.seq[i]] \in [Joint -> Sequence \cup {NaN}]
         /\ [reactivated EXCEPT ![i] = FALSE] \in [Joint -> BOOLEAN]
  <1>1. command.seq[i] \in Sequence
    BY DEF TypeOK, Command
  <1>2. QED
    BY <1>1 DEF TypeOK, Remember

\* Every transaction of a cycle stays within the cycle and keeps the types of what it remembers.
LEMMA CycleStepTypes == TypeOK /\ CycleStep => InCycleStill /\ MemoryTypes
  <1> SUFFICES ASSUME TypeOK, CycleStep PROVE InCycleStill /\ MemoryTypes
    OBVIOUS
  <1>1. CASE WorkerStartWrite \/ \E s \in Status : WorkerSensors(s)
    BY <1>1, GateStep DEF MemoryTypes, TypeOK, memory
  <1>2. ASSUME NEW i \in Joint, NEW s \in Status, WorkerRead(i, s) PROVE InCycleStill /\ MemoryTypes
    <2>1. InCycleStill /\ UNCHANGED <<last_sent, idle_requested, written, reactivated>>
      BY <1>2, ReadStep DEF memory
    <2>2. missed \in [Joint -> BOOLEAN] /\ missed' \in {[missed EXCEPT ![i] = FALSE], missed}
      BY <1>2, ReadStep DEF TypeOK
    <2>3. missed' \in [Joint -> BOOLEAN]
      BY <2>2
    <2>4. QED
      BY <2>1, <2>3 DEF MemoryTypes, TypeOK
  <1>3. ASSUME NEW i \in Joint, NEW s \in Status,
               WorkerMasked(i) \/ WorkerNothing(i) \/ WorkerIdleOnFault(i, s) \/ WorkerCommand(i, s)
        PROVE  InCycleStill /\ MemoryTypes
    <2>1. last_sent' \in [Joint -> Sequence \cup {NaN}]
      BY <1>3, JointWriteStep, RememberTypes DEF TypeOK
    <2>2. written' \in [Joint -> Sequence \cup {NaN}] /\ reactivated' \in [Joint -> BOOLEAN]
      <3>1. /\ written' \in {written, [written EXCEPT ![i] = command.seq[i]]}
            /\ reactivated' \in {reactivated, [reactivated EXCEPT ![i] = FALSE]}
        BY <1>3, JointWriteStep
      <3>2. written \in [Joint -> Sequence \cup {NaN}] /\ reactivated \in [Joint -> BOOLEAN]
        BY DEF TypeOK
      <3>3. QED
        BY <3>1, <3>2, RememberTypes
    <2>3. missed' \in [Joint -> BOOLEAN] /\ idle_requested' \in [Joint -> BOOLEAN] /\ InCycleStill
      BY <1>3, JointWriteStep DEF TypeOK
    <2>4. QED
      BY <2>1, <2>2, <2>3 DEF MemoryTypes
  <1>4. "ok" \in Status
    BY DEF Status
  <1>5. QED
    BY <1>1, <1>2, <1>3, <1>4 DEF CycleStep

-----------------------------------------------------------------------------
(* The types.                                                              *)

\* A transaction of a cycle keeps every type.
LEMMA TypesCycle == TypeOK /\ CycleStep => TypeOK'
  <1> SUFFICES ASSUME TypeOK, CycleStep PROVE TypeOK'
    OBVIOUS
  <1>1. InCycleStill /\ MemoryTypes
    BY CycleStepTypes
  <1>2. UNCHANGED <<lifecycle, mode_switch, svc, outputs_enabled, rt, rt_healthy, rt_errors, restart_async_after>>
    BY <1>1 DEF InCycleStill, WorkerKeeps, control, rtlocals
  <1>3. UNCHANGED <<control_level, command_sequence, finite, healthy, errors, stop, pending, in_flight, overdue>>
    BY <1>1 DEF InCycleStill, WorkerKeeps, joints, flags
  <1>4. UNCHANGED <<async_latest_command, async_latest_telemetry, command, faulted>>
    BY <1>1 DEF InCycleStill, WorkerKeeps, exchange
  <1>5. async_io_thread' \in [pc : WorkerPc, i : Joint] /\ snapshot' \in Telemetry
        /\ transport' \in {"null", "open", "dead"}
    BY <1>1 DEF InCycleStill, TypeOK
  <1>6. QED
    BY <1>1, <1>2, <1>3, <1>4, <1>5 DEF TypeOK, MemoryTypes

\* The worker's check of its flags, its publication and its wake-up keep every type.
LEMMA TypesWorker == TypeOK /\ (WorkerCheck \/ WorkerPublish \/ SpuriousWakeup) => TypeOK'
  <1> SUFFICES ASSUME TypeOK, WorkerCheck \/ WorkerPublish \/ SpuriousWakeup PROVE TypeOK'
    OBVIOUS
  <1>1. CASE WorkerCheck
    <2>1. async_io_thread' \in [pc : WorkerPc, i : Joint]
      BY <1>1, JointFacts DEF WorkerCheck, StartCycle, At, WorkerPc
    <2>2. command' \in Command /\ snapshot' \in Telemetry
      BY <1>1 DEF WorkerCheck, StartCycle, cycle, TypeOK
    <2>3. pending' \in BOOLEAN /\ in_flight' \in BOOLEAN
      BY <1>1 DEF WorkerCheck, StartCycle, TypeOK
    <2>4. CheckKeeps
      BY <1>1 DEF WorkerCheck
    <2>5. UNCHANGED <<lifecycle, mode_switch, svc, outputs_enabled, transport, rt, rt_healthy, rt_errors,
                      restart_async_after, control_level, command_sequence, finite, healthy, errors, stop, overdue>>
      BY <2>4 DEF CheckKeeps, control, rtlocals, joints
    <2>6. UNCHANGED <<async_latest_command, async_latest_telemetry, last_sent, idle_requested,
                      faulted, missed, written, reactivated>>
      BY <2>4 DEF CheckKeeps, exchange, memory, world
    <2>7. QED
      BY <2>1, <2>2, <2>3, <2>5, <2>6 DEF TypeOK
  <1>2. CASE WorkerPublish
    <2>1. async_io_thread' \in [pc : WorkerPc, i : Joint]
      BY <1>2, JointFacts DEF WorkerPublish, At, WorkerPc
    <2>2. command' \in Command /\ snapshot' \in Telemetry /\ async_latest_telemetry' \in Telemetry
      BY <1>2, FreshTypes DEF WorkerPublish, TypeOK
    <2>3. UNCHANGED <<lifecycle, mode_switch, svc, outputs_enabled, transport, rt, rt_healthy, rt_errors,
                      restart_async_after, control_level, command_sequence, finite, healthy, errors, stop, pending>>
      BY <1>2 DEF WorkerPublish, control, rtlocals, joints
    <2>4. UNCHANGED <<async_latest_command, last_sent, idle_requested, faulted, missed, written,
                      reactivated>>
      BY <1>2 DEF WorkerPublish, memory, world
    <2>5. in_flight' = FALSE /\ overdue' = FALSE
      BY <1>2 DEF WorkerPublish
    <2>6. QED
      BY <2>1, <2>2, <2>3, <2>4, <2>5 DEF TypeOK
  <1>3. CASE SpuriousWakeup
    BY <1>3, JointFacts
       DEF SpuriousWakeup, At, WorkerPc, TypeOK, control, rtlocals, joints, flags, exchange, cycle,
           memory, world
  <1>4. QED
    BY <1>1, <1>2, <1>3

\* Stopping, joining and starting the worker keep the types of its flags and its place.
LEMMA ThreadTypes ==
  ASSUME TypeOK
  PROVE  /\ Start \/ Join \/ RequestStop =>
              /\ async_io_thread' \in [pc : WorkerPc, i : Joint]
              /\ {stop', pending', in_flight', overdue'} \subseteq BOOLEAN
  <1>1. CASE Start
    BY <1>1, JointFacts DEF Start, At, WorkerPc
  <1>2. CASE Join
    BY <1>2, JointFacts DEF Join, ResetFlags, At, WorkerPc
  <1>3. CASE RequestStop
    BY <1>3 DEF RequestStop, TypeOK
  <1>4. QED
    BY <1>1, <1>2, <1>3

\* The control loop keeps every type: read(), the mode switch around which it stops the worker,
\* and write().
LEMMA TypesLoop == TypeOK /\ ControlLoop => TypeOK'
  <1> SUFFICES ASSUME TypeOK, ControlLoop PROVE TypeOK'
    OBVIOUS
  <1>1. CASE ReadSnapshot
    <2>1. rt_healthy' \in [Joint -> BOOLEAN] /\ rt_errors' \in [Joint -> BOOLEAN]
      BY <1>1, FreshTypes DEF ReadSnapshot, TypeOK, Telemetry
    <2>2. QED
      BY <1>1, <2>1 DEF ReadSnapshot, RtKeeps, RtPc, TypeOK, joints, flags, exchange, cycle, memory
  <1>2. CASE ReadApply
    <2>1. {rt_healthy', rt_errors', healthy', errors'} \subseteq [Joint -> BOOLEAN]
      BY <1>2, FreshTypes DEF ReadApply, TypeOK
    <2>2. QED
      <3>1. UNCHANGED <<mode_switch, transport, restart_async_after, control_level, command_sequence,
                        finite, async_io_thread, flags, exchange, faulted>> /\ RtKeeps /\ rt' = "update"
        BY <1>2 DEF ReadApply
      <3>2. UNCHANGED <<lifecycle, svc, outputs_enabled, command, snapshot, last_sent, idle_requested,
                        missed, written, reactivated>>
        BY <3>1 DEF RtKeeps, cycle, memory
      <3>3. UNCHANGED <<stop, pending, in_flight, overdue, async_latest_command, async_latest_telemetry>>
        BY <3>1 DEF flags, exchange
      <3>4. QED
        BY <2>1, <3>1, <3>2, <3>3 DEF TypeOK, RtPc
  <1>3. ASSUME NEW numbered \in SUBSET Joint, NEW unnumbered \in SUBSET Joint,
               Update(numbered, unnumbered)
        PROVE TypeOK'
    <2>1. command_sequence' \in [Joint -> Sequence] /\ finite' \in [Joint -> BOOLEAN]
      BY <1>3, AsyncAssumption DEF Update, Commands, TypeOK, Sequence
    <2>2. restart_async_after' \in BOOLEAN /\ rt' \in RtPc
      BY <1>3 DEF Update, RtPc
    <2>3. QED
      BY <1>3, <2>1, <2>2 DEF Update, RtKeeps, TypeOK, flags, exchange, cycle, memory
  <1>4. CASE PerformStop \/ PerformJoin
    <2>1. /\ async_io_thread' \in [pc : WorkerPc, i : Joint]
          /\ {stop', pending', in_flight', overdue'} \subseteq BOOLEAN
      BY <1>4, ThreadTypes DEF PerformStop, PerformJoin
    <2>2. rt' \in RtPc /\ RtKeeps /\ StopKeeps
      BY <1>4 DEF PerformStop, PerformJoin, RtPc
    <2>3. QED
      BY <2>1, <2>2 DEF RtKeeps, StopKeeps, TypeOK, rtlocals, joints, exchange, cycle, memory
  <1>5. CASE PerformNotify \/ WriteNotify
    <2>1. async_io_thread' \in [pc : WorkerPc, i : Joint]
      BY <1>5, NotifyTypes DEF PerformNotify, WriteNotify
    <2>2. rt' \in RtPc /\ RtKeeps /\ StopKeeps /\ UNCHANGED flags
      BY <1>5 DEF PerformNotify, WriteNotify, RtPc
    <2>3. QED
      BY <2>1, <2>2 DEF RtKeeps, StopKeeps, TypeOK, rtlocals, joints, flags, exchange, cycle, memory
  <1>6. ASSUME NEW passed \in 0..N, NEW s \in Status, PerformSwitch(passed, s) PROVE TypeOK'
    <2>1. faulted' \in [Joint -> BOOLEAN] /\ errors' \in [Joint -> BOOLEAN]
      BY <1>6 DEF PerformSwitch, ClaimReads, TypeOK
    <2>2. control_level' \in [Joint -> Levels \cup {UNDEFINED}]
      BY <1>6 DEF PerformSwitch, Masks, TypeOK
    <2>3. transport' \in {"null", "open", "dead"} /\ rt' \in RtPc
      BY <1>6 DEF PerformSwitch, Worn, TypeOK, RtPc
    <2>4. QED
      BY <1>6, <2>1, <2>2, <2>3
         DEF PerformSwitch, RtKeeps, TypeOK, rtlocals, joints, flags, exchange, cycle, memory
  <1>7. CASE PerformRestart
    <2>1. /\ async_io_thread' \in [pc : WorkerPc, i : Joint]
          /\ {stop', pending', in_flight', overdue'} \subseteq BOOLEAN
      BY <1>7, ThreadTypes DEF PerformRestart, TypeOK, flags
    <2>2. QED
      BY <1>7, <2>1 DEF PerformRestart, RtKeeps, RtPc, TypeOK, joints, exchange, cycle, memory
  <1>8. CASE WritePost
    <2>1. [level |-> control_level, seq |-> command_sequence, finite |-> finite] \in Command
      BY DEF TypeOK, Command
    <2>2. async_latest_command' \in Command /\ pending' \in BOOLEAN /\ rt' \in RtPc
      BY <1>8, <2>1 DEF WritePost, TypeOK, RtPc
    <2>3. QED
      BY <1>8, <2>2 DEF WritePost, RtKeeps, TypeOK, rtlocals, joints, cycle, memory
  <1>9. QED
    BY <1>1, <1>2, <1>3, <1>4, <1>5, <1>6, <1>7, <1>8 DEF ControlLoop

\* The steps of the lifecycle callbacks keep every type.
LEMMA TypesCallback == TypeOK /\ Callback => TypeOK'
  <1> SUFFICES ASSUME TypeOK, Callback PROVE TypeOK'
    OBVIOUS
  <1>1. CASE CallNotify
    <2>1. async_io_thread' \in [pc : WorkerPc, i : Joint] /\ svc' \in [call : Calls, pc : SvcPc]
      BY <1>1, NotifyTypes DEF CallNotify, TypeOK, SvcPc
    <2>2. QED
      BY <1>1, <2>1 DEF CallNotify, SvcKeeps, CallKeeps, TypeOK, rtlocals, joints, flags, cycle, memory
  <1>2. CASE CallJoin
    <2>1. /\ async_io_thread' \in [pc : WorkerPc, i : Joint]
          /\ {stop', pending', in_flight', overdue'} \subseteq BOOLEAN
      BY <1>2, ThreadTypes DEF CallJoin
    <2>2. svc' \in [call : Calls, pc : SvcPc]
      BY <1>2 DEF CallJoin, TypeOK, SvcPc
    <2>3. QED
      BY <1>2, <2>1, <2>2 DEF CallJoin, SvcKeeps, CallKeeps, TypeOK, rtlocals, joints, cycle, memory
  <1>3. ASSUME NEW cleared \in SUBSET Joint, NEW s \in Status, ActivateClear(cleared, s) PROVE TypeOK'
    <2>1. faulted' \in [Joint -> BOOLEAN] /\ transport' \in {"null", "open", "dead"}
      BY <1>3 DEF ActivateClear, Worn, TypeOK
    <2>2. lifecycle' \in {"active", "finalized"} /\ svc' \in [call : Calls, pc : SvcPc]
      BY <1>3 DEF ActivateClear, Returns, NoCall, Calling, Calls, SvcPc
    <2>3. UNCHANGED <<mode_switch, outputs_enabled, rt, rt_healthy, rt_errors, restart_async_after, control_level,
                      command_sequence, finite, healthy, errors, command, snapshot, missed, written>>
      BY <1>3 DEF ActivateClear, rtlocals, joints, cycle
    <2>4. CASE s = "ok"
      <3>1. /\ async_io_thread' \in [pc : WorkerPc, i : Joint]
            /\ {stop', pending', in_flight', overdue'} \subseteq BOOLEAN
        BY <1>3, <2>4, ThreadTypes DEF ActivateClear
      <3>2. /\ async_latest_command' \in Command /\ async_latest_telemetry' \in Telemetry
            /\ last_sent' \in [Joint -> Sequence \cup {NaN}]
            /\ idle_requested' \in [Joint -> BOOLEAN] /\ reactivated' \in [Joint -> BOOLEAN]
        BY <1>3, <2>4, FreshTypes DEF ActivateClear, InitBuffers
      <3>3. QED
        BY <2>1, <2>2, <2>3, <3>1, <3>2 DEF TypeOK
    <2>5. CASE s # "ok"
      BY <1>3, <2>1, <2>2, <2>3, <2>5 DEF ActivateClear, TypeOK, flags, exchange, memory
    <2>6. QED
      BY <2>4, <2>5
  <1>4. ASSUME NEW s \in Status, OnDeactivate(s) PROVE TypeOK'
    <2>1. lifecycle' = "inactive" /\ svc' \in [call : Calls, pc : SvcPc]
      BY <1>4 DEF OnDeactivate, Returns, NoCall, Calling, Calls, SvcPc
    <2>2. transport' \in {"null", "open", "dead"} /\ outputs_enabled' \in BOOLEAN
      BY <1>4 DEF OnDeactivate, GatedOutputs, TypeOK
    <2>3. QED
      BY <1>4, <2>1, <2>2
         DEF OnDeactivate, SvcKeeps, TypeOK, rtlocals, joints, flags, cycle, memory
  <1>5. CASE OnCleanup
    <2>1. lifecycle' \in {lifecycle, "unconfigured"} /\ svc' \in [call : Calls, pc : SvcPc]
      BY <1>5 DEF OnCleanup, Returns, NoCall, Calling, Calls, SvcPc
    <2>2. /\ control_level' \in [Joint -> Levels \cup {UNDEFINED}] /\ healthy' \in [Joint -> BOOLEAN]
          /\ errors' \in [Joint -> BOOLEAN] /\ finite' \in [Joint -> BOOLEAN]
          /\ command_sequence' \in [Joint -> Sequence] /\ written' \in [Joint -> Sequence \cup {NaN}]
      BY <1>5, FreshTypes DEF OnCleanup
    <2>3. transport' = "null" /\ outputs_enabled' = FALSE
      BY <1>5 DEF OnCleanup
    <2>4. UNCHANGED <<mode_switch, async_io_thread, stop, pending, in_flight, overdue, last_sent,
                      idle_requested, faulted, missed, reactivated>>
      BY <1>5 DEF OnCleanup, SvcKeeps, flags, memory
    <2>5. UNCHANGED <<rt, rt_healthy, rt_errors, restart_async_after, async_latest_command,
                      async_latest_telemetry, command, snapshot>>
      BY <1>5 DEF OnCleanup, SvcKeeps, rtlocals, cycle
    <2>6. QED
      <3>1. lifecycle' \in {"unconfigured", "inactive", "active", "finalized"}
        BY <2>1 DEF TypeOK
      <3>2. /\ {last_sent', written'} \subseteq [Joint -> Sequence \cup {NaN}]
            /\ {finite', healthy', errors', rt_healthy', rt_errors', idle_requested', faulted', missed', reactivated'}
                 \subseteq [Joint -> BOOLEAN]
        BY <2>2, <2>4, <2>5 DEF TypeOK
      <3>3. {outputs_enabled', restart_async_after', stop', pending', in_flight', overdue'}
              \subseteq BOOLEAN
        BY <2>3, <2>4, <2>5 DEF TypeOK
      <3>4. QED
        BY <2>1, <2>2, <2>3, <2>4, <2>5, <3>1, <3>2, <3>3 DEF TypeOK
  <1>6. QED
    BY <1>1, <1>2, <1>3, <1>4, <1>5 DEF Callback

\* So do the calls of the framework, the drives and the clock,
LEMMA TypesFramework == TypeOK /\ (Framework \/ Environment) => TypeOK'
  <1> SUFFICES ASSUME TypeOK, Framework \/ Environment PROVE TypeOK'
    OBVIOUS
  <1>1. ASSUME NEW levels \in [Joint -> Levels \cup {UNDEFINED}], PrepareCommandModeSwitch(levels)
        PROVE  TypeOK'
    BY <1>1 DEF PrepareCommandModeSwitch, SvcKeeps, TypeOK, rtlocals, flags, cycle, memory
  <1>2. ASSUME NEW found \in BOOLEAN, ActivateOpen(found) PROVE TypeOK'
    <2>1. transport' \in {"open", "null"} /\ lifecycle' \in {lifecycle, "active"}
      BY <1>2 DEF ActivateOpen, Returns
    <2>2. svc' \in [call : Calls, pc : SvcPc]
      <3>1. svc' \in {Calling("activate", "body"), NoCall}
        BY <1>2 DEF ActivateOpen, Returns
      <3>2. QED
        BY <3>1 DEF NoCall, Calling, Calls, SvcPc
    <2>3. outputs_enabled' \in BOOLEAN
      BY <1>2 DEF ActivateOpen, GatedOutputs, TypeOK
    <2>4. QED
      BY <1>2, <2>1, <2>2, <2>3 DEF ActivateOpen, SvcKeeps, TypeOK, rtlocals, joints, flags, cycle, memory
  <1>3. ASSUME NEW call \in {"deactivate", "cleanup", "recover"}, CallStop(call) PROVE TypeOK'
    <2>1. async_io_thread' = async_io_thread /\ {stop', pending', in_flight', overdue'} \subseteq BOOLEAN
      BY <1>3 DEF CallStop, RequestStop, ResetFlags, TypeOK
    <2>2. svc' \in [call : Calls, pc : SvcPc]
      BY <1>3 DEF CallStop, Calling, Calls, SvcPc
    <2>3. QED
      BY <1>3, <2>1, <2>2 DEF CallStop, SvcKeeps, CallKeeps, TypeOK, rtlocals, joints, cycle, memory
  <1>4. CASE OnConfigure
    BY <1>4 DEF OnConfigure, TypeOK, rtlocals, joints, flags, exchange, cycle, memory, world
  <1>5. CASE SpuriousWakeup
    BY <1>5, TypesWorker
  <1>6. CASE DeadlinePasses
    BY <1>6 DEF DeadlinePasses, TypeOK, control, rtlocals, joints, exchange, cycle, memory, world
  <1>7. ASSUME NEW j \in Joint, AxisFault(j) PROVE TypeOK'
    <2>1. faulted' \in [Joint -> BOOLEAN] /\ missed' \in [Joint -> BOOLEAN]
      BY <1>7 DEF AxisFault, TypeOK
    <2>2. QED
      BY <1>7, <2>1 DEF AxisFault, TypeOK, control, rtlocals, joints, flags, exchange, cycle, memory
  <1>8. QED
    BY <1>1, <1>2, <1>3, <1>4, <1>5, <1>6, <1>7 DEF Framework, Environment

\* a step that changes nothing,
LEMMA TypesStutter == TypeOK /\ UNCHANGED vars => TypeOK'
  BY DEF TypeOK, vars, control, rtlocals, joints, flags, exchange, cycle, memory, world

\* and with them every step.
LEMMA TypesNext == TypeOK /\ [Next]_vars => TypeOK'
  <1>1. Worker => CycleStep \/ WorkerCheck \/ WorkerPublish
    BY DEF Worker, CycleStep
  <1>2. QED
    BY <1>1, TypesCycle, TypesWorker, TypesLoop, TypesCallback, TypesFramework, TypesStutter DEF Next

-----------------------------------------------------------------------------
(* Who runs, and where the worker is.                                      *)

\* The worker's steps: it does not appear or vanish, and its flag says whether it is in a cycle.
LEMMA PlaceWorker ==
  ASSUME TypeOK, SerialInv, LifeInv, Worker \/ Environment PROVE SerialInv' /\ LifeInv'
  <1> USE DEF SerialInv, LifeInv, Joinable, InCycle, InRtCall, Switching
  <1>1. CASE CycleStep
    <2>1. InCycleStill
      BY <1>1, CycleStepTypes
    <2>2. UNCHANGED <<lifecycle, mode_switch, svc, rt, restart_async_after, in_flight>>
      BY <2>1 DEF InCycleStill, WorkerKeeps, control, rtlocals, flags
    <2>3. QED
      BY <2>1, <2>2 DEF InCycleStill
  <1>2. CASE WorkerCheck
    BY <1>2 DEF WorkerCheck, StartCycle, CheckKeeps, control, rtlocals, At
  <1>3. CASE WorkerPublish
    BY <1>3 DEF WorkerPublish, control, rtlocals, At
  <1>4. CASE SpuriousWakeup
    BY <1>4 DEF SpuriousWakeup, control, rtlocals, flags, At
  <1>5. CASE DeadlinePasses
    BY <1>5 DEF DeadlinePasses, control, rtlocals
  <1>6. ASSUME NEW j \in Joint, AxisFault(j) PROVE SerialInv' /\ LifeInv'
    BY <1>6 DEF AxisFault, control, rtlocals, flags
  <1>7. QED
    BY <1>1, <1>2, <1>3, <1>4, <1>5, <1>6 DEF Worker, CycleStep, Environment

\* The control loop: it joins the worker before the mode switch and starts it again only if it ran.
LEMMA PlaceLoop ==
  ASSUME TypeOK, SerialInv, LifeInv, ControlLoop PROVE SerialInv' /\ LifeInv'
  <1> USE DEF SerialInv, LifeInv, Joinable, InCycle, InRtCall, Switching, RtKeeps, MayCallFromRt
  <1>1. CASE ReadSnapshot
    BY <1>1 DEF ReadSnapshot, flags
  <1>2. CASE ReadApply
    BY <1>2 DEF ReadApply, flags
  <1>3. ASSUME NEW numbered \in SUBSET Joint, NEW unnumbered \in SUBSET Joint,
               Update(numbered, unnumbered)
        PROVE SerialInv' /\ LifeInv'
    BY <1>3 DEF Update, flags, TypeOK
  <1>4. CASE PerformStop
    BY <1>4 DEF PerformStop, RequestStop, StopKeeps, rtlocals
  <1>5. CASE PerformJoin
    BY <1>5 DEF PerformJoin, Join, ResetFlags, StopKeeps, rtlocals, At
  <1>6. CASE PerformNotify \/ WriteNotify
    <2>1. Joinable' = Joinable /\ InCycle' = InCycle
      BY <1>6, NotifyTypes DEF PerformNotify, WriteNotify
    <2>2. QED
      BY <1>6, <2>1 DEF PerformNotify, WriteNotify, StopKeeps, rtlocals, flags
  <1>7. ASSUME NEW passed \in 0..N, NEW s \in Status, PerformSwitch(passed, s)
        PROVE  SerialInv' /\ LifeInv'
    BY <1>7 DEF PerformSwitch, rtlocals, flags
  <1>8. CASE PerformRestart
    BY <1>8 DEF PerformRestart, Start, flags, At
  <1>9. CASE WritePost
    BY <1>9 DEF WritePost, rtlocals
  <1>10. QED
    BY <1>1, <1>2, <1>3, <1>4, <1>5, <1>6, <1>7, <1>8, <1>9 DEF ControlLoop

\* The service thread: a callback comes to its body only without a worker.
LEMMA PlaceService ==
  ASSUME TypeOK, SerialInv, LifeInv, Callback \/ Framework PROVE SerialInv' /\ LifeInv'
  <1> USE DEF SerialInv, LifeInv, Joinable, InCycle, InRtCall, Switching, SvcKeeps, MayCall,
              NoCall, Calling
  <1>1. CASE CallNotify
    <2>1. Joinable' = Joinable /\ InCycle' = InCycle
      BY <1>1, NotifyTypes DEF CallNotify
    <2>2. svc'.call = svc.call /\ svc'.pc = "join" /\ svc.pc = "notify"
      BY <1>1 DEF CallNotify, TypeOK
    <2>3. QED
      BY <1>1, <2>1, <2>2 DEF CallNotify, CallKeeps, rtlocals, flags
  <1>2. CASE CallJoin
    <2>1. svc'.call = svc.call /\ svc'.pc = "body" /\ svc.pc = "join"
      BY <1>2 DEF CallJoin, TypeOK
    <2>2. QED
      BY <1>2, <2>1 DEF CallJoin, Join, ResetFlags, CallKeeps, rtlocals, At
  <1>3. ASSUME NEW cleared \in SUBSET Joint, NEW s \in Status, ActivateClear(cleared, s)
        PROVE  SerialInv' /\ LifeInv'
    BY <1>3 DEF ActivateClear, Returns, Start, flags, rtlocals, At
  <1>4. ASSUME NEW s \in Status, OnDeactivate(s) PROVE SerialInv' /\ LifeInv'
    BY <1>4 DEF OnDeactivate, Returns, flags, rtlocals
  <1>5. CASE OnCleanup
    BY <1>5 DEF OnCleanup, Returns, flags, rtlocals
  <1>6. ASSUME NEW levels \in [Joint -> Levels \cup {UNDEFINED}], PrepareCommandModeSwitch(levels)
        PROVE  SerialInv' /\ LifeInv'
    BY <1>6 DEF PrepareCommandModeSwitch, rtlocals, flags
  <1>7. ASSUME NEW found \in BOOLEAN, ActivateOpen(found) PROVE SerialInv' /\ LifeInv'
    <2>1. /\ svc.call = "none" /\ mode_switch = "none" /\ lifecycle = "inactive" /\ ~InRtCall
          /\ UNCHANGED <<mode_switch, rt, restart_async_after, async_io_thread, in_flight>>
      BY <1>7 DEF ActivateOpen, rtlocals, flags
    <2>2. \/ svc'.call = "activate" /\ svc'.pc = "body" /\ lifecycle' = lifecycle
          \/ svc'.call = "none" /\ svc'.pc = "body" /\ lifecycle' = "active"
      <3>1. \/ svc' = Calling("activate", "body") /\ lifecycle' = lifecycle
            \/ svc' = NoCall /\ lifecycle' = "active"
        BY <1>7 DEF ActivateOpen, Returns
      <3>2. QED
        BY <3>1
    <2>3. QED
      BY <2>1, <2>2
  <1>8. ASSUME NEW call \in {"deactivate", "cleanup", "recover"}, CallStop(call)
        PROVE  SerialInv' /\ LifeInv'
    <2>1. /\ svc.call = "none" /\ mode_switch = "none"
          /\ call # "deactivate" => ~InRtCall
          /\ UNCHANGED <<lifecycle, mode_switch, rt, restart_async_after>>
      BY <1>8 DEF CallStop, CallKeeps, Due, rtlocals
    <2>2. svc'.call = call /\ async_io_thread' = async_io_thread
      BY <1>8 DEF CallStop, RequestStop
    <2>3. \/ Joinable /\ svc'.pc = "notify" /\ in_flight' = in_flight
          \/ ~Joinable /\ svc'.pc = "body" /\ in_flight' = FALSE
      BY <1>8 DEF CallStop, RequestStop, ResetFlags
    <2>4. Joinable' = Joinable /\ InCycle' = InCycle /\ InRtCall' = InRtCall
      BY <2>1, <2>2
    <2>5. SerialInv'
      <3>1. rt \notin Switching /\ call # "none" /\ call # "activate"
        BY <2>1
      <3>2. svc'.pc = "body" => ~Joinable'
        BY <2>2, <2>3
      <3>3. call # "deactivate" => ~InRtCall'
        BY <2>1
      <3>4. mode_switch' = "none" /\ rt' \notin Switching
        BY <2>1, <3>1
      <3>5. QED
        BY <2>2, <3>1, <3>2, <3>3, <3>4
    <2>6. LifeInv'
      BY <2>1, <2>2, <2>3, <2>4
    <2>7. QED
      BY <2>5, <2>6
  <1>9. CASE OnConfigure
    BY <1>9 DEF OnConfigure, rtlocals, flags
  <1>10. QED
    BY <1>1, <1>2, <1>3, <1>4, <1>5, <1>6, <1>7, <1>8, <1>9 DEF Callback, Framework

-----------------------------------------------------------------------------
(* Notifications.                                                          *)

\* A step that leaves the flags and the other threads alone and does not put the worker to sleep.
LEMMA WakeKept ==
  ASSUME WakeInv, UNCHANGED <<rt, svc, stop>>, pending' => pending, Joinable' = Joinable,
         async_io_thread'.pc = "waiting" => async_io_thread.pc = "waiting"
  PROVE  WakeInv'
  BY DEF WakeInv, Joining

\* The worker goes to sleep only if it finds neither a request nor the order to stop.
LEMMA WakeWorker ==
  ASSUME TypeOK, WakeInv, Worker \/ Environment PROVE WakeInv'
  <1>1. CASE CycleStep
    <2>1. InCycleStill
      BY <1>1, CycleStepTypes
    <2>2. UNCHANGED <<rt, svc, stop, pending>>
      BY <2>1 DEF InCycleStill, WorkerKeeps, control, flags
    <2>3. QED
      BY <2>1, <2>2, WakeKept DEF InCycleStill, InCycle, Joinable
  <1>2. CASE WorkerCheck
    <2>1. UNCHANGED <<rt, svc, stop>> /\ Joinable /\ async_io_thread.pc = "check"
      BY <1>2 DEF WorkerCheck, CheckKeeps, control, Joinable
    <2>2. CASE stop /\ async_io_thread' = At("finished", 1) /\ UNCHANGED pending
      BY <2>1, <2>2, WakeKept DEF At, Joinable
    <2>3. CASE ~stop /\ StartCycle
      BY <2>1, <2>3, WakeKept DEF StartCycle, At, Joinable
    <2>4. CASE ~stop /\ ~pending /\ async_io_thread' = At("waiting", 1) /\ UNCHANGED pending
      BY <2>1, <2>4 DEF WakeInv, Joining, At, Joinable
    <2>5. QED
      BY <1>2, <2>2, <2>3, <2>4 DEF WorkerCheck
  <1>3. CASE WorkerPublish
    BY <1>3, WakeKept DEF WorkerPublish, control, At, Joinable
  <1>4. CASE SpuriousWakeup
    BY <1>4, WakeKept DEF SpuriousWakeup, control, flags, At, Joinable
  <1>5. CASE DeadlinePasses
    BY <1>5, WakeKept DEF DeadlinePasses, control, Joinable
  <1>6. ASSUME NEW j \in Joint, AxisFault(j) PROVE WakeInv'
    BY <1>6, WakeKept DEF AxisFault, control, flags, Joinable
  <1>7. QED
    BY <1>1, <1>2, <1>3, <1>4, <1>5, <1>6 DEF Worker, CycleStep, Environment

\* A notification is not lost: the worker sleeps no more.
LEMMA NotifyWakes == Notify => async_io_thread'.pc # "waiting"
  BY DEF Notify, At

\* The control loop notifies what it posts, and joins a worker that nobody else joins.
LEMMA WakeLoop ==
  ASSUME TypeOK, SerialInv, WakeInv, ControlLoop PROVE WakeInv'
  <1> USE DEF WakeInv, Joining, Joinable
  <1>1. CASE ReadSnapshot \/ ReadApply
    <2>1. UNCHANGED <<svc, async_io_thread, stop, pending>>
      BY <1>1 DEF ReadSnapshot, ReadApply, RtKeeps, flags
    <2>2. rt \in {"idle", "apply"} /\ rt' \in {"apply", "update"}
      BY <1>1 DEF ReadSnapshot, ReadApply
    <2>3. QED
      BY <2>1, <2>2
  <1>2. ASSUME NEW numbered \in SUBSET Joint, NEW unnumbered \in SUBSET Joint,
               Update(numbered, unnumbered)
        PROVE WakeInv'
    BY <1>2 DEF Update, RtKeeps, flags
  <1>3. CASE PerformStop
    BY <1>3 DEF PerformStop, RequestStop, RtKeeps
  <1>4. CASE PerformNotify
    <2>1. async_io_thread'.pc # "waiting" /\ Joinable' = Joinable
      BY <1>4, NotifyWakes, NotifyTypes DEF PerformNotify
    <2>2. QED
      BY <1>4, <2>1 DEF PerformNotify, RtKeeps, flags
  <1>5. CASE PerformJoin
    <2>1. rt = "stop_join" /\ rt' = "perform" /\ svc' = svc /\ async_io_thread'.pc = "none"
      BY <1>5 DEF PerformJoin, Join, At, RtKeeps
    <2>2. svc.pc = "body"
      BY <2>1 DEF SerialInv, Switching
    <2>3. QED
      BY <2>1, <2>2
  <1>6. ASSUME NEW passed \in 0..N, NEW s \in Status, PerformSwitch(passed, s)
        PROVE  WakeInv'
    BY <1>6 DEF PerformSwitch, RtKeeps, flags
  <1>7. CASE PerformRestart
    <2>1. svc' = svc /\ svc.pc = "body" /\ rt' = "write"
      BY <1>7 DEF PerformRestart, RtKeeps, SerialInv, Switching
    <2>2. async_io_thread'.pc # "waiting"
      BY <1>7 DEF PerformRestart, Start, At, SerialInv
    <2>3. QED
      BY <2>1, <2>2
  <1>8. CASE WritePost
    BY <1>8 DEF WritePost, RtKeeps
  <1>9. CASE WriteNotify
    <2>1. async_io_thread'.pc # "waiting" /\ Joinable' = Joinable
      BY <1>9, NotifyWakes, NotifyTypes DEF WriteNotify
    <2>2. QED
      BY <1>9, <2>1 DEF WriteNotify, RtKeeps, flags
  <1>10. QED
    BY <1>1, <1>2, <1>3, <1>4, <1>5, <1>6, <1>7, <1>8, <1>9 DEF ControlLoop

\* So does the service thread.
LEMMA WakeService ==
  ASSUME TypeOK, SerialInv, WakeInv, Callback \/ Framework PROVE WakeInv'
  <1> USE DEF WakeInv, Joining, Joinable
  <1>1. CASE CallNotify
    <2>1. async_io_thread'.pc # "waiting" /\ Joinable' = Joinable
      BY <1>1, NotifyWakes, NotifyTypes DEF CallNotify
    <2>2. /\ svc.pc = "notify" /\ svc'.pc = "join" /\ UNCHANGED <<rt, stop, pending>>
      BY <1>1 DEF CallNotify, SvcKeeps, flags, TypeOK
    <2>3. QED
      BY <2>1, <2>2
  <1>2. CASE CallJoin
    <2>1. /\ svc.pc = "join" /\ svc'.pc = "body" /\ rt' = rt /\ async_io_thread'.pc = "none"
      BY <1>2 DEF CallJoin, Join, At, SvcKeeps, TypeOK
    <2>2. svc.call # "none" /\ rt \notin Switching
      BY <2>1 DEF SerialInv
    <2>3. QED
      BY <2>1, <2>2 DEF Switching
  <1>3. ASSUME NEW cleared \in SUBSET Joint, NEW s \in Status, ActivateClear(cleared, s)
        PROVE  WakeInv'
    <2>1. svc.call = "activate" /\ svc'.pc = "body" /\ rt' = rt
      BY <1>3 DEF ActivateClear, Returns, NoCall, Calling
    <2>2. rt \notin Switching /\ async_io_thread.pc = "none"
      BY <1>3, <2>1 DEF SerialInv, ActivateClear, Calling
    <2>3. async_io_thread'.pc # "waiting"
      BY <1>3, <2>2 DEF ActivateClear, Start, At
    <2>4. QED
      BY <2>1, <2>2, <2>3 DEF Switching
  <1>4. ASSUME NEW s \in Status, OnDeactivate(s) PROVE WakeInv'
    BY <1>4 DEF OnDeactivate, Returns, NoCall, Calling, SvcKeeps, flags
  <1>5. CASE OnCleanup
    BY <1>5 DEF OnCleanup, Returns, NoCall, Calling, SvcKeeps, flags
  <1>6. ASSUME NEW levels \in [Joint -> Levels \cup {UNDEFINED}], PrepareCommandModeSwitch(levels)
        PROVE  WakeInv'
    BY <1>6 DEF PrepareCommandModeSwitch, SvcKeeps, flags
  <1>7. ASSUME NEW found \in BOOLEAN, ActivateOpen(found) PROVE WakeInv'
    <2>1. UNCHANGED <<rt, async_io_thread, stop, pending>> /\ svc.pc = "body"
      BY <1>7 DEF ActivateOpen, MayCall, NoCall, Calling, SvcKeeps, flags
    <2>2. svc' \in {Calling("activate", "body"), NoCall}
      BY <1>7 DEF ActivateOpen, Returns
    <2>3. svc'.pc = "body"
      BY <2>2 DEF NoCall, Calling
    <2>4. QED
      BY <2>1, <2>3
  <1>8. ASSUME NEW call \in {"deactivate", "cleanup", "recover"}, CallStop(call) PROVE WakeInv'
    <2>1. svc.pc = "body" /\ mode_switch = "none" /\ rt' = rt /\ async_io_thread' = async_io_thread
      BY <1>8 DEF CallStop, MayCall, NoCall, Calling, SvcKeeps, RequestStop
    <2>2. rt \notin Switching
      BY <2>1 DEF SerialInv
    <2>3. CASE Joinable
      <3>1. stop' = TRUE /\ svc'.pc = "notify"
        BY <1>8, <2>3 DEF CallStop, RequestStop, Calling
      <3>2. QED
        BY <2>1, <2>2, <2>3, <3>1 DEF Switching
    <2>4. CASE ~Joinable
      <3>1. svc'.pc = "body"
        BY <1>8, <2>4 DEF CallStop, Calling
      <3>2. QED
        BY <2>1, <2>2, <2>4, <3>1 DEF Switching
    <2>5. QED
      BY <2>3, <2>4
  <1>9. CASE OnConfigure
    BY <1>9 DEF OnConfigure, flags
  <1>10. QED
    BY <1>1, <1>2, <1>3, <1>4, <1>5, <1>6, <1>7, <1>8, <1>9 DEF Callback, Framework

-----------------------------------------------------------------------------
(* The sequences and the errors.                                           *)

ValuesInv == OrderInv /\ SentInv /\ MaskInv

\* What the values depend on besides the place of the worker.
carried == <<async_latest_command, async_latest_telemetry, command_sequence, last_sent, written,
             reactivated, faulted, missed>>

\* A step that carries everything over and does not start a worker.
LEMMA ValuesCarried ==
  ASSUME ValuesInv, UNCHANGED carried,
         Joinable' \/ restart_async_after' => Joinable \/ restart_async_after,
         InCycle' => InCycle /\ command' = command /\ snapshot' = snapshot,
         InCycle => InCycle'
  PROVE  ValuesInv'
  BY DEF ValuesInv, OrderInv, SentInv, MaskInv, Counting, carried

\* A sample that shows a fault takes it into the snapshot before the fault counts as shown.
LEMMA ValuesRead ==
  ASSUME TypeOK, ValuesInv, NEW i \in Joint, NEW s \in Status, WorkerRead(i, s)
  PROVE  ValuesInv'
  <1>1. /\ InCycle /\ InCycle' /\ Joinable /\ Joinable'
        /\ UNCHANGED <<command, async_latest_command, command_sequence, last_sent, written,
                       reactivated, faulted>>
    BY ReadStep DEF InCycleStill, WorkerKeeps, InCycle, Joinable, exchange, joints, memory
  <1>2. OrderInv' /\ SentInv'
    BY <1>1 DEF ValuesInv, OrderInv, SentInv
  <1>3. faulted \in [Joint -> BOOLEAN] /\ missed \in [Joint -> BOOLEAN]
        /\ snapshot.errors \in [Joint -> BOOLEAN]
    BY DEF TypeOK, Telemetry
  <1>4. MaskInv'
    <2>1. \A j \in Joint : faulted[j] /\ ~missed[j] => snapshot.errors[j]
      BY <1>1 DEF ValuesInv, MaskInv, Counting
    <2>2. CASE /\ snapshot'.errors = [snapshot.errors EXCEPT ![i] = faulted[i]]
               /\ missed' = [missed EXCEPT ![i] = FALSE]
      <3>1. \A j \in Joint : faulted[j] /\ ~missed'[j] => snapshot'.errors[j]
        BY <1>3, <2>1, <2>2
      <3>2. QED
        BY <1>1, <3>1 DEF MaskInv, Counting
    <2>3. CASE snapshot'.errors = snapshot.errors /\ missed' = missed
      BY <1>1, <2>1, <2>3 DEF MaskInv, Counting
    <2>4. QED
      BY <2>2, <2>3, ReadStep
  <1>5. QED
    BY <1>2, <1>4 DEF ValuesInv

\* The start of the cycle's two loops leaves sequences and errors as they are.
LEMMA ValuesGate ==
  ASSUME TypeOK, ValuesInv, WorkerStartWrite \/ \E s \in Status : WorkerSensors(s)
  PROVE  ValuesInv'
  <1>1. /\ InCycle /\ InCycle' /\ Joinable /\ Joinable'
        /\ snapshot'.errors = snapshot.errors
        /\ UNCHANGED <<command, async_latest_command, command_sequence, last_sent, written,
                       reactivated, faulted, missed>>
    BY GateStep DEF InCycleStill, WorkerKeeps, InCycle, Joinable, exchange, joints, memory
  <1>2. QED
    BY <1>1 DEF ValuesInv, OrderInv, SentInv, MaskInv, Counting

\* What the worker remembers as sent, or has written, is on its way and no older than before.
LEMMA ValuesWrite ==
  ASSUME TypeOK, ValuesInv, NEW i \in Joint, NEW s \in Status,
         WorkerMasked(i) \/ WorkerNothing(i) \/ WorkerIdleOnFault(i, s) \/ WorkerCommand(i, s)
  PROVE  ValuesInv'
  <1>1. /\ InCycle /\ InCycle' /\ Joinable /\ Joinable'
        /\ snapshot'.errors = snapshot.errors
        /\ UNCHANGED <<command, async_latest_command, command_sequence, faulted, missed>>
    BY JointWriteStep DEF InCycleStill, WorkerKeeps, InCycle, Joinable, exchange, joints
  <1>2. OrderInv' /\ MaskInv'
    BY <1>1 DEF ValuesInv, OrderInv, MaskInv, Counting
  <1>3. SentInv'
    <2>1. SUFFICES ASSUME gate_stale_commands, NEW j \in Joint, ~reactivated'[j], written'[j] # NaN
                   PROVE  /\ written'[j] <= last_sent'[j] /\ last_sent'[j] \in Sequence
                          /\ last_sent'[j] <= async_latest_command.seq[j]
                          /\ async_latest_command.seq[j] <= command_sequence[j]
                          /\ last_sent'[j] <= command.seq[j]
      BY <1>1 DEF SentInv
    <2>2. /\ command.seq[j] \in Sequence /\ command.seq[j] <= async_latest_command.seq[j]
          /\ async_latest_command.seq[j] <= command_sequence[j]
          /\ async_latest_command.seq[j] \in Nat /\ command_sequence[j] \in Nat
          /\ command.seq[j] \in Nat
      BY <1>1, SequenceFacts DEF ValuesInv, OrderInv, TypeOK, Command
    <2>3. /\ last_sent \in [Joint -> Sequence \cup {NaN}] /\ written \in [Joint -> Sequence \cup {NaN}]
          /\ reactivated \in [Joint -> BOOLEAN]
      BY DEF TypeOK
    <2>4. Remember(i) => last_sent' = [last_sent EXCEPT ![i] = command.seq[i]]
      BY <2>1 DEF Remember
    <2>5. ~reactivated[j] /\ written[j] # NaN =>
             /\ written[j] <= last_sent[j] /\ last_sent[j] \in Sequence
             /\ last_sent[j] <= command.seq[j]
             /\ written[j] \in Nat /\ last_sent[j] \in Nat
      BY <2>1, <2>3, <1>1, SequenceFacts DEF ValuesInv, SentInv
    <2>6. CASE UNCHANGED <<last_sent, written, reactivated>>
      BY <2>1, <2>2, <2>3, <2>5, <2>6, SequenceFacts
    <2>7. CASE Remember(i) /\ UNCHANGED <<written, reactivated>>
      BY <2>1, <2>2, <2>3, <2>4, <2>5, <2>7, SequenceFacts
    <2>8. CASE /\ Remember(i)
               /\ written' = [written EXCEPT ![i] = command.seq[i]]
               /\ reactivated' = [reactivated EXCEPT ![i] = FALSE]
      BY <2>1, <2>2, <2>3, <2>4, <2>5, <2>8, SequenceFacts
    <2>9. QED
      BY <2>6, <2>7, <2>8, JointWriteStep
  <1>4. QED
    BY <1>2, <1>3 DEF ValuesInv

\* A cycle takes over the posted commands and the published errors, and publishes its own.
LEMMA ValuesEnds ==
  ASSUME TypeOK, ValuesInv, WorkerCheck \/ WorkerPublish PROVE ValuesInv'
  <1>1. CASE WorkerCheck
    <2>1. UNCHANGED carried /\ restart_async_after' = restart_async_after /\ ~InCycle /\ Joinable
      BY <1>1 DEF WorkerCheck, CheckKeeps, carried, exchange, joints, memory, world, rtlocals,
                  InCycle, Joinable
    <2>2. CASE StartCycle
      <3>1. InCycle' /\ command' = async_latest_command /\ snapshot' = async_latest_telemetry
        BY <2>2 DEF StartCycle, InCycle, At
      <3>2. \A j \in Joint : async_latest_command.seq[j] \in Nat
        BY SequenceFacts DEF TypeOK, Command
      <3>3. QED
        BY <2>1, <3>1, <3>2 DEF ValuesInv, OrderInv, SentInv, MaskInv, Counting, carried
    <2>3. CASE async_io_thread'.pc \in {"finished", "waiting"}
      BY <2>1, <2>3, ValuesCarried DEF InCycle
    <2>4. QED
      BY <1>1, <2>2, <2>3 DEF WorkerCheck, At
  <1>2. CASE WorkerPublish
    <2>1. /\ InCycle /\ ~InCycle' /\ Joinable /\ async_latest_telemetry' = snapshot
          /\ UNCHANGED <<async_latest_command, command_sequence, last_sent, written, reactivated,
                         faulted, missed, restart_async_after>>
      BY <1>2 DEF WorkerPublish, At, InCycle, Joinable, joints, memory, world, rtlocals
    <2>2. QED
      BY <2>1 DEF ValuesInv, OrderInv, SentInv, MaskInv, Counting
  <1>3. QED
    BY <1>1, <1>2

\* A fault that arises has not been shown.
LEMMA ValuesEnvironment ==
  ASSUME TypeOK, ValuesInv, Environment PROVE ValuesInv'
  <1>1. CASE SpuriousWakeup
    BY <1>1, ValuesCarried
       DEF SpuriousWakeup, At, InCycle, Joinable, carried, rtlocals, joints, exchange, cycle, memory,
           world
  <1>2. CASE DeadlinePasses
    BY <1>2, ValuesCarried
       DEF DeadlinePasses, InCycle, Joinable, carried, rtlocals, joints, exchange, cycle, memory, world
  <1>3. ASSUME NEW k \in Joint, AxisFault(k) PROVE ValuesInv'
    <2>1. /\ UNCHANGED <<rtlocals, joints, async_io_thread, exchange, cycle, memory, written, reactivated>>
          /\ faulted' = [faulted EXCEPT ![k] = TRUE] /\ missed' = [missed EXCEPT ![k] = TRUE]
      BY <1>3 DEF AxisFault
    <2>2. InCycle' = InCycle /\ Joinable' = Joinable
      BY <2>1 DEF InCycle, Joinable
    <2>3. OrderInv' /\ SentInv'
      BY <2>1, <2>2 DEF ValuesInv, OrderInv, SentInv, rtlocals, joints, exchange, cycle, memory
    <2>4. MaskInv'
      BY <2>1, <2>2 DEF ValuesInv, MaskInv, Counting, TypeOK, exchange, cycle
    <2>5. QED
      BY <2>3, <2>4 DEF ValuesInv
  <1>4. QED
    BY <1>1, <1>2, <1>3 DEF Environment

\* The control loop only makes sequences newer and, by clearing, faults fewer.
LEMMA ValuesLoop ==
  ASSUME TypeOK, SerialInv, LifeInv, ValuesInv, ControlLoop PROVE ValuesInv'
  <1>1. CASE ReadSnapshot \/ ReadApply
    <2>1. UNCHANGED carried
      BY <1>1 DEF ReadSnapshot, ReadApply, RtKeeps, carried, joints, exchange, memory
    <2>2. UNCHANGED <<async_io_thread, restart_async_after, command, snapshot>>
      BY <1>1 DEF ReadSnapshot, ReadApply, RtKeeps, cycle
    <2>3. QED
      BY <2>1, <2>2, ValuesCarried DEF InCycle, Joinable
  <1>2. CASE PerformStop \/ PerformJoin
    <2>1. /\ UNCHANGED carried /\ UNCHANGED <<restart_async_after, command, snapshot>>
          /\ InCycle' = InCycle /\ (Joinable' => Joinable)
      BY <1>2 DEF PerformStop, PerformJoin, RequestStop, Join, At, InCycle, Joinable, RtKeeps,
                  StopKeeps, carried, rtlocals, joints, exchange, cycle, memory
    <2>2. QED
      BY <2>1, ValuesCarried
  <1>3. CASE PerformNotify \/ WriteNotify
    <2>1. Joinable' = Joinable /\ InCycle' = InCycle
      BY <1>3, NotifyTypes DEF PerformNotify, WriteNotify
    <2>2. UNCHANGED carried /\ UNCHANGED <<restart_async_after, command, snapshot>>
      BY <1>3 DEF PerformNotify, WriteNotify, RtKeeps, StopKeeps, carried, rtlocals, joints, exchange,
                  cycle, memory
    <2>3. QED
      BY <2>1, <2>2, ValuesCarried
  <1>4. ASSUME NEW numbered \in SUBSET Joint, NEW unnumbered \in SUBSET Joint,
               Update(numbered, unnumbered)
        PROVE ValuesInv'
    <2>1. \A j \in Joint : /\ command_sequence[j] \in Nat /\ async_latest_command.seq[j] \in Nat
                           /\ command_sequence[j] <= command_sequence'[j] /\ command_sequence'[j] \in Nat
      <3>1. /\ command_sequence \in [Joint -> Nat] /\ async_latest_command.seq \in [Joint -> Nat]
        BY SequenceFacts DEF TypeOK, Command
      <3>2. \A j \in Joint : command_sequence'[j] \in {command_sequence[j], command_sequence[j] + 1}
        BY <1>4, <3>1 DEF Update, Commands
      <3>3. QED
        BY <3>1, <3>2
    <2>2. /\ UNCHANGED <<async_io_thread, async_latest_command, async_latest_telemetry, last_sent,
                         written, reactivated, faulted, missed, command, snapshot>>
          /\ restart_async_after' => Joinable
      BY <1>4 DEF Update, RtKeeps, exchange, cycle, memory
    <2>3. InCycle' = InCycle /\ Joinable' = Joinable
      BY <2>2 DEF InCycle, Joinable
    <2>4. OrderInv'
      BY <2>1, <2>2, <2>3 DEF ValuesInv, OrderInv
    <2>5. SentInv'
      BY <2>1, <2>2, <2>3 DEF ValuesInv, SentInv
    <2>6. MaskInv'
      BY <2>2, <2>3 DEF ValuesInv, MaskInv, Counting
    <2>7. QED
      BY <2>4, <2>5, <2>6 DEF ValuesInv
  <1>5. ASSUME NEW passed \in 0..N, NEW s \in Status, PerformSwitch(passed, s)
        PROVE  ValuesInv'
    <2>1. /\ UNCHANGED <<async_io_thread, restart_async_after, command_sequence, async_latest_command,
                         async_latest_telemetry, last_sent, written, reactivated, missed, command,
                         snapshot>>
          /\ \A j \in Joint : faulted'[j] => faulted[j]
      <3>1. \/ UNCHANGED faulted
            \/ \E cleared : faulted' = [j \in Joint |-> faulted[j] /\ j \notin cleared]
        BY <1>5 DEF PerformSwitch, ClaimReads
      <3>2. \A j \in Joint : faulted'[j] => faulted[j]
        BY <3>1
      <3>3. QED
        BY <1>5, <3>2 DEF PerformSwitch, RtKeeps, rtlocals, exchange, cycle, memory
    <2>2. InCycle' = InCycle /\ Joinable' = Joinable
      BY <2>1 DEF InCycle, Joinable
    <2>3. QED
      BY <2>1, <2>2 DEF ValuesInv, OrderInv, SentInv, MaskInv, Counting
  <1>6. CASE PerformRestart
    <2>1. ~InCycle
      BY <1>6 DEF PerformRestart, SerialInv, Joinable, InCycle
    <2>2. ~InCycle' /\ (Joinable' => Joinable \/ restart_async_after) /\ ~restart_async_after'
      BY <1>6, <2>1 DEF PerformRestart, Start, At, InCycle, Joinable
    <2>3. UNCHANGED carried
      BY <1>6 DEF PerformRestart, RtKeeps, carried, joints, exchange, memory
    <2>4. QED
      BY <2>1, <2>2, <2>3, ValuesCarried
  <1>7. CASE WritePost
    <2>1. /\ UNCHANGED <<async_io_thread, restart_async_after, command_sequence,
                         async_latest_telemetry, last_sent, written, reactivated, missed, faulted,
                         command, snapshot>>
          /\ \/ async_latest_command'.seq = command_sequence
             \/ async_latest_command' = async_latest_command
      BY <1>7 DEF WritePost, RtKeeps, rtlocals, joints, cycle, memory
    <2>2. InCycle' = InCycle /\ Joinable' = Joinable /\ (InCycle => Joinable)
      BY <2>1 DEF InCycle, Joinable
    <2>3. \A j \in Joint : /\ command_sequence[j] \in Nat /\ async_latest_command.seq[j] \in Nat
                           /\ command.seq[j] \in Nat
      BY SequenceFacts DEF TypeOK, Command
    <2>4. \A j \in Joint : last_sent[j] \in Sequence => last_sent[j] \in Nat
      BY SequenceFacts
    <2>5. OrderInv' /\ MaskInv'
      BY <2>1, <2>2, <2>3 DEF ValuesInv, OrderInv, MaskInv, Counting
    <2>6. SentInv'
      BY <2>1, <2>2, <2>3, <2>4 DEF ValuesInv, SentInv
    <2>7. QED
      BY <2>5, <2>6 DEF ValuesInv
  <1>8. QED
    BY <1>1, <1>2, <1>3, <1>4, <1>5, <1>6, <1>7 DEF ControlLoop

\* What the callbacks reset, they reset without a worker; activation forgets what was sent.
LEMMA ValuesService ==
  ASSUME TypeOK, SerialInv, LifeInv, ValuesInv, Callback \/ Framework PROVE ValuesInv'
  <1>1. CASE CallNotify
    <2>1. Joinable' = Joinable /\ InCycle' = InCycle
      BY <1>1, NotifyTypes DEF CallNotify
    <2>2. UNCHANGED carried /\ UNCHANGED <<restart_async_after, command, snapshot>>
      BY <1>1 DEF CallNotify, SvcKeeps, CallKeeps, carried, rtlocals, joints, cycle, memory
    <2>3. QED
      BY <2>1, <2>2, ValuesCarried
  <1>2. CASE CallJoin
    <2>1. ~InCycle /\ ~InCycle' /\ ~Joinable' /\ restart_async_after' = restart_async_after
      BY <1>2 DEF CallJoin, Join, At, InCycle, Joinable, SvcKeeps, rtlocals
    <2>2. UNCHANGED carried
      BY <1>2 DEF CallJoin, SvcKeeps, CallKeeps, carried, joints, memory
    <2>3. QED
      BY <2>1, <2>2, ValuesCarried
  <1>3. ASSUME NEW cleared \in SUBSET Joint, NEW s \in Status, ActivateClear(cleared, s)
        PROVE  ValuesInv'
    <2>1. ~Joinable /\ ~InCycle
      BY <1>3 DEF ActivateClear, Calling, SerialInv, Joinable, InCycle
    <2>2. /\ UNCHANGED <<restart_async_after, command_sequence, missed, written>>
          /\ \A j \in Joint : faulted'[j] => faulted[j] /\ j \notin cleared
      BY <1>3 DEF ActivateClear, rtlocals, joints
    <2>3. CASE s = "ok"
      <3>1. /\ ~InCycle' /\ async_latest_command' = NoCommand /\ reactivated' = All(TRUE)
            /\ cleared = Joint
        BY <1>3, <2>3 DEF ActivateClear, InitBuffers, Start, At, InCycle
      <3>2. \A j \in Joint : command_sequence[j] \in Nat
        BY SequenceFacts DEF TypeOK
      <3>3. \A j \in Joint : async_latest_command'.seq[j] = 0 /\ reactivated'[j] = TRUE
        BY <3>1 DEF NoCommand, All
      <3>4. QED
        <4>1. OrderInv'
          <5>1. \A j \in Joint : async_latest_command'.seq[j] = 0 /\ command_sequence'[j] \in Nat
            BY <2>2, <3>2, <3>3
          <5>2. \A j \in Joint : async_latest_command'.seq[j] <= command_sequence'[j]
            BY <5>1
          <5>3. QED
            BY <3>1, <5>2 DEF OrderInv
        <4>2. SentInv'
          BY <3>3 DEF SentInv
        <4>3. MaskInv'
          BY <2>2, <3>1 DEF MaskInv
        <4>4. QED
          BY <4>1, <4>2, <4>3 DEF ValuesInv
    <2>4. CASE s # "ok"
      <3>1. UNCHANGED <<async_io_thread, async_latest_command, async_latest_telemetry, last_sent,
                        reactivated>>
        BY <1>3, <2>4 DEF ActivateClear, exchange, memory
      <3>2. ~InCycle' /\ ~Joinable'
        BY <2>1, <3>1 DEF InCycle, Joinable
      <3>3. QED
        BY <2>1, <2>2, <3>1, <3>2 DEF ValuesInv, OrderInv, SentInv, MaskInv, Counting
    <2>5. QED
      BY <2>3, <2>4
  <1>4. ASSUME NEW s \in Status, OnDeactivate(s) PROVE ValuesInv'
    BY <1>4, ValuesCarried
       DEF OnDeactivate, SvcKeeps, InCycle, Joinable, carried, rtlocals, joints, cycle, memory
  <1>5. CASE OnCleanup
    <2>1. ~Joinable /\ ~InCycle /\ ~restart_async_after
      BY <1>5 DEF OnCleanup, SerialInv, LifeInv, Joinable, InCycle
    <2>2. /\ UNCHANGED <<restart_async_after, async_io_thread, async_latest_telemetry, faulted, missed>>
          /\ written' = All(NaN)
      BY <1>5 DEF OnCleanup, SvcKeeps, rtlocals
    <2>3. ~Joinable' /\ ~InCycle' /\ \A j \in Joint : written'[j] = NaN
      BY <2>1, <2>2 DEF Joinable, InCycle, All
    <2>4. QED
      BY <2>1, <2>2, <2>3 DEF ValuesInv, OrderInv, SentInv, MaskInv, Counting
  <1>6. ASSUME NEW levels \in [Joint -> Levels \cup {UNDEFINED}], PrepareCommandModeSwitch(levels)
        PROVE  ValuesInv'
    BY <1>6, ValuesCarried
       DEF PrepareCommandModeSwitch, SvcKeeps, InCycle, Joinable, carried, rtlocals, cycle, memory
  <1>7. ASSUME NEW found \in BOOLEAN, ActivateOpen(found) PROVE ValuesInv'
    BY <1>7, ValuesCarried
       DEF ActivateOpen, SvcKeeps, InCycle, Joinable, carried, rtlocals, joints, cycle, memory
  <1>8. ASSUME NEW call \in {"deactivate", "cleanup", "recover"}, CallStop(call) PROVE ValuesInv'
    <2>1. async_io_thread' = async_io_thread
      BY <1>8 DEF CallStop, RequestStop
    <2>2. QED
      BY <1>8, <2>1, ValuesCarried
         DEF CallStop, SvcKeeps, CallKeeps, InCycle, Joinable, carried, rtlocals, joints, cycle, memory
  <1>9. CASE OnConfigure
    BY <1>9, ValuesCarried
       DEF OnConfigure, InCycle, Joinable, carried, rtlocals, joints, exchange, cycle, memory, world
  <1>10. QED
    BY <1>1, <1>2, <1>3, <1>4, <1>5, <1>6, <1>7, <1>8, <1>9 DEF Callback, Framework

-----------------------------------------------------------------------------
(* The invariant is inductive.                                              *)

\* The first state satisfies it.
LEMMA AsyncInit == Init => IInv
  <1> SUFFICES ASSUME Init PROVE IInv
    OBVIOUS
  <1>1. TypeOK
    <2>1. async_io_thread \in [pc : WorkerPc, i : Joint] /\ svc \in [call : Calls, pc : SvcPc]
      BY JointFacts DEF Init, At, WorkerPc, NoCall, Calling, Calls, SvcPc
    <2>2. /\ control_level \in [Joint -> Levels \cup {UNDEFINED}]
          /\ command_sequence \in [Joint -> Sequence]
          /\ {last_sent, written} \subseteq [Joint -> Sequence \cup {NaN}]
      BY FreshTypes DEF Init
    <2>3. {finite, healthy, errors, rt_healthy, rt_errors, idle_requested, faulted, missed, reactivated} \subseteq [Joint -> BOOLEAN]
      BY FreshTypes DEF Init
    <2>4. {async_latest_command, command} \subseteq Command
          /\ {async_latest_telemetry, snapshot} \subseteq Telemetry
      BY FreshTypes DEF Init
    <2>5. QED
      BY <2>1, <2>2, <2>3, <2>4 DEF Init, TypeOK, RtPc
  <1>2. ~Joinable /\ ~InCycle /\ ~restart_async_after /\ ~in_flight
    BY DEF Init, At, Joinable, InCycle
  <1>3. SerialInv /\ LifeInv
    BY <1>2 DEF Init, NoCall, Calling, SerialInv, LifeInv, Switching
  <1>4. \A j \in Joint : written[j] = NaN /\ ~faulted[j]
    BY DEF Init, All
  <1>5. ValuesInv
    BY <1>2, <1>4 DEF ValuesInv, OrderInv, SentInv, MaskInv
  <1>6. WakeInv
    BY DEF Init, WakeInv, Joining, NoCall, Calling, At
  <1>7. QED
    BY <1>1, <1>3, <1>5, <1>6 DEF IInv, ValuesInv

\* Every step preserves it: types, places and values, each from all three.
LEMMA AsyncInductive == IInv /\ [Next]_vars => IInv'
  <1> SUFFICES ASSUME IInv, [Next]_vars PROVE IInv'
    OBVIOUS
  <1>1. TypeOK /\ SerialInv /\ LifeInv /\ WakeInv /\ ValuesInv
    BY DEF IInv, ValuesInv
  <1>2. TypeOK'
    BY <1>1, TypesNext
  <1>3. SerialInv' /\ LifeInv'
    <2>1. CASE UNCHANGED vars
      BY <1>1, <2>1 DEF vars, control, rtlocals, flags, SerialInv, LifeInv, Joinable, InCycle, InRtCall
    <2>2. QED
      BY <1>1, <2>1, PlaceWorker, PlaceLoop, PlaceService DEF Next
  <1>4. ValuesInv'
    <2>1. CASE Worker
      <3>1. ASSUME NEW i \in Joint, NEW s \in Status,
                   WorkerMasked(i) \/ WorkerNothing(i) \/ WorkerIdleOnFault(i, s) \/ WorkerCommand(i, s)
            PROVE  ValuesInv'
        BY <1>1, <3>1, ValuesWrite
      <3>2. ASSUME NEW i \in Joint, NEW s \in Status, WorkerRead(i, s) PROVE ValuesInv'
        BY <1>1, <3>2, ValuesRead
      <3>3. "ok" \in Status
        BY DEF Status
      <3>4. QED
        BY <1>1, <2>1, <3>1, <3>2, <3>3, ValuesGate, ValuesEnds DEF Worker
    <2>2. CASE UNCHANGED vars
      BY <1>1, <2>2, ValuesCarried
         DEF vars, InCycle, Joinable, carried, rtlocals, joints, exchange, cycle, memory, world
    <2>3. QED
      BY <1>1, <2>1, <2>2, ValuesLoop, ValuesService, ValuesEnvironment DEF Next
  <1>5. WakeInv'
    <2>1. CASE UNCHANGED vars
      BY <1>1, <2>1, WakeKept DEF vars, control, flags, Joinable
    <2>2. QED
      BY <1>1, <2>1, WakeWorker, WakeLoop, WakeService DEF Next
  <1>6. QED
    BY <1>2, <1>3, <1>4, <1>5 DEF IInv, ValuesInv

\* So every state satisfies it.
LEMMA AsyncInvariant == Spec => []IInv
  BY AsyncInit, AsyncInductive, PTL DEF Spec

-----------------------------------------------------------------------------
(* The properties.                                                         *)

\* Every variable keeps its type.
THEOREM AsyncTyping == Spec => []TypeOK
  BY AsyncInvariant, PTL DEF IInv

\* The mode switch and the bodies of the lifecycle callbacks never meet a cycle of the worker,
\* with which they share the transport without a lock.
THEOREM ExclusiveHolds == Spec => []TransportIsExclusive
  <1>1. IInv => TransportIsExclusive
    <2> SUFFICES ASSUME IInv, InCycle, rt = "perform" \/ (svc # NoCall /\ svc.pc = "body") PROVE FALSE
      BY DEF TransportIsExclusive
    <2>1. svc # NoCall /\ svc.pc = "body" => svc.call # "none"
      BY DEF IInv, TypeOK, NoCall, Calling
    <2>2. Joinable
      BY DEF InCycle, Joinable
    <2>3. QED
      BY <2>1, <2>2 DEF IInv, SerialInv
  <1>2. QED
    BY <1>1, AsyncInvariant, PTL

\* Only an active component has a worker, and only a worker has a cycle in flight.
THEOREM NoWorkerHolds == Spec => []NoWorkerLeftBehind
  <1>1. IInv => NoWorkerLeftBehind
    BY DEF IInv, LifeInv, NoWorkerLeftBehind, InCycle, Joinable
  <1>2. QED
    BY <1>1, AsyncInvariant, PTL

\* No notification is lost between the control loop and the service thread: the worker does not
\* sleep on a request that nobody will announce, and never while it is joined.
THEOREM WakeupHolds == Spec => []NoLostWakeup
  <1>1. IInv => NoLostWakeup
    BY DEF IInv, WakeInv, NoLostWakeup, Joining, Joinable
  <1>2. QED
    BY <1>1, AsyncInvariant, PTL

\* With gate_stale_commands the worker does not send again what the drive has acknowledged,
\* between two activations.
THEOREM SentHolds == Spec => SentOnce
  <1>1. IInv /\ [Next]_vars =>
          [gate_stale_commands =>
             \A j \in Joint : WorkerCommand(j, "ok") => command.seq[j] # written[j] \/ reactivated[j]]_vars
    <2> SUFFICES ASSUME IInv, gate_stale_commands, NEW j \in Joint, WorkerCommand(j, "ok"),
                        command.seq[j] = written[j], ~reactivated[j]
                 PROVE  FALSE
      OBVIOUS
    <2>1. command.seq[j] \in Sequence
      BY DEF IInv, TypeOK, Command
    <2>2. command.seq[j] \in Nat /\ written[j] # NaN
      BY <2>1, SequenceFacts
    <2>3. InCycle /\ command.seq[j] # last_sent[j]
      BY DEF WorkerCommand, Sends, Stale, InCycle, At
    <2>4. written[j] <= last_sent[j] /\ last_sent[j] \in Nat /\ last_sent[j] <= command.seq[j]
      BY <2>2, <2>3, SequenceFacts DEF IInv, SentInv
    <2>5. QED
      BY <2>2, <2>3, <2>4
  <1>2. QED
    BY <1>1, AsyncInvariant, PTL DEF Spec, SentOnce

\* With mask_faulted_axes the worker commands no axis whose fault an accepted sample has shown.
THEOREM WorkerMaskHolds == Spec => FaultedAxisIsMasked
  <1>1. IInv /\ [Next]_vars =>
          [mask_faulted_axes =>
             \A j \in Joint : WorkerCommand(j, "ok") /\ faulted[j] => missed[j]]_vars
    <2> SUFFICES ASSUME IInv, mask_faulted_axes, NEW j \in Joint, WorkerCommand(j, "ok"), faulted[j]
                 PROVE  missed[j]
      OBVIOUS
    <2>1. InCycle /\ ~snapshot.errors[j]
      BY DEF WorkerCommand, Sends, HasFault, InCycle, At
    <2>2. QED
      BY <2>1 DEF IInv, MaskInv, Counting
  <1>2. QED
    BY <1>1, AsyncInvariant, PTL DEF Spec, FaultedAxisIsMasked
=============================================================================
