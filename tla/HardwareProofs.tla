---------------------------- MODULE HardwareProofs ----------------------------
(***************************************************************************)
(* Proofs about ODriveHardwareInterface: the types of its variables, one   *)
(* lemma per handler; the serialisation of the threads that makes the      *)
(* unlocked uses of transport_ sound, the lifecycle gate, the watchdog     *)
(* discipline of the mode switch; and the masking of faulted axes, whose   *)
(* error interfaces cover the errors latched in their drives.              *)
(***************************************************************************)
EXTENDS ODriveHardwareInterface, TLAPS

(* Types.                                                                  *)

\* There is a first joint, and the one behind any but the last is a joint.
LEMMA JointFacts == 1 \in Joint /\ \A i \in Joint : i < N => i + 1 \in Joint
  BY ConstantsAssumption DEF Joint

\* The loops of read() and write() over the joints stay within the joints.
LEMMA NextJointType ==
  ASSUME NEW loop, NEW done, NEW i \in Joint
  PROVE  \/ NextJoint(loop, i, done) = At(done, 1)
         \/ i + 1 \in Joint /\ NextJoint(loop, i, done) = At(loop, i + 1)
  BY JointFacts DEF NextJoint

\* Each request leaves the axis an axis.
LEMMA AxisOperations ==
  ASSUME NEW a \in Axis
  PROVE  /\ RequestIdle(a) \in Axis
         /\ RequestClosedLoop(a) \in Axis
         /\ \A on \in BOOLEAN : EnableWatchdog(a, on) \in Axis
         /\ FeedWatchdog(a) \in Axis
         /\ ClearErrors(a) \in Axis
  BY DEF Axis, RequestIdle, RequestClosedLoop, EnableWatchdog, FeedWatchdog, ClearErrors

\* A transaction that is answered, lost or half-lost leaves every axis an axis.
LEMMA TransferType ==
  ASSUME TypeOK, NEW j \in Joint, NEW a \in Axis, NEW s, Transfer(j, a, s)
  PROVE  drive' \in [Joint -> Axis]
  BY DEF TypeOK, Transfer

\* The sticky error of the transport makes an open one dead and nothing else.
LEMMA WornType ==
  ASSUME TypeOK, NEW s
  PROVE  Worn(s) \in {"null", "open", "dead"}
  BY DEF TypeOK, Worn

\* reset_runtime_state() gives every interface it resets a value of its type.
LEMMA ResetType == ResetRuntimeState =>
    /\ outputs_enabled' \in BOOLEAN
    /\ control_level' \in [Joint -> Levels \cup {UNDEFINED}]
    /\ joint_claimed' \in [Joint -> BOOLEAN]
    /\ errors' \in [Joint -> SUBSET Faults]
    /\ healthy' \in [Joint -> BOOLEAN]
    /\ idle_requested_on_fault' \in [Joint -> BOOLEAN]
    /\ new_command' \in [Joint -> BOOLEAN]
  BY ConstantsAssumption DEF ResetRuntimeState, AllUnhealthy

\* read() keeps the types at its start and at each joint, early returns included.
LEMMA ReadKeepsTypes ==
  ASSUME TypeOK
  PROVE  /\ \A s \in {"ok", "soft", "fatal"} : StartRead(s) => TypeOK'
         /\ \A i \in Joint, s \in {"ok", "soft", "fatal"} : ReadJoint(i, s) => TypeOK'
  <1>1. ASSUME NEW s \in {"ok", "soft", "fatal"}, StartRead(s)
        PROVE  TypeOK'
    BY <1>1, WornType, JointFacts
       DEF StartRead, TypeOK, At, AllUnhealthy, threads, RtPc
  <1>2. ASSUME NEW i \in Joint, NEW s \in {"ok", "soft", "fatal"}, ReadJoint(i, s)
        PROVE  TypeOK'
    <2>1. drive[i] \in Axis /\ drive[i].err \in SUBSET Faults
      BY DEF TypeOK, Axis
    <2>2. drive' \in [Joint -> Axis]
      BY <1>2, <2>1, TransferType DEF ReadJoint
    <2>3. rt' \in [pc : RtPc, i : Joint]
      BY <1>2, JointFacts, NextJointType DEF ReadJoint, At, RtPc
    <2>4. /\ errors' \in [Joint -> SUBSET Faults]
          /\ healthy' \in [Joint -> BOOLEAN]
          /\ missed' \in [Joint -> BOOLEAN]
      BY <1>2, <2>1 DEF ReadJoint, TypeOK, AllUnhealthy
    <2>5. transport' \in {"null", "open", "dead"}
      BY <1>2, WornType DEF ReadJoint
    <2> QED
      BY <1>2, <2>2, <2>3, <2>4, <2>5 DEF ReadJoint, TypeOK, threads
  <1> QED
    BY <1>1, <1>2

\* perform_command_mode_switch() returns to the control loop.
LEMMA PerformReturnsType == PerformReturns =>
    rt' \in [pc : RtPc, i : Joint] /\ mode_switch' \in {"none", "prepared"}
  BY JointFacts DEF PerformReturns, At, RtPc

\* A step of perform_command_mode_switch() goes on at the same joint.
LEMMA PerformGoesOnType ==
  ASSUME TypeOK, NEW pc \in PerformPc, NEW i \in Joint, PerformGoesOn(pc, i)
  PROVE  rt' \in [pc : RtPc, i : Joint] /\ mode_switch' \in {"none", "prepared"}
  BY DEF PerformGoesOn, At, RtPc, TypeOK

\* The loop of perform_command_mode_switch() ends or goes on at a joint.
LEMMA PerformNextJointType ==
  ASSUME TypeOK, NEW i \in Joint, PerformNextJoint(i)
  PROVE  rt' \in [pc : RtPc, i : Joint] /\ mode_switch' \in {"none", "prepared"}
  BY JointFacts, PerformReturnsType, PerformGoesOnType DEF PerformNextJoint, PerformPc

\* The claim transition of a mode switch keeps the types, whatever fails.
LEMMA ClaimKeepsTypes ==
  ASSUME TypeOK, NEW i \in Joint, NEW s \in {"ok", "soft", "fatal"},
         \/ ClaimEnableWatchdog(i, s) \/ ClaimFeedWatchdog(i, s)
         \/ ClaimReadError(i, s) \/ ClaimClearErrors(i, s)
  PROVE  TypeOK'
  <1>1. drive[i] \in Axis /\ drive[i].err \in SUBSET Faults
    BY DEF TypeOK, Axis
  <1>2. drive' \in [Joint -> Axis]
    BY <1>1, AxisOperations, TransferType
       DEF ClaimEnableWatchdog, ClaimFeedWatchdog, ClaimReadError, ClaimClearErrors
  <1>3. rt' \in [pc : RtPc, i : Joint] /\ mode_switch' \in {"none", "prepared"}
    <2>1. PICK pc \in PerformPc : PerformReturns \/ PerformGoesOn(pc, i)
      BY DEF ClaimEnableWatchdog, ClaimFeedWatchdog, ClaimReadError, ClaimClearErrors, PerformPc
    <2> QED
      BY <2>1, PerformReturnsType, PerformGoesOnType
  <1>4. transport' \in {"null", "open", "dead"}
    BY WornType
       DEF ClaimEnableWatchdog, ClaimFeedWatchdog, ClaimReadError, ClaimClearErrors
  <1>5. errors' \in [Joint -> SUBSET Faults] /\ lapse' \in [Joint -> BOOLEAN]
    <2>1. CASE ClaimEnableWatchdog(i, s) \/ ClaimFeedWatchdog(i, s)
      BY <2>1 DEF ClaimEnableWatchdog, ClaimFeedWatchdog, SetLapse, TypeOK
    <2>2. CASE ClaimReadError(i, s)
      BY <2>2, <1>1 DEF ClaimReadError, TypeOK
    <2>3. CASE ClaimClearErrors(i, s)
      BY <2>3 DEF ClaimClearErrors, TypeOK
    <2> QED
      BY <2>1, <2>2, <2>3
  <1> QED
    BY <1>2, <1>3, <1>4, <1>5
       DEF ClaimEnableWatchdog, ClaimFeedWatchdog, ClaimReadError, ClaimClearErrors,
           PerformKeeps, TypeOK

\* The unclaim transition and the switch of the axis keep the types.
LEMMA UnclaimKeepsTypes ==
  ASSUME TypeOK, NEW i \in Joint, NEW s \in {"ok", "soft", "fatal"},
         \/ UnclaimIdle(i, s) \/ UnclaimDisableWatchdog(i, s) \/ SwitchAxisMode(i, s)
  PROVE  TypeOK'
  <1>1. drive[i] \in Axis
    BY DEF TypeOK
  <1>2. drive' \in [Joint -> Axis]
    BY <1>1, AxisOperations, TransferType
       DEF UnclaimIdle, UnclaimDisableWatchdog, SwitchAxisMode
  <1>3. rt' \in [pc : RtPc, i : Joint] /\ mode_switch' \in {"none", "prepared"}
    BY PerformReturnsType, PerformGoesOnType, PerformNextJointType
       DEF UnclaimIdle, UnclaimDisableWatchdog, SwitchAxisMode, PerformPc
  <1>4. transport' \in {"null", "open", "dead"}
    BY WornType DEF UnclaimIdle, UnclaimDisableWatchdog, SwitchAxisMode
  <1>5. lapse' \in [Joint -> BOOLEAN]
    BY DEF UnclaimIdle, UnclaimDisableWatchdog, SwitchAxisMode, SetLapse, TypeOK
  <1>6. joint_claimed' \in [Joint -> BOOLEAN]
    BY DEF UnclaimIdle, UnclaimDisableWatchdog, SwitchAxisMode, TypeOK
  <1> QED
    BY <1>2, <1>3, <1>4, <1>5, <1>6
       DEF UnclaimIdle, UnclaimDisableWatchdog, SwitchAxisMode, PerformKeeps, TypeOK

\* The steps of a mode switch that only decide keep the types.
LEMMA PerformStepKeepsTypes ==
  ASSUME TypeOK, NEW i \in Joint, PerformJoint(i) \/ MaskFaultedJoint(i)
  PROVE  TypeOK'
  <1>1. CASE PerformJoint(i)
    <2>1. rt' \in [pc : RtPc, i : Joint] /\ mode_switch' \in {"none", "prepared"}
      BY <1>1, PerformGoesOnType DEF PerformJoint, PerformPc
    <2> QED
      BY <1>1, <2>1 DEF PerformJoint, PerformKeeps, TypeOK
  <1>2. CASE MaskFaultedJoint(i)
    <2>1. rt' \in [pc : RtPc, i : Joint] /\ mode_switch' \in {"none", "prepared"}
      BY <1>2, PerformGoesOnType, PerformNextJointType DEF MaskFaultedJoint, PerformPc
    <2> QED
      BY <1>2, <2>1 DEF MaskFaultedJoint, PerformKeeps, TypeOK
  <1> QED
    BY <1>1, <1>2

\* An update of the controllers keeps the types.
LEMMA UpdateKeepsTypes ==
  ASSUME TypeOK, NEW commanded \in SUBSET Joint, Update(commanded)
  PROVE  TypeOK'
  BY JointFacts DEF Update, TypeOK, At, RtPc, PerformPc

\* prepare_command_mode_switch() asks for one of the control levels or for none.
LEMMA PrepareKeepsTypes ==
  ASSUME TypeOK, NEW stop \in SUBSET Joint, NEW start \in [Joint -> SUBSET Levels],
         PrepareCommandModeSwitch(stop, start)
  PROVE  TypeOK'
  <1>1. ASSUME NEW j \in Joint, start[j] # {}
        PROVE  Requested(start[j]) \in Levels
    BY <1>1, ConstantsAssumption DEF Requested, AxisControlLevel
  <1>2. control_level' \in [Joint -> Levels \cup {UNDEFINED}]
    BY <1>1 DEF PrepareCommandModeSwitch, TypeOK
  <1> QED
    BY <1>2 DEF PrepareCommandModeSwitch, TypeOK

\* write() goes on at the next joint or returns, with or without its transport.
LEMMA WriteGoesOnType ==
  ASSUME TypeOK, NEW i \in Joint, NEW s, WriteGoesOn(i, s)
  PROVE  rt' \in [pc : RtPc, i : Joint] /\ transport' \in {"null", "open", "dead"}
  BY JointFacts, NextJointType DEF WriteGoesOn, At, RtPc, TypeOK

\* write() keeps the types at each joint: masked, idled, skipped or commanded.
LEMMA WriteKeepsTypes ==
  ASSUME TypeOK, NEW i \in Joint, NEW s \in {"ok", "soft", "fatal"},
         \/ WriteIdleOnFault(i, s) \/ WriteMasked(i)
         \/ WriteNothing(i) \/ WriteCommand(i, s)
  PROVE  TypeOK'
  <1>1. drive[i] \in Axis
    BY DEF TypeOK
  <1>2. drive' \in [Joint -> Axis]
    <2>1. CASE WriteIdleOnFault(i, s)
      BY <2>1, <1>1, AxisOperations, TransferType DEF WriteIdleOnFault
    <2>2. CASE WriteMasked(i) \/ WriteNothing(i)
      BY <2>2 DEF WriteMasked, WriteNothing, TypeOK
    <2>3. CASE WriteCommand(i, s)
      BY <2>3, <1>1, AxisOperations, TransferType DEF WriteCommand
    <2> QED
      BY <2>1, <2>2, <2>3
  <1>3. rt' \in [pc : RtPc, i : Joint] /\ transport' \in {"null", "open", "dead"}
    BY WriteGoesOnType DEF WriteIdleOnFault, WriteMasked, WriteNothing, WriteCommand
  <1>4. /\ idle_requested_on_fault' \in [Joint -> BOOLEAN]
        /\ new_command' \in [Joint -> BOOLEAN]
    BY DEF WriteIdleOnFault, WriteMasked, WriteNothing, WriteCommand, TypeOK
  <1> QED
    BY <1>2, <1>3, <1>4
       DEF WriteIdleOnFault, WriteMasked, WriteNothing, WriteCommand, WriteKeeps, threads, TypeOK

\* The entry of write(), with its lifecycle gate, keeps the types.
LEMMA StartWriteKeepsTypes == TypeOK /\ StartWrite => TypeOK'
  BY JointFacts DEF StartWrite, TypeOK, threads, host, At, RtPc

\* The places of the service thread are places.
LEMMA ServiceAtType ==
  /\ \A pc \in SvcPc, i \in Joint : At(pc, i) \in [pc : SvcPc, i : Joint]
  /\ "none" \in SvcPc /\ "deactivate_lock" \in SvcPc /\ "deactivate_idle" \in SvcPc
  /\ "activate_configure" \in SvcPc /\ "activate_enable" \in SvcPc
  /\ "activate_clear" \in SvcPc
  BY DEF At, SvcPc, DeactivatePc

\* The loops of on_activate() and on_deactivate() over the joints keep the types.
LEMMA ActivateKeepsTypes ==
  ASSUME TypeOK, NEW i \in Joint, NEW s \in {"ok", "soft", "fatal"},
         ActivateConfigure(i, s) \/ ActivateClear(i, s) \/ DeactivateIdle(i, s)
  PROVE  TypeOK'
  <1>1. drive[i] \in Axis
    BY DEF TypeOK
  <1>2. drive' \in [Joint -> Axis]
    BY <1>1, AxisOperations, TransferType DEF ActivateConfigure, ActivateClear, DeactivateIdle
  <1>3. svc' \in [pc : SvcPc, i : Joint]
    <2>1. CASE ActivateConfigure(i, s)
      <3>1. NextJoint("activate_configure", i, "activate_enable") \in [pc : SvcPc, i : Joint]
        BY JointFacts, NextJointType, ServiceAtType
      <3>2. At("none", 1) \in [pc : SvcPc, i : Joint]
        BY JointFacts, ServiceAtType
      <3> QED
        BY <2>1, <3>1, <3>2 DEF ActivateConfigure, Returns
    <2>2. CASE ActivateClear(i, s) \/ DeactivateIdle(i, s)
      <3>1. At("none", 1) \in [pc : SvcPc, i : Joint]
        BY JointFacts, ServiceAtType
      <3>2. i < N => /\ At("activate_clear", i + 1) \in [pc : SvcPc, i : Joint]
                     /\ At("deactivate_idle", i + 1) \in [pc : SvcPc, i : Joint]
        BY JointFacts, ServiceAtType
      <3>3. CASE ActivateClear(i, s)
        BY <3>3, <3>1, <3>2 DEF ActivateClear, Returns
      <3>4. CASE DeactivateIdle(i, s)
        BY <3>4, <3>1, <3>2 DEF DeactivateIdle, Returns
      <3> QED
        BY <2>2, <3>3, <3>4
    <2> QED
      BY <2>1, <2>2
  <1>4. transport' \in {"null", "open", "dead"}
    BY WornType DEF ActivateConfigure, ActivateClear, DeactivateIdle, TypeOK
  <1>5. /\ lifecycle' \in {"unconfigured", "inactive", "active", "finalized"}
        /\ outputs_enabled' \in BOOLEAN
        /\ lapse' \in [Joint -> BOOLEAN]
    BY DEF ActivateConfigure, ActivateClear, DeactivateIdle, Returns, GatedOutputs, SetLapse,
           TypeOK
  <1> QED
    BY <1>2, <1>3, <1>4, <1>5
       DEF ActivateConfigure, ActivateClear, DeactivateIdle, CallbackKeeps, host, TypeOK

\* The steps of on_activate() and on_deactivate() without a transaction keep the types.
LEMMA CallbackStepsKeepTypes ==
  ASSUME TypeOK, ActivateEnable \/ DeactivateGate \/ DeactivateLock
  PROVE  TypeOK'
  <1>1. svc' \in [pc : SvcPc, i : Joint]
    <2>1. \A pc \in SvcPc : At(pc, 1) \in [pc : SvcPc, i : Joint]
      BY JointFacts, ServiceAtType
    <2>2. CASE ActivateEnable
      BY <2>1, <2>2, ServiceAtType DEF ActivateEnable
    <2>3. CASE DeactivateGate
      BY <2>1, <2>3, ServiceAtType DEF DeactivateGate
    <2>4. CASE DeactivateLock
      BY <2>1, <2>4, ServiceAtType DEF DeactivateLock, Returns, TypeOK
    <2> QED
      BY <2>2, <2>3, <2>4
  <1> QED
    BY <1>1 DEF ActivateEnable, DeactivateGate, DeactivateLock, Returns, GatedOutputs,
                CallbackKeeps, host, TypeOK

\* The other lifecycle callbacks, and a restart of the host, keep the types.
LEMMA LifecycleKeepsTypes ==
  ASSUME TypeOK,
         \/ \E found \in BOOLEAN : ActivateOpen(found)
         \/ OnCleanup \/ OnConfigure \/ Recover \/ HostRestart
  PROVE  TypeOK'
  <1>1. ASSUME NEW found \in BOOLEAN, ActivateOpen(found)
        PROVE  TypeOK'
    <2>1. svc' \in [pc : SvcPc, i : Joint]
      BY <1>1, JointFacts, ServiceAtType DEF ActivateOpen, Returns
    <2> QED
      BY <1>1, <2>1 DEF ActivateOpen, Returns, GatedOutputs, CallbackKeeps, host, TypeOK
  <1>2. CASE OnCleanup
    BY <1>2, ResetType DEF OnCleanup, TypeOK
  <1>3. CASE OnConfigure
    BY <1>3 DEF OnConfigure, host, TypeOK
  <1>4. CASE Recover
    BY <1>4, ResetType DEF Recover, TypeOK
  <1>5. CASE HostRestart
    BY <1>5, ResetType, JointFacts DEF HostRestart, At, RtPc, SvcPc, TypeOK
  <1> QED
    BY <1>1, <1>2, <1>3, <1>4, <1>5

\* What the drives do by themselves, watchdog and faults, keeps the types.
LEMMA DrivesKeepTypes == TypeOK /\ Drives => TypeOK'
  <1> SUFFICES ASSUME TypeOK, NEW j \in Joint,
                      \/ WatchdogTick(j)
                      \/ WatchdogExpire(j)
                      \/ \E f \in Faults \ {"watchdog"}, stops \in BOOLEAN : AxisFault(j, f, stops)
               PROVE  TypeOK'
    BY DEF Drives
  <1>1. ASSUME NEW f \in Faults
        PROVE  Latch(drive[j], f) \in Axis /\ RequestIdle(Latch(drive[j], f)) \in Axis
    <2>1. drive[j] \in Axis
      BY DEF TypeOK
    <2>2. Latch(drive[j], f) \in Axis
      BY <2>1 DEF Axis, Latch
    <2> QED
      BY <2>2, AxisOperations
  <1>2. CASE WatchdogTick(j)
    <2>1. drive[j] \in Axis
      BY DEF TypeOK
    <2>2. [drive[j] EXCEPT !.fed = FALSE] \in Axis
      BY <2>1 DEF Axis
    <2>3. drive' \in [Joint -> Axis]
      BY <1>2, <2>2 DEF WatchdogTick, TypeOK
    <2> QED
      BY <1>2, <2>3 DEF WatchdogTick, threads, host, TypeOK
  <1>3. CASE WatchdogExpire(j)
    BY <1>3, <1>1, ConstantsAssumption DEF WatchdogExpire, threads, host, TypeOK
  <1>4. ASSUME NEW f \in Faults \ {"watchdog"}, NEW stops \in BOOLEAN, AxisFault(j, f, stops)
        PROVE  TypeOK'
    BY <1>4, <1>1 DEF AxisFault, threads, host, TypeOK
  <1> QED
    BY <1>2, <1>3, <1>4

\* No step of the control loop, the callbacks, the framework or the drives breaks a
\* type.
LEMMA NextKeepsTypes == TypeOK /\ [Next]_vars => TypeOK'
  <1> SUFFICES ASSUME TypeOK, [Next]_vars
               PROVE  TypeOK'
    OBVIOUS
  <1>1. CASE ControlLoop
    <2>1. ASSUME NEW s \in {"ok", "soft", "fatal"}, NEW i \in Joint, RtTransaction(i, s)
          PROVE  TypeOK'
      BY <2>1, ReadKeepsTypes, ClaimKeepsTypes, UnclaimKeepsTypes, WriteKeepsTypes
         DEF RtTransaction
    <2>2. ASSUME NEW i \in Joint, WriteMasked(i) \/ WriteNothing(i)
          PROVE  TypeOK'
      BY <2>2, WriteKeepsTypes
    <2> QED
      BY <1>1, <2>1, <2>2, ReadKeepsTypes, PerformStepKeepsTypes, UpdateKeepsTypes,
         StartWriteKeepsTypes
         DEF ControlLoop
  <1>2. CASE Callback
    BY <1>2, ActivateKeepsTypes, CallbackStepsKeepTypes DEF Callback
  <1>3. CASE Framework
    BY <1>3, PrepareKeepsTypes, CallbackStepsKeepTypes, LifecycleKeepsTypes DEF Framework
  <1>4. CASE Drives
    BY <1>4, DrivesKeepTypes
  <1>5. CASE UNCHANGED vars
    BY <1>5 DEF vars, host, threads, TypeOK
  <1> QED
    BY <1>1, <1>2, <1>3, <1>4, <1>5 DEF Next

\* A component that was just configured is well typed.
LEMMA InitTypes == Init => TypeOK
  <1> SUFFICES ASSUME Init
               PROVE  TypeOK
    OBVIOUS
  <1>1. drive \in [Joint -> Axis]
    BY DEF Init, Axis
  <1>2. rt \in [pc : RtPc, i : Joint] /\ svc \in [pc : SvcPc, i : Joint]
    BY JointFacts, ServiceAtType DEF Init, At, RtPc
  <1>3. new_command \in [Joint -> BOOLEAN]
    BY ConstantsAssumption DEF Init
  <1>4. errors \in [Joint -> SUBSET Faults] /\ control_level \in [Joint -> Levels \cup {UNDEFINED}]
    BY DEF Init
  <1> QED
    BY <1>1, <1>2, <1>3, <1>4 DEF Init, TypeOK, AllUnhealthy

\* Every variable of the component keeps its type, for any number of joints, any set
\* of control levels and faults, and whatever fails in read(), write(), the mode
\* switch and the lifecycle callbacks.
THEOREM Typing == Spec => []TypeOK
  <1> QED
    BY InitTypes, NextKeepsTypes, PTL DEF Spec

-----------------------------------------------------------------------------
(* Threads, gate and watchdogs.                                            *)

ActivatePc == {"activate_configure", "activate_enable", "activate_clear"}

\* Who may be where at the same time.
SerialInv ==
    /\ rt.pc \in PerformPc => mode_switch = "prepared"
    /\ svc.pc # "none" => mode_switch = "none"
    /\ rt.pc \in {"read", "write"} => svc.pc \in {"none", "deactivate_lock"}
    /\ svc.pc \in ActivatePc => ~InRtCall

\* Where the component's lifecycle stands during a callback, and behind the gate.
GateInv ==
    /\ svc.pc \in ActivatePc => lifecycle = "inactive"
    /\ svc.pc \in DeactivatePc => lifecycle = "active"
    /\ gate_outputs_with_lifecycle /\ outputs_enabled
         => /\ lifecycle \in {"active", "finalized"} \/ svc.pc = "activate_clear"
            /\ svc.pc \notin DeactivatePc
    /\ gate_outputs_with_lifecycle /\ rt.pc = "write" => lifecycle = "active"

\* A joint that is claimed is watched, but for the moment between the disarming
\* of its watchdog and the end of its mode switch, when it is not closed either.
Disarming(j) == rt.i = j /\ rt.pc \in {"mask", "switch"} /\ control_level[j] = UNDEFINED
InUse(j) == joint_claimed[j] /\ transport # "null"
              /\ svc.pc \notin {"activate_configure", "activate_enable"}
WatchJoint(j) ==
    /\ drive[j].state = "closed" => Watched(j)
    /\ InUse(j) => Watched(j) \/ Disarming(j)
    /\ rt.i = j /\ rt.pc \in {"claim_feed", "claim_read", "claim_clear"} => Watched(j)
    /\ rt.i = j /\ rt.pc \in {"mask", "switch"} /\ control_level[j] # UNDEFINED => Watched(j)
    /\ rt.i = j /\ rt.pc \in {"unclaim_idle", "unclaim_wd"} => control_level[j] = UNDEFINED
    /\ rt.i = j /\ rt.pc = "unclaim_wd" => drive[j].state = "idle" \/ lapse[j]
WatchInv == \A j \in WatchdogJoints : WatchJoint(j)

-----------------------------------------------------------------------------
(* The threads and the transport.                                          *)

\* A step of perform_command_mode_switch() stays in the loop or returns, and
\* never resets the transport.
LEMMA PerformSteps ==
  ASSUME NEW i \in Joint, NEW s,
         \/ PerformJoint(i) \/ MaskFaultedJoint(i)
         \/ ClaimEnableWatchdog(i, s) \/ ClaimFeedWatchdog(i, s)
         \/ ClaimReadError(i, s) \/ ClaimClearErrors(i, s)
         \/ UnclaimIdle(i, s) \/ UnclaimDisableWatchdog(i, s) \/ SwitchAxisMode(i, s)
  PROVE  /\ rt.pc \in PerformPc
         /\ rt'.pc = "await_write" \/ (rt'.pc \in PerformPc /\ mode_switch' = mode_switch)
         /\ UNCHANGED <<svc, lifecycle, outputs_enabled>>
         /\ transport # "null" => transport' # "null"
  <1> USE DEF InPerform, PerformGoesOn, PerformNextJoint, PerformReturns, PerformKeeps, At,
              PerformPc, Worn
  <1>1. CASE PerformJoint(i)
    BY <1>1 DEF PerformJoint
  <1>2. CASE MaskFaultedJoint(i)
    BY <1>2 DEF MaskFaultedJoint
  <1>3. CASE ClaimEnableWatchdog(i, s)
    BY <1>3 DEF ClaimEnableWatchdog, SetLapse
  <1>4. CASE ClaimFeedWatchdog(i, s)
    BY <1>4 DEF ClaimFeedWatchdog
  <1>5. CASE ClaimReadError(i, s)
    BY <1>5 DEF ClaimReadError
  <1>6. CASE ClaimClearErrors(i, s)
    BY <1>6 DEF ClaimClearErrors
  <1>7. CASE UnclaimIdle(i, s)
    BY <1>7 DEF UnclaimIdle
  <1>8. CASE UnclaimDisableWatchdog(i, s)
    BY <1>8 DEF UnclaimDisableWatchdog
  <1>9. CASE SwitchAxisMode(i, s)
    BY <1>9 DEF SwitchAxisMode
  <1> QED
    BY <1>1, <1>2, <1>3, <1>4, <1>5, <1>6, <1>7, <1>8, <1>9

\* A step of write() stays in the loop or returns; only on returning does it
\* reset the transport.
LEMMA WriteSteps ==
  ASSUME NEW i \in Joint, NEW s,
         \/ WriteIdleOnFault(i, s) \/ WriteMasked(i) \/ WriteNothing(i) \/ WriteCommand(i, s)
  PROVE  /\ rt.pc = "write"
         /\ rt'.pc = "idle" \/ (rt'.pc = "write" /\ transport' = transport)
         /\ UNCHANGED <<svc, mode_switch, lifecycle, outputs_enabled>>
  <1> USE DEF WriteGoesOn, WriteKeeps, NextJoint, At, threads
  <1>1. CASE WriteIdleOnFault(i, s)
    BY <1>1 DEF WriteIdleOnFault
  <1>2. CASE WriteMasked(i)
    BY <1>2 DEF WriteMasked
  <1>3. CASE WriteNothing(i)
    BY <1>3 DEF WriteNothing
  <1>4. CASE WriteCommand(i, s)
    BY <1>4 DEF WriteCommand
  <1> QED
    BY <1>1, <1>2, <1>3, <1>4

\* The serialisation is inductive together with the transport's presence: what
\* the lock leaves open, the framework's serialisation of callbacks closes.
LEMMA SerialInductive ==
  ASSUME TypeOK, SerialInv, TransportStaysWhileUsed, [Next]_vars
  PROVE  SerialInv' /\ TransportStaysWhileUsed'
  <1> USE DEF SerialInv, TransportStaysWhileUsed
  <1>1. ASSUME NEW i \in Joint, NEW s,
               \/ PerformJoint(i) \/ MaskFaultedJoint(i)
               \/ ClaimEnableWatchdog(i, s) \/ ClaimFeedWatchdog(i, s)
               \/ ClaimReadError(i, s) \/ ClaimClearErrors(i, s)
               \/ UnclaimIdle(i, s) \/ UnclaimDisableWatchdog(i, s) \/ SwitchAxisMode(i, s)
        PROVE  SerialInv' /\ TransportStaysWhileUsed'
    BY <1>1, PerformSteps DEF InRtCall, PerformPc, ActivatePc, TypeOK
  <1>2. ASSUME NEW i \in Joint, NEW s,
               \/ WriteIdleOnFault(i, s) \/ WriteMasked(i)
               \/ WriteNothing(i) \/ WriteCommand(i, s)
        PROVE  SerialInv' /\ TransportStaysWhileUsed'
    BY <1>2, WriteSteps DEF InRtCall, PerformPc, ActivatePc
  <1>3. ASSUME NEW s, StartRead(s)
        PROVE  SerialInv' /\ TransportStaysWhileUsed'
    BY <1>3 DEF StartRead, threads, MayCallFromRt, DeactivateHoldsLock, DeactivatePc, At, Worn,
                InRtCall, PerformPc, ActivatePc
  <1>4. ASSUME NEW i \in Joint, NEW s, ReadJoint(i, s)
        PROVE  SerialInv' /\ TransportStaysWhileUsed'
    BY <1>4 DEF ReadJoint, threads, NextJoint, At, Worn, InRtCall, PerformPc, ActivatePc
  <1>5. ASSUME NEW commanded, Update(commanded)
        PROVE  SerialInv' /\ TransportStaysWhileUsed'
    BY <1>5 DEF Update, At, InRtCall, PerformPc, ActivatePc
  <1>6. CASE StartWrite
    BY <1>6 DEF StartWrite, threads, MayCallFromRt, DeactivateHoldsLock, DeactivatePc, At,
                InRtCall, PerformPc, ActivatePc
  <1>7. ASSUME NEW stop, NEW start, PrepareCommandModeSwitch(stop, start)
        PROVE  SerialInv' /\ TransportStaysWhileUsed'
    <2>1. svc.pc = "none" /\ mode_switch' = "prepared" /\ UNCHANGED <<rt, svc, transport>>
      BY <1>7 DEF PrepareCommandModeSwitch
    <2> QED
      BY <2>1 DEF InRtCall, ActivatePc
  <1>8. ASSUME NEW found \in BOOLEAN, ActivateOpen(found)
        PROVE  SerialInv' /\ TransportStaysWhileUsed'
    <2>1. /\ svc.pc = "none" /\ mode_switch = "none" /\ ~InRtCall
          /\ UNCHANGED <<rt, mode_switch>>
      BY <1>8 DEF ActivateOpen, MayCallLifecycle, CallbackKeeps
    <2>2. \/ svc'.pc = "none"
          \/ svc'.pc = "activate_configure" /\ transport' = "open"
      <3>1. CASE found
        BY <1>8, <3>1 DEF ActivateOpen, At
      <3>2. CASE ~found
        BY <1>8, <3>2 DEF ActivateOpen, Returns, At
      <3> QED
        BY <3>1, <3>2
    <2>3. rt.pc \notin {"read", "write"} \cup PerformPc
      BY <2>1 DEF InRtCall, RtPc, PerformPc
    <2> QED
      BY <2>1, <2>2, <2>3 DEF InRtCall, RtPc, PerformPc, ActivatePc
  <1>9. ASSUME NEW i \in Joint, NEW s, ActivateConfigure(i, s) \/ ActivateClear(i, s)
        PROVE  SerialInv' /\ TransportStaysWhileUsed'
    <2>1. svc.pc \in ActivatePc /\ UNCHANGED <<rt, mode_switch>>
      <3>1. CASE ActivateConfigure(i, s)
        BY <3>1 DEF ActivateConfigure, CallbackKeeps, At, ActivatePc
      <3>2. CASE ActivateClear(i, s)
        BY <3>2 DEF ActivateClear, CallbackKeeps, At, ActivatePc
      <3> QED
        BY <1>9, <3>1, <3>2
    <2>2. \/ svc'.pc = "none"
          \/ svc'.pc \in ActivatePc /\ transport' # "null"
      <3>1. CASE ActivateConfigure(i, s)
        <4>1. transport # "null"
          BY <3>1 DEF ActivateConfigure, At
        <4>2. CASE s = "ok"
          BY <3>1, <4>1, <4>2 DEF ActivateConfigure, NextJoint, At, ActivatePc
        <4>3. CASE s # "ok"
          BY <3>1, <4>3 DEF ActivateConfigure, Returns, At
        <4> QED
          BY <4>2, <4>3
      <3>2. CASE ActivateClear(i, s)
        BY <3>2, <2>1 DEF ActivateClear, Returns, At, Worn, ActivatePc
      <3> QED
        BY <1>9, <3>1, <3>2
    <2>3. rt.pc \notin {"read", "write"} \cup PerformPc /\ mode_switch = "none"
      BY <2>1 DEF InRtCall, RtPc, PerformPc, ActivatePc
    <2> QED
      BY <2>1, <2>2, <2>3 DEF InRtCall, RtPc, PerformPc, ActivatePc
  <1>10. CASE ActivateEnable
    BY <1>10 DEF ActivateEnable, CallbackKeeps, At, InRtCall, ActivatePc
  <1>11. CASE DeactivateGate
    BY <1>11 DEF DeactivateGate, MayCallLifecycle, CallbackKeeps, At, InRtCall, ActivatePc
  <1>12. CASE DeactivateLock
    BY <1>12 DEF DeactivateLock, RtHoldsLock, Returns, CallbackKeeps, At, InRtCall, ActivatePc
  <1>13. ASSUME NEW i \in Joint, NEW s, DeactivateIdle(i, s)
         PROVE  SerialInv' /\ TransportStaysWhileUsed'
    BY <1>13 DEF DeactivateIdle, Returns, CallbackKeeps, At, InRtCall, PerformPc, ActivatePc,
                 TypeOK
  <1>14. CASE OnCleanup \/ Recover
    BY <1>14 DEF OnCleanup, Recover, MayCallLifecycle, InRtCall, RtPc, PerformPc, ActivatePc
  <1>15. CASE OnConfigure
    BY <1>15 DEF OnConfigure, InRtCall
  <1>16. CASE HostRestart
    BY <1>16 DEF HostRestart, At, InRtCall, PerformPc, ActivatePc
  <1>17. CASE Drives
    BY <1>17 DEF Drives, WatchdogTick, WatchdogExpire, AxisFault, threads, InRtCall
  <1>18. CASE UNCHANGED vars
    BY <1>18 DEF vars, InRtCall
  <1> QED
    BY <1>1, <1>2, <1>3, <1>4, <1>5, <1>6, <1>7, <1>8, <1>9, <1>10, <1>11, <1>12, <1>13,
       <1>14, <1>15, <1>16, <1>17, <1>18
       DEF Next, ControlLoop, RtTransaction, Callback, Framework

\* Nobody resets transport_ while another handler is using it, for any number of
\* joints and any configuration.
THEOREM TransportStays == Spec => []TransportStaysWhileUsed
  <1>1. Init => SerialInv /\ TransportStaysWhileUsed
    BY DEF Init, SerialInv, TransportStaysWhileUsed, At, PerformPc, ActivatePc
  <1>2. TypeOK /\ SerialInv /\ TransportStaysWhileUsed /\ [Next]_vars
          => SerialInv' /\ TransportStaysWhileUsed'
    BY SerialInductive
  <1> QED
    BY <1>1, <1>2, Typing, PTL DEF Spec

-----------------------------------------------------------------------------
(* The lifecycle gate.                                                     *)

\* The gate that write() reads once, at its start, still stands for an active
\* component when write() sends: on_deactivate returns only behind the lock.
LEMMA GateInductive ==
  ASSUME TypeOK, SerialInv, GateInv, [Next]_vars
  PROVE  GateInv'
  <1> USE ConstantsAssumption DEF GateInv
  <1>1. ASSUME NEW i \in Joint, NEW s,
               \/ PerformJoint(i) \/ MaskFaultedJoint(i)
               \/ ClaimEnableWatchdog(i, s) \/ ClaimFeedWatchdog(i, s)
               \/ ClaimReadError(i, s) \/ ClaimClearErrors(i, s)
               \/ UnclaimIdle(i, s) \/ UnclaimDisableWatchdog(i, s) \/ SwitchAxisMode(i, s)
        PROVE  GateInv'
    BY <1>1, PerformSteps DEF PerformPc, ActivatePc, DeactivatePc
  <1>2. ASSUME NEW i \in Joint, NEW s,
               \/ WriteIdleOnFault(i, s) \/ WriteMasked(i)
               \/ WriteNothing(i) \/ WriteCommand(i, s)
        PROVE  GateInv'
    BY <1>2, WriteSteps DEF ActivatePc, DeactivatePc
  <1>3. ASSUME NEW s, StartRead(s)
        PROVE  GateInv'
    BY <1>3 DEF StartRead, threads, At, ActivatePc, DeactivatePc
  <1>4. ASSUME NEW i \in Joint, NEW s, ReadJoint(i, s)
        PROVE  GateInv'
    BY <1>4 DEF ReadJoint, threads, NextJoint, At, ActivatePc, DeactivatePc
  <1>5. ASSUME NEW commanded, Update(commanded)
        PROVE  GateInv'
    BY <1>5 DEF Update, At, ActivatePc, DeactivatePc
  <1>6. CASE StartWrite
    BY <1>6 DEF StartWrite, threads, Outputs, Running, MayCallFromRt, At, ActivatePc, DeactivatePc,
                TypeOK
  <1>7. ASSUME NEW stop, NEW start, PrepareCommandModeSwitch(stop, start)
        PROVE  GateInv'
    <2>1. UNCHANGED <<lifecycle, rt, svc, outputs_enabled>>
      BY <1>7 DEF PrepareCommandModeSwitch
    <2> QED
      BY <2>1 DEF ActivatePc, DeactivatePc
  <1>8. ASSUME NEW found \in BOOLEAN, ActivateOpen(found)
        PROVE  GateInv'
    <2>1. lifecycle = "inactive" /\ svc.pc = "none" /\ UNCHANGED rt
      BY <1>8 DEF ActivateOpen, MayCallLifecycle, CallbackKeeps
    <2>2. CASE found
      BY <1>8, <2>1, <2>2 DEF ActivateOpen, At, ActivatePc, DeactivatePc
    <2>3. CASE ~found
      BY <1>8, <2>1, <2>3 DEF ActivateOpen, Returns, GatedOutputs, At, ActivatePc, DeactivatePc
    <2> QED
      BY <2>2, <2>3
  <1>9. ASSUME NEW i \in Joint, NEW s, ActivateConfigure(i, s)
        PROVE  GateInv'
    <2>1. svc.pc = "activate_configure" /\ UNCHANGED rt
      BY <1>9 DEF ActivateConfigure, CallbackKeeps, At
    <2>2. CASE s = "ok"
      BY <1>9, <2>1, <2>2 DEF ActivateConfigure, NextJoint, At, ActivatePc, DeactivatePc
    <2>3. CASE s # "ok"
      BY <1>9, <2>1, <2>3 DEF ActivateConfigure, Returns, GatedOutputs, At, ActivatePc,
                              DeactivatePc
    <2> QED
      BY <2>2, <2>3
  <1>10. ASSUME NEW i \in Joint, NEW s, ActivateClear(i, s)
         PROVE  GateInv'
    <2>1. rt.pc # "write"
      BY <1>10 DEF ActivateClear, SerialInv, At, ActivatePc
    <2> QED
      BY <1>10, <2>1 DEF ActivateClear, Returns, CallbackKeeps, At, ActivatePc, DeactivatePc
  <1>11. CASE ActivateEnable
    BY <1>11 DEF ActivateEnable, GatedOutputs, CallbackKeeps, At, ActivatePc, DeactivatePc
  <1>12. CASE DeactivateGate
    BY <1>12 DEF DeactivateGate, GatedOutputs, CallbackKeeps, At, ActivatePc, DeactivatePc
  <1>13. CASE DeactivateLock
    BY <1>13 DEF DeactivateLock, RtHoldsLock, Returns, CallbackKeeps, At, ActivatePc, DeactivatePc
  <1>14. ASSUME NEW i \in Joint, NEW s, DeactivateIdle(i, s)
         PROVE  GateInv'
    <2>1. rt.pc # "write"
      BY <1>14 DEF DeactivateIdle, SerialInv, At
    <2> QED
      BY <1>14, <2>1 DEF DeactivateIdle, Returns, CallbackKeeps, At, ActivatePc, DeactivatePc
  <1>15. CASE OnCleanup \/ Recover
    BY <1>15 DEF OnCleanup, Recover, ResetRuntimeState, MayCallLifecycle, InRtCall, RtPc,
                 ActivatePc, DeactivatePc
  <1>16. CASE OnConfigure
    BY <1>16 DEF OnConfigure, ActivatePc, DeactivatePc
  <1>17. CASE HostRestart
    BY <1>17 DEF HostRestart, ResetRuntimeState, At, ActivatePc, DeactivatePc
  <1>18. CASE Drives
    BY <1>18 DEF Drives, WatchdogTick, WatchdogExpire, AxisFault, threads, ActivatePc, DeactivatePc
  <1>19. CASE UNCHANGED vars
    BY <1>19 DEF vars, ActivatePc, DeactivatePc
  <1> QED
    BY <1>1, <1>2, <1>3, <1>4, <1>5, <1>6, <1>7, <1>8, <1>9, <1>10, <1>11, <1>12, <1>13,
       <1>14, <1>15, <1>16, <1>17, <1>18, <1>19
       DEF Next, ControlLoop, RtTransaction, Callback, Framework

\* With the lifecycle gate, write() never feeds a watchdog of a component that is
\* not active, although on_deactivate closes the gate from another thread.
THEOREM GateHolds == Spec => CommandsOnlyWhileActive
  <1>1. Init => SerialInv /\ TransportStaysWhileUsed /\ GateInv
    BY DEF Init, SerialInv, TransportStaysWhileUsed, GateInv, At, PerformPc, ActivatePc,
           DeactivatePc
  <1>2. TypeOK /\ SerialInv /\ TransportStaysWhileUsed /\ GateInv /\ [Next]_vars
          => SerialInv' /\ TransportStaysWhileUsed' /\ GateInv'
    BY SerialInductive, GateInductive
  <1>3. GateInv => (gate_outputs_with_lifecycle => \A j \in Joint : Feeds(j) => lifecycle = "active")
    BY DEF GateInv, Feeds
  <1> QED
    BY <1>1, <1>2, <1>3, Typing, PTL DEF Spec, CommandsOnlyWhileActive

-----------------------------------------------------------------------------
(* The watchdog discipline.                                                *)

\* What the requests do to an axis's state and watchdog enable.
LEMMA AxisEffects ==
  ASSUME NEW a \in Axis
  PROVE  /\ RequestIdle(a).state = "idle" /\ RequestIdle(a).wd = a.wd
         /\ RequestClosedLoop(a).wd = a.wd
         /\ FeedWatchdog(a).state = a.state /\ FeedWatchdog(a).wd = a.wd
         /\ ClearErrors(a).state = a.state /\ ClearErrors(a).wd = a.wd
         /\ \A f : Latch(a, f).state = a.state /\ Latch(a, f).wd = a.wd
         /\ \A f : RequestIdle(Latch(a, f)).state = "idle" /\ RequestIdle(Latch(a, f)).wd = a.wd
  BY DEF Axis, RequestIdle, RequestClosedLoop, EnableWatchdog, FeedWatchdog, ClearErrors, Latch

\* A transaction changes its own axis only, and surely so when acknowledged.
LEMMA TransferEffect ==
  ASSUME TypeOK, NEW i \in Joint, NEW a, NEW s, Transfer(i, a, s)
  PROVE  /\ drive'[i] = a \/ (s # "ok" /\ drive'[i] = drive[i])
         /\ \A k \in Joint : k # i => drive'[k] = drive[k]
  BY DEF Transfer, TypeOK

\* A step at joint i of the mode switch leaves every other joint as it was.
LEMMA OtherJoint ==
  ASSUME NEW j, NEW i, j # i, WatchJoint(j), rt.i = i,
         drive'[j] = drive[j], lapse'[j] = lapse[j], joint_claimed'[j] = joint_claimed[j],
         transport' # "null" => transport # "null", svc' = svc,
         rt'.i = i \/ rt'.pc \in {"idle", "read", "update", "await_write", "write", "perform"}
  PROVE  WatchJoint(j)'
  BY DEF WatchJoint, InUse, Watched, Disarming

\* Choosing what to do with a joint (claim, unclaim or switch), and masking a faulted
\* one, keep the watchdog discipline.
LEMMA WatchPerformJoint ==
  ASSUME TypeOK, SerialInv, TransportStaysWhileUsed, WatchInv,
         NEW i \in Joint, NEW j \in WatchdogJoints, PerformJoint(i) \/ MaskFaultedJoint(i)
  PROVE  WatchJoint(j)'
  <1> USE ConstantsAssumption
  <1>1. j \in Joint /\ WatchJoint(j)
    BY DEF WatchInv
  <1>2. svc.pc = "none" /\ transport # "null"
    BY DEF PerformJoint, MaskFaultedJoint, InPerform, At, SerialInv, TransportStaysWhileUsed,
           PerformPc
  <1>3. CASE PerformJoint(i)
    <2>1. /\ rt.i = i /\ rt.pc = "perform" /\ rt'.i = i
          /\ UNCHANGED <<svc, drive, lapse, joint_claimed, control_level, transport>>
      BY <1>3 DEF PerformJoint, InPerform, PerformGoesOn, PerformKeeps, At
    <2>2. CASE j # i
      BY <2>1, <2>2, <1>1, OtherJoint
    <2>3. CASE j = i
      <3>1. \/ rt'.pc = "claim_wd"
            \/ rt'.pc = "unclaim_idle" /\ control_level[i] = UNDEFINED
            \/ rt'.pc = "mask" /\ (control_level[i] # UNDEFINED => joint_claimed[i])
        BY <1>3, <2>3 DEF PerformJoint, PerformGoesOn, At
      <3> QED
        BY <3>1, <2>1, <2>3, <1>1, <1>2 DEF WatchJoint, InUse, Watched, Disarming
    <2> QED
      BY <2>2, <2>3
  <1>4. CASE MaskFaultedJoint(i)
    <2>1. /\ rt.i = i /\ rt.pc = "mask"
          /\ \/ rt'.i = i /\ rt'.pc = "switch"
             \/ rt'.pc \in {"perform", "await_write"}
          /\ UNCHANGED <<svc, drive, lapse, transport>>
      BY <1>4 DEF MaskFaultedJoint, InPerform, PerformNextJoint, PerformReturns, PerformGoesOn,
                  PerformKeeps, At
    <2>2. \/ /\ rt'.pc = "switch" /\ rt'.i = i
             /\ UNCHANGED <<control_level, joint_claimed>>
          \/ /\ rt'.pc \in {"perform", "await_write"}
             /\ joint_claimed' = [joint_claimed EXCEPT ![i] = FALSE]
      BY <1>4 DEF MaskFaultedJoint, PerformNextJoint, PerformReturns, PerformGoesOn, At
    <2>3. CASE j # i
      <3>1. joint_claimed'[j] = joint_claimed[j]
        BY <2>2, <2>3, <1>1 DEF TypeOK
      <3> QED
        BY <2>1, <2>3, <3>1, <1>1, OtherJoint
    <2>4. CASE j = i
      <3>1. CASE UNCHANGED joint_claimed /\ rt'.pc = "switch" /\ UNCHANGED control_level
        BY <2>1, <2>4, <3>1, <1>1 DEF WatchJoint, InUse, Watched, Disarming
      <3>2. CASE ~joint_claimed'[j] /\ rt'.pc \in {"perform", "await_write"}
        BY <2>1, <2>4, <3>2, <1>1 DEF WatchJoint, InUse, Watched, Disarming
      <3> QED
        BY <2>2, <2>4, <3>1, <3>2, <1>1 DEF TypeOK
    <2> QED
      BY <2>3, <2>4
  <1> QED
    BY <1>3, <1>4

\* Claiming: the watchdog is armed before anything else is done with the joint.
LEMMA WatchClaim ==
  ASSUME TypeOK, SerialInv, TransportStaysWhileUsed, WatchInv,
         NEW i \in Joint, NEW s, NEW j \in WatchdogJoints,
         \/ ClaimEnableWatchdog(i, s) \/ ClaimFeedWatchdog(i, s)
         \/ ClaimReadError(i, s) \/ ClaimClearErrors(i, s)
  PROVE  WatchJoint(j)'
  <1> USE ConstantsAssumption
  <1>1. j \in Joint /\ WatchJoint(j) /\ drive[i] \in Axis
    BY DEF WatchInv, TypeOK
  <1>2. /\ rt.i = i /\ rt.pc \in {"claim_wd", "claim_feed", "claim_read", "claim_clear"}
        /\ transport # "null"
        /\ UNCHANGED <<svc, joint_claimed, control_level>>
    BY DEF ClaimEnableWatchdog, ClaimFeedWatchdog, ClaimReadError, ClaimClearErrors, InPerform,
           SetLapse, EnableWatchdog, PerformKeeps, At, TransportStaysWhileUsed, PerformPc
  <1>3. /\ drive'[j].state = drive[j].state
        /\ drive[j].wd => drive'[j].wd
        /\ j # i => drive'[j] = drive[j]
    <2>1. CASE ClaimEnableWatchdog(i, s)
      <3>1. /\ drive'[i] = [drive[i] EXCEPT !.wd = TRUE] \/ drive'[i] = drive[i]
            /\ j # i => drive'[j] = drive[j]
        BY <2>1, <1>1, TransferEffect DEF ClaimEnableWatchdog, EnableWatchdog, SetLapse
      <3> QED
        BY <3>1, <1>1 DEF Axis
    <2>2. CASE ClaimFeedWatchdog(i, s)
      BY <2>2, <1>1, TransferEffect, AxisEffects DEF ClaimFeedWatchdog
    <2>3. CASE ClaimReadError(i, s)
      BY <2>3, <1>1, TransferEffect DEF ClaimReadError
    <2>4. CASE ClaimClearErrors(i, s)
      BY <2>4, <1>1, TransferEffect, AxisEffects DEF ClaimClearErrors
    <2> QED
      BY <2>1, <2>2, <2>3, <2>4
  <1>4. \/ rt'.pc = "await_write"
        \/ rt'.i = i /\ rt'.pc \in {"claim_feed", "claim_read", "claim_clear", "mask"}
    BY DEF ClaimEnableWatchdog, ClaimFeedWatchdog, ClaimReadError, ClaimClearErrors,
           PerformReturns, PerformGoesOn, SetLapse, EnableWatchdog, At
  <1>5. CASE j # i
    <2>1. lapse'[j] = lapse[j]
      BY <1>5, <1>1 DEF ClaimEnableWatchdog, ClaimFeedWatchdog, ClaimReadError, ClaimClearErrors,
                        SetLapse, TypeOK
    <2> QED
      BY <1>1, <1>2, <1>3, <1>4, <1>5, <2>1, OtherJoint
  <1>6. CASE j = i /\ ClaimEnableWatchdog(i, s)
    <2>1. rt.pc = "claim_wd"
      BY <1>6 DEF ClaimEnableWatchdog, InPerform, At
    <2>2. CASE s = "ok"
      <3>1. drive'[j].wd = TRUE
        <4>1. drive'[i] = [drive[i] EXCEPT !.wd = TRUE]
          BY <1>6, <2>2, <1>1, TransferEffect DEF ClaimEnableWatchdog, EnableWatchdog, SetLapse
        <4> QED
          BY <4>1, <1>1, <1>6 DEF Axis
      <3>2. rt'.pc = "claim_feed"
        BY <1>6, <2>2 DEF ClaimEnableWatchdog, PerformGoesOn, At
      <3> QED
        BY <3>1, <3>2, <1>1 DEF WatchJoint, InUse, Watched
    <2>3. CASE s # "ok"
      <3>1. UNCHANGED lapse /\ rt'.pc = "await_write"
        BY <1>6, <2>3 DEF ClaimEnableWatchdog, PerformReturns, At
      <3> QED
        BY <2>1, <3>1, <1>1, <1>2, <1>3 DEF WatchJoint, InUse, Watched, Disarming
    <2> QED
      BY <2>2, <2>3
  <1>7. CASE j = i /\ ~ClaimEnableWatchdog(i, s)
    <2>1. rt.pc \in {"claim_feed", "claim_read", "claim_clear"} /\ UNCHANGED lapse
      BY <1>7 DEF ClaimFeedWatchdog, ClaimReadError, ClaimClearErrors, InPerform, At
    <2>2. Watched(j)
      BY <2>1, <1>1, <1>2, <1>7 DEF WatchJoint
    <2>3. Watched(j)'
      BY <2>1, <2>2, <1>3 DEF Watched
    <2> QED
      BY <2>3, <1>4 DEF WatchJoint, InUse
  <1> QED
    BY <1>5, <1>6, <1>7

\* Unclaiming and the mode switch itself: the watchdog is disarmed only after the
\* request to stop, and closed loop is requested of an armed axis only.
LEMMA WatchUnclaim ==
  ASSUME TypeOK, SerialInv, TransportStaysWhileUsed, WatchInv,
         NEW i \in Joint, NEW s, NEW j \in WatchdogJoints,
         UnclaimIdle(i, s) \/ UnclaimDisableWatchdog(i, s)
  PROVE  WatchJoint(j)'
  <1> USE ConstantsAssumption
  <1>1. j \in Joint /\ WatchJoint(j) /\ drive[i] \in Axis
    BY DEF WatchInv, TypeOK
  <1>2. /\ rt.i = i /\ rt.pc \in {"unclaim_idle", "unclaim_wd"}
        /\ rt'.i = i /\ rt'.pc \in {"unclaim_wd", "mask"}
        /\ transport # "null"
        /\ UNCHANGED <<svc, joint_claimed, control_level>>
    BY DEF UnclaimIdle, UnclaimDisableWatchdog, InPerform, PerformGoesOn, PerformKeeps, At,
           SetLapse, EnableWatchdog, TransportStaysWhileUsed, PerformPc
  <1>3. CASE j # i
    <2>1. lapse'[j] = lapse[j] /\ drive'[j] = drive[j]
      BY <1>3, <1>1, TransferEffect
         DEF UnclaimIdle, UnclaimDisableWatchdog, SetLapse, EnableWatchdog, TypeOK
    <2> QED
      BY <1>1, <1>2, <1>3, <2>1, OtherJoint
  <1>4. CASE j = i /\ UnclaimIdle(i, s)
    <2>1. rt.pc = "unclaim_idle" /\ rt'.pc = "unclaim_wd"
      BY <1>4 DEF UnclaimIdle, InPerform, PerformGoesOn, At
    <2>2. /\ drive'[j].wd = drive[j].wd
          /\ drive'[j].state = "idle" \/ (s # "ok" /\ drive'[j] = drive[j])
      BY <1>4, <1>1, TransferEffect, AxisEffects DEF UnclaimIdle
    <2>3. lapse'[j] = (lapse[j] \/ s # "ok")
      BY <1>4, <1>1 DEF UnclaimIdle, SetLapse, TypeOK
    <2> QED
      BY <2>1, <2>2, <2>3, <1>1, <1>2 DEF WatchJoint, InUse, Watched, Disarming
  <1>5. CASE j = i /\ UnclaimDisableWatchdog(i, s)
    <2>1. rt.pc = "unclaim_wd" /\ rt'.pc = "mask" /\ UNCHANGED lapse
      BY <1>5 DEF UnclaimDisableWatchdog, InPerform, PerformGoesOn, At
    <2>2. drive'[j].state = drive[j].state
      <3>1. drive'[i] = [drive[i] EXCEPT !.wd = FALSE] \/ drive'[i] = drive[i]
        BY <1>5, <1>1, TransferEffect DEF UnclaimDisableWatchdog, EnableWatchdog
      <3> QED
        BY <3>1, <1>1, <1>5 DEF Axis
    <2>3. control_level[j] = UNDEFINED /\ (drive[j].state = "idle" \/ lapse[j])
      BY <2>1, <1>1, <1>2, <1>5 DEF WatchJoint
    <2> QED
      BY <2>1, <2>2, <2>3, <1>2, <1>5 DEF WatchJoint, InUse, Watched, Disarming
  <1> QED
    BY <1>3, <1>4, <1>5

\* Switching an axis keeps the watchdog discipline: closed loop is requested of a
\* joint only behind its claim.
LEMMA WatchSwitch ==
  ASSUME TypeOK, SerialInv, TransportStaysWhileUsed, WatchInv,
         NEW i \in Joint, NEW s, NEW j \in WatchdogJoints, SwitchAxisMode(i, s)
  PROVE  WatchJoint(j)'
  <1> USE ConstantsAssumption
  <1>1. j \in Joint /\ WatchJoint(j) /\ drive[i] \in Axis
    BY DEF WatchInv, TypeOK
  <1>2. /\ rt.i = i /\ rt.pc = "switch"
        /\ rt'.pc \in {"perform", "await_write"}
        /\ transport # "null" /\ svc.pc = "none"
        /\ UNCHANGED <<svc, control_level>>
    BY DEF SwitchAxisMode, InPerform, PerformNextJoint, PerformReturns, PerformGoesOn,
           PerformKeeps, At, SerialInv, TransportStaysWhileUsed, PerformPc
  <1>3. CASE j # i
    <2>1. /\ lapse'[j] = lapse[j] /\ drive'[j] = drive[j]
          /\ joint_claimed'[j] = joint_claimed[j]
      BY <1>3, <1>1, TransferEffect DEF SwitchAxisMode, SetLapse, TypeOK
    <2> QED
      BY <1>1, <1>2, <1>3, <2>1, OtherJoint
  <1>4. CASE j = i /\ control_level[i] = UNDEFINED
    <2>1. /\ drive'[j].wd = drive[j].wd
          /\ drive'[j].state = "idle" \/ (s # "ok" /\ drive'[j] = drive[j])
      BY <1>4, <1>1, TransferEffect, AxisEffects DEF SwitchAxisMode
    <2>2. lapse'[j] = (lapse[j] \/ s # "ok")
      BY <1>4, <1>1 DEF SwitchAxisMode, SetLapse, TypeOK
    <2>3. s = "ok" => joint_claimed'[j] = FALSE
      BY <1>4, <1>1 DEF SwitchAxisMode, TypeOK
    <2> QED
      BY <2>1, <2>2, <2>3, <1>1, <1>2 DEF WatchJoint, InUse, Watched, Disarming
  <1>5. CASE j = i /\ control_level[i] # UNDEFINED
    <2>1. Watched(j)
      BY <1>1, <1>2, <1>5 DEF WatchJoint
    <2>2. drive'[j].wd = drive[j].wd
      BY <1>5, <1>1, TransferEffect, AxisEffects DEF SwitchAxisMode
    <2>3. lapse'[j] = lapse[j]
      BY <1>5, <1>1 DEF SwitchAxisMode, SetLapse, TypeOK
    <2>4. Watched(j)'
      BY <2>1, <2>2, <2>3 DEF Watched
    <2> QED
      BY <2>4, <1>2 DEF WatchJoint, InUse
  <1> QED
    BY <1>3, <1>4, <1>5

\* Away from the mode switch, a step keeps the discipline if it leaves no axis
\* running unwatched and takes no watchdog from a joint that stays claimed.
LEMMA AwayFromSwitch ==
  ASSUME NEW j, WatchJoint(j),
         rt'.pc \notin PerformPc \ {"perform"},
         drive'[j].state = "closed" => Watched(j)',
         InUse(j)' => InUse(j) /\ rt.pc \notin {"mask", "switch"} /\ (Watched(j) => Watched(j)')
  PROVE  WatchJoint(j)'
  BY DEF WatchJoint, Disarming, PerformPc

\* The same for a step that only moves the control loop, or reads.
LEMMA WatchKept ==
  ASSUME NEW j, WatchJoint(j),
         rt'.pc \notin PerformPc \ {"perform"}, rt.pc \notin {"mask", "switch"},
         drive'[j].state \in {"idle", drive[j].state}, drive'[j].wd = drive[j].wd,
         lapse'[j] = lapse[j],
         InUse(j)' => InUse(j)
  PROVE  WatchJoint(j)'
  <1>1. Watched(j) => Watched(j)'
    BY DEF Watched
  <1>2. drive'[j].state = "closed" => Watched(j)'
    BY <1>1 DEF WatchJoint
  <1> QED
    BY <1>1, <1>2, AwayFromSwitch

\* read() and write() never disarm a watchdog nor put an axis into closed loop.
LEMMA WatchReadWrite ==
  ASSUME TypeOK, SerialInv, TransportStaysWhileUsed, WatchInv, NEW j \in WatchdogJoints,
         NEW i \in Joint, NEW s,
         \/ StartRead(s) \/ ReadJoint(i, s) \/ StartWrite
         \/ WriteIdleOnFault(i, s) \/ WriteMasked(i) \/ WriteNothing(i) \/ WriteCommand(i, s)
  PROVE  WatchJoint(j)'
  <1> USE ConstantsAssumption
  <1>1. j \in Joint /\ WatchJoint(j) /\ drive[i] \in Axis /\ drive[j] \in Axis
    BY DEF WatchInv, TypeOK
  <1>2. UNCHANGED <<lapse, joint_claimed, svc>>
    BY DEF StartRead, ReadJoint, StartWrite, WriteIdleOnFault, WriteMasked, WriteNothing,
           WriteCommand, WriteKeeps, threads, host
  <1>3. rt.pc \notin PerformPc /\ rt'.pc \notin PerformPc
    BY DEF StartRead, ReadJoint, StartWrite, WriteIdleOnFault, WriteMasked, WriteNothing,
           WriteCommand, WriteGoesOn, NextJoint, At, PerformPc
  <1>4. transport' # "null" => transport # "null"
    <2>1. CASE StartRead(s)
      BY <2>1 DEF StartRead
    <2>2. CASE ReadJoint(i, s)
      BY <2>2 DEF ReadJoint, At, TransportStaysWhileUsed
    <2>3. CASE StartWrite
      BY <2>3 DEF StartWrite
    <2>4. CASE ~StartRead(s) /\ ~ReadJoint(i, s) /\ ~StartWrite
      BY <2>4, WriteSteps DEF TransportStaysWhileUsed
    <2> QED
      BY <2>1, <2>2, <2>3, <2>4
  <1>5. drive'[j].state \in {"idle", drive[j].state} /\ drive'[j].wd = drive[j].wd
    <2>1. CASE StartRead(s) \/ StartWrite \/ WriteMasked(i) \/ WriteNothing(i)
      BY <2>1 DEF StartRead, StartWrite, WriteMasked, WriteNothing
    <2>2. CASE ReadJoint(i, s)
      BY <2>2, <1>1, TransferEffect DEF ReadJoint
    <2>3. CASE WriteIdleOnFault(i, s)
      BY <2>3, <1>1, TransferEffect, AxisEffects DEF WriteIdleOnFault
    <2>4. CASE WriteCommand(i, s)
      BY <2>4, <1>1, TransferEffect, AxisEffects DEF WriteCommand
    <2> QED
      BY <2>1, <2>2, <2>3, <2>4
  <1>6. InUse(j)' => InUse(j)
    BY <1>2, <1>4 DEF InUse
  <1> QED
    BY <1>1, <1>2, <1>3, <1>5, <1>6, WatchKept DEF PerformPc

\* Activation disarms the watchdogs: of an axis found running, that is a lapse.
LEMMA WatchActivate ==
  ASSUME TypeOK, SerialInv, TransportStaysWhileUsed, WatchInv, NEW j \in WatchdogJoints,
         \/ \E found \in BOOLEAN : ActivateOpen(found)
         \/ \E i \in Joint, s \in {"ok", "soft", "fatal"} :
              ActivateConfigure(i, s) \/ ActivateClear(i, s)
         \/ ActivateEnable
  PROVE  WatchJoint(j)'
  <1> USE ConstantsAssumption
  <1>1. j \in Joint /\ WatchJoint(j)
    BY DEF WatchInv
  <1>2. UNCHANGED rt /\ rt.pc \notin PerformPc
    <2>1. UNCHANGED rt
      BY DEF ActivateOpen, ActivateConfigure, ActivateClear, ActivateEnable, CallbackKeeps
    <2>2. ~InRtCall
      <3>1. CASE \E found \in BOOLEAN : ActivateOpen(found)
        BY <3>1 DEF ActivateOpen
      <3>2. ASSUME NEW i \in Joint, NEW s, ActivateConfigure(i, s) \/ ActivateClear(i, s)
            PROVE  svc.pc \in ActivatePc
        <4>1. ActivateConfigure(i, s) => svc.pc \in ActivatePc
          BY DEF ActivateConfigure, At, ActivatePc
        <4>2. ActivateClear(i, s) => svc.pc \in ActivatePc
          BY DEF ActivateClear, At, ActivatePc
        <4> QED
          BY <3>2, <4>1, <4>2
      <3>3. ActivateEnable => svc.pc \in ActivatePc
        BY DEF ActivateEnable, ActivatePc
      <3> QED
        BY <3>1, <3>2, <3>3 DEF SerialInv
    <2> QED
      BY <2>1, <2>2 DEF InRtCall, RtPc, PerformPc
  <1>3. ASSUME NEW found \in BOOLEAN, ActivateOpen(found)
        PROVE  WatchJoint(j)'
    <2>1. UNCHANGED <<drive, lapse>>
      BY <1>3 DEF ActivateOpen
    <2>2. ~InUse(j)'
      <3>1. CASE found
        BY <1>3, <3>1 DEF ActivateOpen, At, InUse
      <3>2. CASE ~found
        BY <1>3, <3>2 DEF ActivateOpen, InUse
      <3> QED
        BY <3>1, <3>2
    <2> QED
      BY <1>1, <1>2, <2>1, <2>2, WatchKept DEF PerformPc
  <1>4. ASSUME NEW i \in Joint, NEW s \in {"ok", "soft", "fatal"}, ActivateConfigure(i, s)
        PROVE  WatchJoint(j)'
    <2>1. drive[i] \in Axis
      BY DEF TypeOK
    <2>2. /\ drive'[i] = [drive[i] EXCEPT !.wd = FALSE] \/ drive'[i] = drive[i]
          /\ j # i => drive'[j] = drive[j]
      BY <1>4, <1>1, TransferEffect DEF ActivateConfigure, EnableWatchdog, SetLapse
    <2>3. lapse' = [lapse EXCEPT ![i] = lapse[i] \/ drive[i].state = "closed"]
      BY <1>4 DEF ActivateConfigure, SetLapse
    <2>4. drive'[j].state = "closed" => Watched(j)'
      <3>1. CASE j = i
        <4>1. drive'[j].state = drive[j].state
          BY <2>1, <2>2, <3>1 DEF Axis
        <4>2. drive[j].state = "closed" => lapse'[j]
          BY <2>3, <3>1, <1>1 DEF TypeOK
        <4> QED
          BY <4>1, <4>2 DEF Watched
      <3>2. CASE j # i
        BY <2>2, <2>3, <3>2, <1>1 DEF WatchJoint, Watched, TypeOK
      <3> QED
        BY <3>1, <3>2
    <2>5. ~InUse(j)'
      <3>1. CASE s = "ok"
        BY <1>4, <3>1 DEF ActivateConfigure, NextJoint, At, InUse
      <3>2. CASE s # "ok"
        BY <1>4, <3>2 DEF ActivateConfigure, InUse
      <3> QED
        BY <3>1, <3>2
    <2> QED
      BY <1>1, <1>2, <2>4, <2>5, AwayFromSwitch DEF PerformPc
  <1>5. ASSUME NEW i \in Joint, NEW s \in {"ok", "soft", "fatal"}, ActivateClear(i, s)
        PROVE  WatchJoint(j)'
    <2>1. drive[i] \in Axis /\ drive[j] \in Axis
      BY <1>1 DEF TypeOK
    <2>2. drive'[j].state = drive[j].state /\ drive'[j].wd = drive[j].wd
      BY <1>5, <1>1, <2>1, TransferEffect, AxisEffects DEF ActivateClear
    <2>3. UNCHANGED lapse /\ (InUse(j)' => InUse(j))
      BY <1>5 DEF ActivateClear, InUse, TransportStaysWhileUsed, host, At
    <2> QED
      BY <1>1, <1>2, <2>2, <2>3, WatchKept DEF PerformPc
  <1>6. CASE ActivateEnable
    <2>1. UNCHANGED <<drive, lapse>> /\ ~InUse(j)'
      BY <1>6, <1>1 DEF ActivateEnable, InUse
    <2> QED
      BY <1>1, <1>2, <2>1, WatchKept DEF PerformPc
  <1> QED
    BY <1>3, <1>4, <1>5, <1>6

\* prepare_command_mode_switch() and the lifecycle callbacks that configure no axis keep
\* the watchdog discipline: those that start over leave every joint unclaimed.
LEMMA WatchFramework ==
  ASSUME TypeOK, SerialInv, TransportStaysWhileUsed, WatchInv, NEW j \in WatchdogJoints,
         \/ \E commanded \in SUBSET Joint : Update(commanded)
         \/ \E stop \in SUBSET Joint, start \in [Joint -> SUBSET Levels] :
              PrepareCommandModeSwitch(stop, start)
         \/ DeactivateGate \/ DeactivateLock
         \/ \E i \in Joint, s \in {"ok", "soft", "fatal"} : DeactivateIdle(i, s)
         \/ OnCleanup \/ OnConfigure \/ Recover \/ HostRestart
  PROVE  WatchJoint(j)'
  <1> USE ConstantsAssumption
  <1>1. j \in Joint /\ WatchJoint(j)
    BY DEF WatchInv
  <1>2. ASSUME NEW commanded, Update(commanded)
        PROVE  WatchJoint(j)'
    <2>1. /\ rt.pc = "update" /\ rt'.pc \in {"perform", "await_write"}
          /\ UNCHANGED <<drive, lapse, joint_claimed, transport, svc>>
      BY <1>2 DEF Update, At
    <2> QED
      BY <1>1, <2>1, WatchKept DEF PerformPc, InUse
  <1>3. ASSUME NEW stop, NEW start, PrepareCommandModeSwitch(stop, start)
        PROVE  WatchJoint(j)'
    <2>1. mode_switch = "none" /\ UNCHANGED <<rt, drive, lapse, joint_claimed, transport, svc>>
      BY <1>3 DEF PrepareCommandModeSwitch
    <2>2. rt.pc \notin PerformPc
      BY <2>1 DEF SerialInv
    <2> QED
      BY <1>1, <2>1, <2>2, WatchKept DEF PerformPc, InUse
  <1>4. CASE DeactivateGate \/ DeactivateLock
    <2>1. mode_switch = "none" /\ UNCHANGED <<rt, drive, lapse, joint_claimed, transport>>
      BY <1>4 DEF DeactivateGate, MayCallLifecycle, DeactivateLock, SerialInv, CallbackKeeps, host
    <2>2. svc.pc \in {"none", "deactivate_lock"}
      BY <1>4 DEF DeactivateGate, MayCallLifecycle, DeactivateLock
    <2>3. rt.pc \notin PerformPc
      BY <2>1 DEF SerialInv
    <2> QED
      BY <1>1, <2>1, <2>2, <2>3, WatchKept DEF PerformPc, InUse
  <1>5. ASSUME NEW i \in Joint, NEW s \in {"ok", "soft", "fatal"}, DeactivateIdle(i, s)
        PROVE  WatchJoint(j)'
    <2>1. drive[i] \in Axis /\ drive[j] \in Axis
      BY <1>1 DEF TypeOK
    <2>2. drive'[j].state \in {"idle", drive[j].state} /\ drive'[j].wd = drive[j].wd
      BY <1>5, <1>1, <2>1, TransferEffect, AxisEffects DEF DeactivateIdle
    <2>3. /\ svc.pc = "deactivate_idle" /\ UNCHANGED <<rt, lapse, joint_claimed>>
          /\ transport' # "null" => transport # "null"
      BY <1>5 DEF DeactivateIdle, At, CallbackKeeps, host
    <2>4. rt.pc \notin PerformPc
      BY <2>3 DEF SerialInv
    <2> QED
      BY <1>1, <2>2, <2>3, <2>4, WatchKept DEF PerformPc, InUse
  <1>6. CASE OnCleanup \/ Recover \/ HostRestart
    <2>1. UNCHANGED <<drive, lapse>> /\ ~InUse(j)'
      BY <1>6, <1>1 DEF OnCleanup, Recover, HostRestart, ResetRuntimeState, InUse
    <2>2. rt'.pc \notin PerformPc
      BY <1>6 DEF OnCleanup, Recover, HostRestart, At, InRtCall, RtPc, PerformPc
    <2>3. drive'[j].state = "closed" => Watched(j)'
      BY <1>1, <2>1 DEF WatchJoint, Watched
    <2> QED
      BY <1>1, <2>1, <2>2, <2>3, AwayFromSwitch
  <1>7. CASE OnConfigure
    BY <1>7, <1>1 DEF OnConfigure, host, WatchJoint, InUse, Watched, Disarming
  <1> QED
    BY <1>2, <1>3, <1>4, <1>5, <1>6, <1>7

\* The drives never disarm a watchdog nor start an axis by themselves.
LEMMA WatchDrives ==
  ASSUME TypeOK, WatchInv, NEW j \in WatchdogJoints, Drives
  PROVE  WatchJoint(j)'
  <1> USE ConstantsAssumption
  <1>1. j \in Joint /\ WatchJoint(j) /\ drive[j] \in Axis
    BY DEF WatchInv, TypeOK
  <1>2. drive'[j].state \in {"idle", drive[j].state} /\ drive'[j].wd = drive[j].wd
    <2> SUFFICES ASSUME NEW k \in Joint,
                        \/ WatchdogTick(k)
                        \/ WatchdogExpire(k)
                        \/ \E f \in Faults \ {"watchdog"}, stops \in BOOLEAN : AxisFault(k, f, stops)
                 PROVE  drive'[j].state \in {"idle", drive[j].state} /\ drive'[j].wd = drive[j].wd
      BY DEF Drives
    <2>1. CASE WatchdogTick(k)
      BY <2>1, <1>1 DEF WatchdogTick, TypeOK, Axis
    <2>2. CASE WatchdogExpire(k)
      BY <2>2, <1>1, AxisEffects DEF WatchdogExpire, TypeOK
    <2>3. ASSUME NEW f, NEW stops \in BOOLEAN, AxisFault(k, f, stops)
          PROVE  drive'[j].state \in {"idle", drive[j].state} /\ drive'[j].wd = drive[j].wd
      BY <2>3, <1>1, AxisEffects DEF AxisFault, TypeOK
    <2> QED
      BY <2>1, <2>2, <2>3
  <1>3. UNCHANGED <<rt, svc, transport, joint_claimed, control_level, lapse>>
    BY DEF Drives, WatchdogTick, WatchdogExpire, AxisFault, threads, host
  <1> QED
    BY <1>1, <1>2, <1>3 DEF WatchJoint, InUse, Watched, Disarming

\* The watchdog discipline is inductive under the types.
LEMMA WatchInductive ==
  ASSUME TypeOK, SerialInv, TransportStaysWhileUsed, WatchInv, [Next]_vars
  PROVE  WatchInv'
  <1> SUFFICES ASSUME NEW j \in WatchdogJoints
               PROVE  WatchJoint(j)'
    BY DEF WatchInv
  <1>1. CASE ControlLoop
    <2>1. ASSUME NEW s \in {"ok", "soft", "fatal"}, NEW i \in Joint, RtTransaction(i, s)
          PROVE  WatchJoint(j)'
      BY <2>1, WatchReadWrite, WatchClaim, WatchUnclaim, WatchSwitch DEF RtTransaction
    <2>2. 1 \in Joint
      BY JointFacts
    <2> QED
      BY <1>1, <2>1, <2>2, WatchReadWrite, WatchPerformJoint, WatchFramework DEF ControlLoop
  <1>2. CASE Callback
    BY <1>2, WatchActivate, WatchFramework DEF Callback
  <1>3. CASE Framework
    BY <1>3, WatchActivate, WatchFramework DEF Framework
  <1>4. CASE Drives
    BY <1>4, WatchDrives
  <1>5. CASE UNCHANGED vars
    BY <1>5 DEF vars, host, threads, WatchInv, WatchJoint, InUse, Watched, Disarming
  <1> QED
    BY <1>1, <1>2, <1>3, <1>4, <1>5 DEF Next

\* An axis whose watchdog is configured never runs in closed loop unwatched, but
\* for the lapses: for any number of joints, any configuration and any failures.
THEOREM WatchHolds == Spec => []ClosedLoopIsWatched
  <1>1. Init => SerialInv /\ TransportStaysWhileUsed /\ WatchInv
    <2>1. Init => SerialInv /\ TransportStaysWhileUsed
      BY DEF Init, SerialInv, TransportStaysWhileUsed, At, PerformPc, ActivatePc
    <2>2. Init => WatchInv
      BY ConstantsAssumption
         DEF Init, WatchInv, WatchJoint, InUse, Watched, Disarming, At
    <2> QED
      BY <2>1, <2>2
  <1>2. TypeOK /\ SerialInv /\ TransportStaysWhileUsed /\ WatchInv /\ [Next]_vars
          => SerialInv' /\ TransportStaysWhileUsed' /\ WatchInv'
    BY SerialInductive, WatchInductive
  <1>3. WatchInv => ClosedLoopIsWatched
    BY DEF WatchInv, WatchJoint, ClosedLoopIsWatched
  <1> QED
    BY <1>1, <1>2, <1>3, Typing, PTL DEF Spec

-----------------------------------------------------------------------------
(* Faulted axes.                                                           *)

\* The joint's errors were not cleared yet by the activation that is under way.
Uncleared(j) == \/ svc.pc \in {"activate_configure", "activate_enable"}
                \/ svc.pc = "activate_clear" /\ svc.i <= j

\* reset_runtime_state() forgets the errors, but drops the transport; activation
\* opens it again, and clears the errors of every drive or finalizes the component.
MaskJoint(j) ==
    transport # "null" /\ lifecycle # "finalized" /\ ~Uncleared(j) /\ ~missed[j]
      => drive[j].err \subseteq errors[j]
MaskInv ==
    /\ \A j \in Joint : MaskJoint(j)
    /\ rt.pc = "write" => lifecycle # "finalized"

\* What the requests do to the errors of an axis: clear them all, or nothing.
LEMMA ErrorEffects ==
  ASSUME NEW a \in Axis
  PROVE  /\ RequestIdle(a).err = a.err /\ RequestClosedLoop(a).err = a.err
         /\ \A on : EnableWatchdog(a, on).err = a.err
         /\ FeedWatchdog(a).err = a.err
         /\ ClearErrors(a).err = {}
  BY DEF Axis, RequestIdle, RequestClosedLoop, EnableWatchdog, FeedWatchdog, ClearErrors

\* A transaction whose request adds no error adds none to any axis.
LEMMA TransferAddsNoError ==
  ASSUME TypeOK, NEW i \in Joint, NEW a \in Axis, NEW s, Transfer(i, a, s),
         a.err \subseteq drive[i].err
  PROVE  /\ \A j \in Joint : drive'[j].err \subseteq drive[j].err
         /\ s = "ok" => drive'[i] = a
  BY DEF Transfer, TypeOK

\* A step that adds no error, and forgets none of the known ones, keeps the joint's
\* errors known, unless it opens the transport or ends an activation.
LEMMA MaskKept ==
  ASSUME NEW j \in Joint, MaskJoint(j),
         drive'[j].err \subseteq drive[j].err, errors[j] \subseteq errors'[j],
         missed'[j] \/ ~missed[j],
         transport' # "null" => transport # "null",
         lifecycle' # "finalized" => lifecycle # "finalized",
         Uncleared(j) => Uncleared(j)' \/ transport' = "null" \/ lifecycle' = "finalized"
  PROVE  MaskJoint(j)'
  BY DEF MaskJoint

\* read() knows the errors of the samples it accepts, and forgets none.
LEMMA MaskRead ==
  ASSUME TypeOK, MaskInv, NEW j \in Joint, NEW i \in Joint, NEW s,
         StartRead(s) \/ ReadJoint(i, s)
  PROVE  MaskJoint(j)'
  <1>1. MaskJoint(j) /\ drive[i] \in Axis
    BY DEF MaskInv, TypeOK
  <1>2. CASE StartRead(s)
    BY <1>1, <1>2, MaskKept DEF StartRead, threads, Worn, Uncleared
  <1>3. CASE ReadJoint(i, s)
    <2>1. /\ \A k \in Joint : drive'[k].err \subseteq drive[k].err
          /\ s = "ok" => drive'[i] = drive[i]
      BY <1>1, <1>3, TransferAddsNoError DEF ReadJoint
    <2>2. UNCHANGED <<lifecycle, svc>> /\ (transport' # "null" => transport # "null")
      BY <1>3 DEF ReadJoint, threads, Worn, Transfer
    <2>3. \/ /\ s = "ok"
             /\ errors' = [errors EXCEPT ![i] = drive[i].err]
             /\ missed' = [missed EXCEPT ![i] = FALSE]
          \/ UNCHANGED <<errors, missed>>
      BY <1>3 DEF ReadJoint
    <2>4. CASE j = i /\ s = "ok" /\ errors' = [errors EXCEPT ![i] = drive[i].err]
      BY <2>1, <2>4 DEF MaskJoint, TypeOK
    <2>5. CASE errors'[j] = errors[j] /\ missed'[j] = missed[j]
      BY <1>1, <2>1, <2>2, <2>5, MaskKept DEF Uncleared
    <2> QED
      BY <2>3, <2>4, <2>5 DEF TypeOK
  <1> QED
    BY <1>2, <1>3

\* The mode switch adds no error; the axis register it reads on a claim replaces what
\* was known of that register, and what it clears is cleared in the drive.
LEMMA MaskPerform ==
  ASSUME TypeOK, MaskInv, NEW j \in Joint, NEW i \in Joint, NEW s,
         \/ PerformJoint(i) \/ MaskFaultedJoint(i)
         \/ ClaimEnableWatchdog(i, s) \/ ClaimFeedWatchdog(i, s)
         \/ ClaimReadError(i, s) \/ ClaimClearErrors(i, s)
         \/ UnclaimIdle(i, s) \/ UnclaimDisableWatchdog(i, s) \/ SwitchAxisMode(i, s)
  PROVE  MaskJoint(j)'
  <1>1. MaskJoint(j) /\ drive[i] \in Axis /\ drive[i].err \in SUBSET Faults
    BY DEF MaskInv, TypeOK, Axis
  <1>2. UNCHANGED <<lifecycle, svc, missed>>
    BY DEF PerformJoint, MaskFaultedJoint, ClaimEnableWatchdog, ClaimFeedWatchdog,
           ClaimReadError, ClaimClearErrors, UnclaimIdle, UnclaimDisableWatchdog,
           SwitchAxisMode, PerformKeeps
  <1>3. transport' # "null" => transport # "null"
    BY DEF PerformJoint, MaskFaultedJoint, ClaimEnableWatchdog, ClaimFeedWatchdog,
           ClaimReadError, ClaimClearErrors, UnclaimIdle, UnclaimDisableWatchdog,
           SwitchAxisMode, Worn, Transfer
  <1>4. CASE \/ PerformJoint(i) \/ MaskFaultedJoint(i)
             \/ ClaimEnableWatchdog(i, s) \/ ClaimFeedWatchdog(i, s)
             \/ UnclaimIdle(i, s) \/ UnclaimDisableWatchdog(i, s) \/ SwitchAxisMode(i, s)
    <2>1. UNCHANGED errors
      BY <1>4 DEF PerformJoint, MaskFaultedJoint, ClaimEnableWatchdog, ClaimFeedWatchdog,
                  UnclaimIdle, UnclaimDisableWatchdog, SwitchAxisMode
    <2>2. \/ UNCHANGED drive
          \/ \E a \in Axis : Transfer(i, a, s) /\ a.err = drive[i].err
      <3>1. CASE PerformJoint(i) \/ MaskFaultedJoint(i)
        BY <3>1 DEF PerformJoint, MaskFaultedJoint
      <3>2. CASE ClaimEnableWatchdog(i, s)
        <4>1. [drive[i] EXCEPT !.wd = TRUE] \in Axis
              /\ [drive[i] EXCEPT !.wd = TRUE].err = drive[i].err
          BY <1>1 DEF Axis
        <4> QED
          BY <3>2, <4>1 DEF ClaimEnableWatchdog, EnableWatchdog
      <3>3. CASE ClaimFeedWatchdog(i, s)
        BY <1>1, <3>3, AxisOperations, ErrorEffects DEF ClaimFeedWatchdog
      <3>4. CASE UnclaimIdle(i, s)
        BY <1>1, <3>4, AxisOperations, ErrorEffects DEF UnclaimIdle
      <3>5. CASE UnclaimDisableWatchdog(i, s)
        <4>1. [drive[i] EXCEPT !.wd = FALSE] \in Axis
              /\ [drive[i] EXCEPT !.wd = FALSE].err = drive[i].err
          BY <1>1 DEF Axis
        <4> QED
          BY <3>5, <4>1 DEF UnclaimDisableWatchdog, EnableWatchdog
      <3>6. CASE SwitchAxisMode(i, s)
        BY <1>1, <3>6, AxisOperations, ErrorEffects DEF SwitchAxisMode
      <3> QED
        BY <1>4, <3>1, <3>2, <3>3, <3>4, <3>5, <3>6
    <2>3. drive'[j].err \subseteq drive[j].err
      BY <2>2, TransferAddsNoError
    <2> QED
      BY <1>1, <1>2, <1>3, <2>1, <2>3, MaskKept DEF Uncleared
  <1>5. CASE ClaimReadError(i, s)
    <2>1. /\ \A k \in Joint : drive'[k].err \subseteq drive[k].err
          /\ s = "ok" => drive'[i] = drive[i]
      BY <1>1, <1>5, TransferAddsNoError DEF ClaimReadError
    <2>2. CASE j = i /\ s = "ok"
      <3>1. errors'[i] = (errors[i] \ AxisRegister) \cup (drive[i].err \cap AxisRegister)
        BY <1>5, <2>2 DEF ClaimReadError, TypeOK
      <3> QED
        BY <1>1, <1>2, <1>3, <2>1, <2>2, <3>1 DEF MaskJoint, Uncleared
    <2>3. CASE j # i \/ s # "ok"
      <3>1. errors'[j] = errors[j]
        BY <1>5, <2>3 DEF ClaimReadError, TypeOK
      <3> QED
        BY <1>1, <1>2, <1>3, <2>1, <3>1, MaskKept DEF Uncleared
    <2> QED
      BY <2>2, <2>3
  <1>6. CASE ClaimClearErrors(i, s)
    <2>1. /\ \A k \in Joint : drive'[k].err \subseteq drive[k].err
          /\ s = "ok" => drive'[i].err = {}
      <3>1. /\ ClearErrors(drive[i]) \in Axis /\ ClearErrors(drive[i]).err = {}
            /\ Transfer(i, ClearErrors(drive[i]), s)
        BY <1>1, <1>6, AxisOperations, ErrorEffects DEF ClaimClearErrors
      <3> QED
        BY <3>1, TransferAddsNoError
    <2>2. CASE j = i /\ s = "ok"
      BY <2>1, <2>2 DEF MaskJoint
    <2>3. CASE j # i \/ s # "ok"
      <3>1. errors'[j] = errors[j]
        BY <1>6, <2>3 DEF ClaimClearErrors, TypeOK
      <3> QED
        BY <1>1, <1>2, <1>3, <2>1, <3>1, MaskKept DEF Uncleared
    <2> QED
      BY <2>2, <2>3
  <1> QED
    BY <1>4, <1>5, <1>6

\* write() adds no error and forgets none.
LEMMA MaskWrite ==
  ASSUME TypeOK, MaskInv, NEW j \in Joint, NEW i \in Joint, NEW s,
         \/ StartWrite
         \/ WriteIdleOnFault(i, s) \/ WriteMasked(i) \/ WriteNothing(i) \/ WriteCommand(i, s)
  PROVE  MaskJoint(j)'
  <1>1. MaskJoint(j) /\ drive[i] \in Axis
    BY DEF MaskInv, TypeOK
  <1>2. UNCHANGED <<lifecycle, svc, errors, missed>> /\ (transport' # "null" => transport # "null")
    BY DEF StartWrite, WriteIdleOnFault, WriteMasked, WriteNothing, WriteCommand, WriteGoesOn,
           WriteKeeps, threads, host
  <1>3. \/ UNCHANGED drive
        \/ \E a \in Axis : Transfer(i, a, s) /\ a.err = drive[i].err
    <2>1. CASE WriteIdleOnFault(i, s)
      BY <1>1, <2>1, AxisOperations, ErrorEffects DEF WriteIdleOnFault
    <2>2. CASE WriteCommand(i, s)
      BY <1>1, <2>2, AxisOperations, ErrorEffects DEF WriteCommand
    <2>3. CASE StartWrite \/ WriteMasked(i) \/ WriteNothing(i)
      BY <2>3 DEF StartWrite, WriteMasked, WriteNothing
    <2> QED
      BY <2>1, <2>2, <2>3
  <1>4. drive'[j].err \subseteq drive[j].err
    BY <1>3, TransferAddsNoError
  <1> QED
    BY <1>1, <1>2, <1>4, MaskKept DEF Uncleared

\* Activation clears the errors of one drive after the other; an error that it could
\* not clear finalizes the component.
LEMMA MaskActivate ==
  ASSUME TypeOK, GateInv, MaskInv, NEW j \in Joint, NEW i \in Joint,
         NEW s \in {"ok", "soft", "fatal"},
         \/ \E found \in BOOLEAN : ActivateOpen(found)
         \/ ActivateConfigure(i, s) \/ ActivateEnable \/ ActivateClear(i, s)
  PROVE  MaskJoint(j)'
  <1> USE ConstantsAssumption
  <1>1. MaskJoint(j) /\ drive[i] \in Axis /\ j \in Nat /\ i \in Nat /\ 1 <= j /\ j <= N
    BY DEF MaskInv, TypeOK, Joint
  <1>2. ASSUME NEW found \in BOOLEAN, ActivateOpen(found)
        PROVE  MaskJoint(j)'
    <2>1. transport' = "null" \/ svc'.pc = "activate_configure"
      <3>1. CASE found
        BY <1>2, <3>1 DEF ActivateOpen, At
      <3>2. CASE ~found
        BY <1>2, <3>2 DEF ActivateOpen
      <3> QED
        BY <3>1, <3>2
    <2> QED
      BY <2>1 DEF MaskJoint, Uncleared
  <1>3. CASE ActivateConfigure(i, s)
    <2>1. transport' = "null" \/ svc'.pc \in {"activate_configure", "activate_enable"}
      <3>1. CASE s = "ok"
        BY <1>3, <3>1 DEF ActivateConfigure, SetLapse, NextJoint, At
      <3>2. CASE s # "ok"
        BY <1>3, <3>2 DEF ActivateConfigure, SetLapse, Returns, GatedOutputs
      <3> QED
        BY <3>1, <3>2
    <2> QED
      BY <2>1 DEF MaskJoint, Uncleared
  <1>4. CASE ActivateEnable
    <2>1. svc'.pc = "activate_clear" /\ svc'.i = 1
      BY <1>4 DEF ActivateEnable, GatedOutputs, At
    <2> QED
      BY <1>1, <2>1 DEF MaskJoint, Uncleared
  <1>5. CASE ActivateClear(i, s)
    <2>1. /\ ClearErrors(drive[i]) \in Axis /\ ClearErrors(drive[i]).err = {}
          /\ Transfer(i, ClearErrors(drive[i]), s)
          /\ svc.pc = "activate_clear" /\ svc.i = i
          /\ UNCHANGED <<errors, missed>> /\ (transport' # "null" => transport # "null")
      BY <1>1, <1>5, AxisOperations, ErrorEffects
         DEF ActivateClear, At, host, Worn, Transfer
    <2>2. /\ drive'[j].err \subseteq drive[j].err
          /\ s = "ok" => drive'[i].err = {}
      BY <2>1, TransferAddsNoError
    <2>3. CASE s # "ok"
      BY <1>5, <2>3 DEF ActivateClear, Returns, MaskJoint
    <2>4. CASE s = "ok" /\ j = i
      BY <2>2, <2>4 DEF MaskJoint
    <2>5. CASE s = "ok" /\ j # i
      <3>1. lifecycle' # "finalized" => lifecycle # "finalized"
        BY <2>1 DEF GateInv, ActivatePc
      <3>2. Uncleared(j) => Uncleared(j)'
        BY <1>1, <1>5, <2>1, <2>5 DEF ActivateClear, At, Returns, Uncleared
      <3> QED
        BY <1>1, <2>1, <2>2, <3>1, <3>2, MaskKept
    <2> QED
      BY <2>3, <2>4, <2>5
  <1> QED
    BY <1>2, <1>3, <1>4, <1>5

\* The other callbacks know what they knew, or drop the transport.
LEMMA MaskFramework ==
  ASSUME TypeOK, GateInv, MaskInv, NEW j \in Joint,
         \/ \E commanded \in SUBSET Joint : Update(commanded)
         \/ \E stop \in SUBSET Joint, start \in [Joint -> SUBSET Levels] :
              PrepareCommandModeSwitch(stop, start)
         \/ DeactivateGate \/ DeactivateLock
         \/ \E i \in Joint, s \in {"ok", "soft", "fatal"} : DeactivateIdle(i, s)
         \/ OnCleanup \/ OnConfigure \/ Recover \/ HostRestart
  PROVE  MaskJoint(j)'
  <1>1. MaskJoint(j)
    BY DEF MaskInv
  <1>2. ASSUME NEW commanded \in SUBSET Joint, Update(commanded)
        PROVE  MaskJoint(j)'
    BY <1>1, <1>2, MaskKept DEF Update, Uncleared
  <1>3. ASSUME NEW stop \in SUBSET Joint, NEW start \in [Joint -> SUBSET Levels],
               PrepareCommandModeSwitch(stop, start)
        PROVE  MaskJoint(j)'
    <2>1. UNCHANGED <<lifecycle, svc, transport, errors, drive, missed>>
      BY <1>3 DEF PrepareCommandModeSwitch
    <2> QED
      BY <1>1, <2>1, MaskKept DEF Uncleared
  <1>4. CASE DeactivateGate \/ DeactivateLock
    <2>1. UNCHANGED <<transport, errors, drive, missed>> /\ ~Uncleared(j)
      BY <1>4 DEF DeactivateGate, DeactivateLock, MayCallLifecycle, host, Uncleared
    <2>2. lifecycle = "active"
      BY <1>4 DEF GateInv, DeactivatePc, DeactivateGate, DeactivateLock
    <2> QED
      BY <1>1, <2>1, <2>2, MaskKept
  <1>5. ASSUME NEW i \in Joint, NEW s \in {"ok", "soft", "fatal"}, DeactivateIdle(i, s)
        PROVE  MaskJoint(j)'
    <2>1. drive[i] \in Axis /\ RequestIdle(drive[i]) \in Axis
          /\ RequestIdle(drive[i]).err = drive[i].err
      BY AxisOperations, ErrorEffects DEF TypeOK
    <2>2. drive'[j].err \subseteq drive[j].err
      BY <1>5, <2>1, TransferAddsNoError DEF DeactivateIdle
    <2>3. UNCHANGED <<errors, missed>> /\ svc.pc = "deactivate_idle"
          /\ (transport' # "null" => transport # "null")
      BY <1>5 DEF DeactivateIdle, host, At
    <2>4. lifecycle = "active"
      BY <2>3 DEF GateInv, DeactivatePc
    <2> QED
      BY <1>1, <2>2, <2>3, <2>4, MaskKept DEF Uncleared
  <1>6. CASE OnConfigure
    BY <1>1, <1>6, MaskKept DEF OnConfigure, host, Uncleared
  <1>7. CASE OnCleanup \/ Recover \/ HostRestart
    BY <1>7 DEF OnCleanup, Recover, HostRestart, MaskJoint
  <1> QED
    BY <1>2, <1>3, <1>4, <1>5, <1>6, <1>7

\* A fault of a drive is missed until a sample with it is accepted.
LEMMA MaskDrives ==
  ASSUME TypeOK, MaskInv, NEW j \in Joint, Drives
  PROVE  MaskJoint(j)'
  <1>1. MaskJoint(j) /\ drive[j] \in Axis
    BY DEF MaskInv, TypeOK
  <1>2. UNCHANGED <<lifecycle, svc, transport, errors>>
    BY DEF Drives, WatchdogTick, WatchdogExpire, AxisFault, threads, host
  <1>3. missed'[j] \/ (missed'[j] = missed[j] /\ drive'[j].err = drive[j].err)
    <2>1. PICK k \in Joint :
            \/ WatchdogTick(k) \/ WatchdogExpire(k)
            \/ \E f \in Faults \ {"watchdog"}, stops \in BOOLEAN : AxisFault(k, f, stops)
      BY DEF Drives
    <2>2. CASE WatchdogTick(k)
      BY <1>1, <2>2 DEF WatchdogTick, TypeOK, Axis
    <2>3. CASE WatchdogExpire(k)
      BY <2>3 DEF WatchdogExpire, TypeOK
    <2>4. ASSUME NEW f, NEW stops, AxisFault(k, f, stops)
          PROVE  missed'[j] \/ (missed'[j] = missed[j] /\ drive'[j].err = drive[j].err)
      BY <2>4 DEF AxisFault, TypeOK
    <2> QED
      BY <2>1, <2>2, <2>3, <2>4
  <1> QED
    BY <1>1, <1>2, <1>3 DEF MaskJoint, Uncleared

\* write() starts only in a component that runs, and no activation that could
\* finalize it comes before its end.
LEMMA WriteRuns ==
  ASSUME TypeOK, SerialInv, rt.pc = "write" => lifecycle # "finalized", [Next]_vars
  PROVE  (rt.pc = "write" => lifecycle # "finalized")'
  <1>1. ASSUME NEW s, NEW i \in Joint,
               \/ RtTransaction(i, s) \/ PerformJoint(i) \/ MaskFaultedJoint(i)
               \/ WriteMasked(i) \/ WriteNothing(i)
        PROVE  (rt.pc = "write" => lifecycle # "finalized")'
    <2>1. CASE ReadJoint(i, s)
      BY <2>1 DEF ReadJoint, NextJoint, At
    <2>2. CASE ~ReadJoint(i, s)
      BY <1>1, <2>2, PerformSteps, WriteSteps DEF RtTransaction, PerformPc
    <2> QED
      BY <2>1, <2>2
  <1>2. ASSUME NEW s, StartRead(s)
        PROVE  (rt.pc = "write" => lifecycle # "finalized")'
    BY <1>2 DEF StartRead, At
  <1>3. ASSUME NEW commanded, Update(commanded)
        PROVE  (rt.pc = "write" => lifecycle # "finalized")'
    BY <1>3 DEF Update, At
  <1>4. CASE StartWrite
    BY <1>4 DEF StartWrite, Running, threads, At
  <1>5. ASSUME NEW stop, NEW start, PrepareCommandModeSwitch(stop, start)
        PROVE  (rt.pc = "write" => lifecycle # "finalized")'
    <2>1. UNCHANGED <<rt, lifecycle>>
      BY <1>5 DEF PrepareCommandModeSwitch
    <2> QED
      BY <2>1
  <1>6. ASSUME NEW i \in Joint, NEW s,
               ActivateConfigure(i, s) \/ ActivateClear(i, s) \/ ActivateEnable
        PROVE  (rt.pc = "write" => lifecycle # "finalized")'
    <2>1. svc.pc \in ActivatePc /\ UNCHANGED rt
      <3>1. CASE ActivateConfigure(i, s)
        <4>1. svc = At("activate_configure", i) /\ CallbackKeeps
          BY <3>1 DEF ActivateConfigure
        <4> QED
          BY <4>1 DEF CallbackKeeps, ActivatePc, At
      <3>2. CASE ActivateClear(i, s)
        BY <3>2 DEF ActivateClear, CallbackKeeps, ActivatePc, At
      <3>3. CASE ActivateEnable
        <4>1. svc.pc = "activate_enable" /\ CallbackKeeps
          BY <3>3 DEF ActivateEnable
        <4> QED
          BY <4>1 DEF CallbackKeeps, ActivatePc
      <3> QED
        BY <1>6, <3>1, <3>2, <3>3
    <2> QED
      BY <2>1 DEF SerialInv, InRtCall, RtPc, TypeOK
  <1>7. ASSUME NEW found \in BOOLEAN, ActivateOpen(found)
        PROVE  (rt.pc = "write" => lifecycle # "finalized")'
    <2>1. ~InRtCall /\ UNCHANGED rt
      BY <1>7 DEF ActivateOpen, CallbackKeeps
    <2> QED
      BY <2>1 DEF InRtCall, RtPc
  <1>8. ASSUME NEW i \in Joint, NEW s, DeactivateIdle(i, s)
        PROVE  (rt.pc = "write" => lifecycle # "finalized")'
    BY <1>8 DEF DeactivateIdle, Returns, CallbackKeeps
  <1>9. CASE DeactivateGate \/ DeactivateLock
    BY <1>9 DEF DeactivateGate, DeactivateLock, Returns, CallbackKeeps
  <1>10. CASE OnCleanup \/ OnConfigure \/ Recover \/ HostRestart
    BY <1>10 DEF OnCleanup, OnConfigure, Recover, HostRestart
  <1>11. CASE Drives
    BY <1>11 DEF Drives, WatchdogTick, WatchdogExpire, AxisFault, threads
  <1>12. CASE UNCHANGED vars
    BY <1>12 DEF vars, threads
  <1>13. CASE ControlLoop
    <2>1. CASE \E s \in {"ok", "soft", "fatal"}, i \in Joint : RtTransaction(i, s)
      BY <1>1, <2>1
    <2>2. CASE \E i \in Joint : \/ PerformJoint(i) \/ MaskFaultedJoint(i)
                               \/ WriteMasked(i) \/ WriteNothing(i)
      BY <1>1, <2>2
    <2>3. CASE \E s \in {"ok", "soft", "fatal"} : StartRead(s)
      BY <1>2, <2>3
    <2>4. CASE \E commanded \in SUBSET Joint : Update(commanded)
      BY <1>3, <2>4
    <2> QED
      BY <1>4, <1>13, <2>1, <2>2, <2>3, <2>4 DEF ControlLoop
  <1>14. CASE Callback
    <2>1. CASE \E i \in Joint, s \in {"ok", "soft", "fatal"} :
                 ActivateConfigure(i, s) \/ ActivateClear(i, s)
      BY <1>6, <2>1
    <2>2. CASE \E i \in Joint, s \in {"ok", "soft", "fatal"} : DeactivateIdle(i, s)
      BY <1>8, <2>2
    <2>3. CASE ActivateEnable
      BY <1>6, <2>3, JointFacts
    <2> QED
      BY <1>9, <1>14, <2>1, <2>2, <2>3 DEF Callback
  <1>15. CASE Framework
    <2>1. CASE \E stop \in SUBSET Joint, start \in [Joint -> SUBSET Levels] :
                 PrepareCommandModeSwitch(stop, start)
      BY <1>5, <2>1
    <2> QED
      BY <1>7, <1>9, <1>10, <1>15, <2>1 DEF Framework
  <1> QED
    BY <1>11, <1>12, <1>13, <1>14, <1>15 DEF Next

\* The knowledge of the errors is inductive, together with who may be where.
LEMMA MaskInductive ==
  ASSUME TypeOK, SerialInv, GateInv, MaskInv, [Next]_vars
  PROVE  MaskInv'
  <1>1. ASSUME NEW j \in Joint
        PROVE  MaskJoint(j)'
    <2>1. CASE ControlLoop
      <3>1. ASSUME NEW s \in {"ok", "soft", "fatal"}, NEW i \in Joint, RtTransaction(i, s)
            PROVE  MaskJoint(j)'
        BY <3>1, MaskRead, MaskPerform, MaskWrite DEF RtTransaction
      <3>2. ASSUME NEW i \in Joint,
                   PerformJoint(i) \/ MaskFaultedJoint(i) \/ WriteMasked(i) \/ WriteNothing(i)
            PROVE  MaskJoint(j)'
        BY <3>2, MaskPerform, MaskWrite
      <3>3. ASSUME NEW s \in {"ok", "soft", "fatal"}, StartRead(s)
            PROVE  MaskJoint(j)'
        BY <3>3, MaskRead
      <3>4. CASE StartWrite
        BY <3>4, MaskWrite
      <3>5. ASSUME NEW commanded \in SUBSET Joint, Update(commanded)
            PROVE  MaskJoint(j)'
        BY <3>5, MaskFramework
      <3> QED
        BY <2>1, <3>1, <3>2, <3>3, <3>4, <3>5 DEF ControlLoop
    <2>2. CASE Callback
      BY <2>2, MaskActivate, MaskFramework, JointFacts DEF Callback
    <2>3. CASE Framework
      <3>1. ASSUME NEW found \in BOOLEAN, ActivateOpen(found)
            PROVE  MaskJoint(j)'
        BY <3>1, MaskActivate, JointFacts
      <3>2. ASSUME NEW stop \in SUBSET Joint, NEW start \in [Joint -> SUBSET Levels],
                   PrepareCommandModeSwitch(stop, start)
            PROVE  MaskJoint(j)'
        BY <3>2, MaskFramework
      <3>3. CASE DeactivateGate \/ OnCleanup \/ OnConfigure \/ Recover \/ HostRestart
        BY <3>3, MaskFramework
      <3> QED
        BY <2>3, <3>1, <3>2, <3>3 DEF Framework
    <2>4. CASE Drives
      BY <2>4, MaskDrives
    <2>5. CASE UNCHANGED vars
      BY <2>5 DEF vars, host, threads, MaskInv, MaskJoint, Uncleared
    <2> QED
      BY <2>1, <2>2, <2>3, <2>4, <2>5 DEF Next
  <1>2. (rt.pc = "write" => lifecycle # "finalized")'
    BY WriteRuns DEF MaskInv
  <1> QED
    BY <1>1, <1>2 DEF MaskInv

\* No request but the feed at the end of a command feeds an axis's watchdog.
LEMMA FeedEffects ==
  ASSUME NEW a \in Axis
  PROVE  RequestIdle(a).fed = a.fed /\ \A f : Latch(a, f).fed = a.fed
  BY DEF Axis, RequestIdle, Latch

\* While write() is under way only write_axis_command() feeds a watchdog: the callback
\* that may run beside it waits for state_mutex_.
LEMMA FeedsByCommand ==
  ASSUME TypeOK, SerialInv, [Next]_vars, NEW j \in Joint, Feeds(j)
  PROVE  ~HasFault(j)
  <1>1. /\ rt.pc = "write" /\ drive'[j].fed # drive[j].fed /\ drive[j] \in Axis
        /\ svc.pc \in {"none", "deactivate_lock"}
    BY DEF Feeds, SerialInv, TypeOK
  <1>2. CASE ControlLoop
    <2>1. PICK i \in Joint, s \in {"ok", "soft", "fatal"} :
            \/ WriteIdleOnFault(i, s) \/ WriteCommand(i, s)
            \/ WriteMasked(i) \/ WriteNothing(i)
      <3>1. ASSUME NEW i \in Joint, NEW s \in {"ok", "soft", "fatal"},
                   RtTransaction(i, s) \/ PerformJoint(i) \/ MaskFaultedJoint(i)
            PROVE  WriteIdleOnFault(i, s) \/ WriteCommand(i, s)
        <4>1. ~ReadJoint(i, s)
          BY <1>1 DEF ReadJoint, At
        <4> QED
          BY <1>1, <3>1, <4>1, PerformSteps DEF RtTransaction, PerformPc
      <3>2. ASSUME NEW s, StartRead(s) \/ StartWrite
            PROVE  FALSE
        BY <1>1, <3>2 DEF StartRead, StartWrite
      <3>3. ASSUME NEW commanded, Update(commanded)
            PROVE  FALSE
        BY <1>1, <3>3 DEF Update
      <3> QED
        BY <1>2, <3>1, <3>2, <3>3 DEF ControlLoop
    <2>2. CASE WriteIdleOnFault(i, s)
      <3>1. drive[i] \in Axis /\ Transfer(i, RequestIdle(drive[i]), s)
        BY <2>2 DEF WriteIdleOnFault, TypeOK
      <3> QED
        BY <1>1, <3>1, FeedEffects, TransferEffect
    <2>3. CASE WriteCommand(i, s)
      <3>1. /\ ~HasFault(i)
            /\ \/ Transfer(i, FeedWatchdog(drive[i]), s)
               \/ Transfer(i, drive[i], s)
        BY <2>3 DEF WriteCommand
      <3>2. j = i
        BY <1>1, <3>1, TransferEffect
      <3> QED
        BY <3>1, <3>2
    <2>4. CASE WriteMasked(i) \/ WriteNothing(i)
      BY <1>1, <2>4 DEF WriteMasked, WriteNothing
    <2> QED
      BY <2>1, <2>2, <2>3, <2>4
  <1>3. CASE Callback
    <2>1. ASSUME NEW i \in Joint, NEW s, ActivateConfigure(i, s)
          PROVE  FALSE
      <3>1. svc = At("activate_configure", i)
        BY <2>1 DEF ActivateConfigure
      <3> QED
        BY <1>1, <3>1 DEF At
    <2>2. ASSUME NEW i \in Joint, NEW s, ActivateClear(i, s) \/ DeactivateIdle(i, s)
          PROVE  FALSE
      BY <1>1, <2>2 DEF ActivateClear, DeactivateIdle, At
    <2>3. ~ActivateEnable
      BY <1>1 DEF ActivateEnable
    <2>4. CASE DeactivateLock
      BY <1>1, <2>4 DEF DeactivateLock
    <2> QED
      BY <1>3, <2>1, <2>2, <2>3, <2>4 DEF Callback
  <1>4. CASE Framework
    <2>1. UNCHANGED drive
      BY <1>4 DEF Framework, PrepareCommandModeSwitch, ActivateOpen, DeactivateGate, OnCleanup,
           OnConfigure, Recover, HostRestart
    <2> QED
      BY <1>1, <2>1
  <1>5. CASE Drives
    <2>1. PICK k \in Joint :
            \/ WatchdogTick(k) \/ WatchdogExpire(k)
            \/ \E f \in Faults \ {"watchdog"}, stops \in BOOLEAN : AxisFault(k, f, stops)
      BY <1>5 DEF Drives
    <2>2. CASE WatchdogTick(k)
      BY <1>1, <2>2 DEF WatchdogTick, Feeds, TypeOK, Axis
    <2>3. ASSUME NEW f \in Faults
          PROVE  /\ Latch(drive[k], f).fed = drive[k].fed
                 /\ RequestIdle(Latch(drive[k], f)).fed = drive[k].fed
      <3>1. drive[k] \in Axis /\ Latch(drive[k], f) \in Axis
        BY DEF TypeOK, Axis, Latch
      <3> QED
        BY <3>1, FeedEffects
    <2>4. CASE WatchdogExpire(k)
      BY <1>1, <2>3, <2>4, ConstantsAssumption DEF WatchdogExpire, TypeOK
    <2>5. ASSUME NEW f \in Faults \ {"watchdog"}, NEW stops \in BOOLEAN, AxisFault(k, f, stops)
          PROVE  FALSE
      BY <1>1, <2>3, <2>5 DEF AxisFault, TypeOK
    <2> QED
      BY <2>1, <2>2, <2>4, <2>5
  <1>6. CASE UNCHANGED vars
    BY <1>1, <1>6 DEF vars
  <1> QED
    BY <1>2, <1>3, <1>4, <1>5, <1>6 DEF Next

\* What is known of the errors makes the masking effective.
LEMMA FeedsWithoutKnownError ==
  ASSUME TypeOK, SerialInv, TransportStaysWhileUsed, MaskInv, [Next]_vars,
         mask_faulted_axes, NEW j \in Joint, Feeds(j), drive[j].err # {}
  PROVE  missed[j]
  <1>1. rt.pc = "write" /\ transport # "null" /\ lifecycle # "finalized" /\ ~Uncleared(j)
    BY DEF Feeds, TransportStaysWhileUsed, MaskInv, SerialInv, Uncleared
  <1>2. errors[j] = {}
    BY FeedsByCommand DEF HasFault
  <1>3. ~missed[j] => drive[j].err \subseteq errors[j]
    BY <1>1 DEF MaskInv, MaskJoint
  <1> QED
    BY <1>2, <1>3 DEF TypeOK

\* mask_faulted_axes: write() never feeds the watchdog of an axis whose fault was in a
\* sample that read() accepted, for any number of joints, although the error interfaces
\* are reset by on_cleanup and recover and the drives' errors by on_activate.
THEOREM MaskHolds == Spec => FaultedAxisIsMasked
  <1>1. Init => SerialInv /\ TransportStaysWhileUsed /\ GateInv /\ MaskInv
    BY DEF Init, SerialInv, TransportStaysWhileUsed, GateInv, MaskInv, MaskJoint, At, PerformPc,
           ActivatePc, DeactivatePc
  <1>2. TypeOK /\ SerialInv /\ TransportStaysWhileUsed /\ GateInv /\ MaskInv /\ [Next]_vars
          => SerialInv' /\ TransportStaysWhileUsed' /\ GateInv' /\ MaskInv'
    BY SerialInductive, GateInductive, MaskInductive
  <1>3. TypeOK /\ SerialInv /\ TransportStaysWhileUsed /\ MaskInv /\ [Next]_vars
          => [mask_faulted_axes =>
                \A j \in Joint : Feeds(j) /\ drive[j].err # {} => missed[j]]_vars
    BY FeedsWithoutKnownError
  <1> QED
    BY <1>1, <1>2, <1>3, Typing, PTL DEF Spec, FaultedAxisIsMasked
=============================================================================
