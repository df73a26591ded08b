----------------------------- MODULE StartupProofs -----------------------------
(***************************************************************************)
(* Proofs about Startup, for every number of joints, all parameters, every *)
(* set of status codes and number of attempts.                             *)
(***************************************************************************)
EXTENDS Startup, TLAPS

\* What the loop of initialize_transport() has done for a joint.
Configured(j) == j \in torque_known /\ TimeoutIsSet(j)

\* How far a setup is, and what is left of it when it fails.
SetupInv ==
    /\ \A j \in DOMAIN joints : joints[j].watchdog_timeout \in Readable
    /\ stage = "joints" => Len(joints) < N
    /\ stage \notin {"clear", "active", "finalized"} => outputs_enabled = FALSE
    /\ gate_outputs_with_lifecycle = FALSE => outputs_enabled = FALSE
    /\ stage = "clear" => DrivesAreSetUp
    /\ stage \in Requests \cup {"ready"} => transport = TRUE
    /\ stage \in Requests =>
        \A j \in Joint : j < joint => Configured(j) /\ drive[j].armed = FALSE
    /\ stage \in {"timeout", "disarm"} => joint \in torque_known
    /\ stage = "disarm" => TimeoutIsSet(joint)

\* What an active component whose log says online has, or what recover() has left it.
OnlineInv == stage = "active" /\ log = "online" => DrivesAreSetUp \/ RuntimeIsReset

IInv == TypeOK /\ SetupInv /\ DeadSessionIsLeft /\ ReadyIsConfigured /\ OnlineInv

-----------------------------------------------------------------------------
(* Parsing. *)

\* What is accepted of a joint is what TypeOK says of it.
LEMMA AcceptedJoint ==
  ASSUME NEW p \in JointParameters, JointIsAccepted(p)
  PROVE  /\ p.enable_watchdog => p.watchdog_timeout = NaN \/ p.watchdog_timeout >= 10
         /\ {p.position_min, p.position_max} \subseteq Int => p.position_min <= p.position_max
  <1>1. p.enable_watchdog => p.watchdog_timeout = NaN \/ p.watchdog_timeout >= 10
    BY DEF JointIsAccepted, TimeoutIsAccepted, Less, Readable
  <1>2. {p.position_min, p.position_max} \subseteq Int => p.position_min <= p.position_max
    BY DEF JointIsAccepted, Less
  <1>3. QED
    BY <1>1, <1>2

\* The USB time-out is within its range, whatever the parameter and its wrapped value.
LEMMA UsbTimeoutInRange ==
  ASSUME NEW p PROVE UsbTimeout(p) \in MIN_USB_TIMEOUT_MS .. MAX_USB_TIMEOUT_MS
  BY StartupAssumption DEF UsbTimeout

\* A code that is tried again is none that makes the session's error sticky.
LEMMA RetryIsAlive == ASSUME NEW s, Again(s) PROVE s \notin StickyCodes
  BY DEF Again, is_retryable, errno_to_transport_error, StickyCodes, LIBUSB_ERROR_NO_DEVICE,
         LIBUSB_ERROR_TIMEOUT

\* The first state.
LEMMA StartInit == Init => IInv
  <1> SUFFICES ASSUME Init PROVE IInv
    OBVIOUS
  <1>1. Joint # {} /\ 1 \in Joint
    BY StartupAssumption DEF Joint
  <1>2. TypeOK
    <2>1. joints \in Seq(JointParameters) /\ Len(joints) = 0 /\ DOMAIN joints = {}
      BY DEF Init
    <2>2. drive \in [Joint -> [armed : BOOLEAN, timeout : Readable \cup {Absent}]]
      BY DEF Init
    <2>3. {gate_outputs_with_lifecycle, outputs_enabled, transport} \subseteq BOOLEAN
      BY DEF Init
    <2>4. 0 <= N /\ attempt \in 0 .. MaxAttempts - 1
      BY StartupAssumption DEF Init
    <2>5. usb_timeout_ms \in MIN_USB_TIMEOUT_MS .. MAX_USB_TIMEOUT_MS
      BY StartupAssumption DEF Init
    <2>6. QED
      BY <1>1, <2>1, <2>2, <2>3, <2>4, <2>5 DEF Init, TypeOK
  <1>3. SetupInv
    <2>1. DOMAIN joints = {} /\ Len(joints) = 0
      BY DEF Init
    <2>2. QED
      BY <2>1, StartupAssumption DEF Init, SetupInv, Requests
  <1>4. DeadSessionIsLeft /\ ReadyIsConfigured /\ OnlineInv
    BY DEF Init, DeadSessionIsLeft, ReadyIsConfigured, OnlineInv, Requests
  <1>5. QED
    BY <1>2, <1>3, <1>4 DEF IInv

\* One joint is parsed: the list grows by what was accepted, up to N.
LEMMA ParseJointKeeps ==
  ASSUME IInv, NEW p \in JointParameters, ParseJoint(p) PROVE IInv'
  <1> USE DEF IInv
  <1>a. /\ joints \in Seq(JointParameters) /\ Len(joints) \in Nat /\ Len(joints) < N /\ N \in Nat
        /\ Append(joints, p) \in Seq(JointParameters)
        /\ Len(Append(joints, p)) = Len(joints) + 1
    BY StartupAssumption DEF ParseJoint, TypeOK, SetupInv
  <1>b. \/ stage' = "failed" /\ joints' = joints
        \/ /\ joints' = Append(joints, p)
           /\ stage' = IF Len(joints) + 1 = N THEN "parameters" ELSE "joints"
    BY DEF ParseJoint
  <1>1. TypeOK'
    <2>1. joints' \in Seq(JointParameters) /\ Len(joints') <= N
          /\ (stage' \notin {"joints", "failed"} => Len(joints') = N)
      BY <1>a, <1>b
    <2>2. ASSUME NEW j \in DOMAIN joints'
          PROVE  LET q == joints'[j] IN
                 /\ q.enable_watchdog => q.watchdog_timeout = NaN \/ q.watchdog_timeout >= 10
                 /\ {q.position_min, q.position_max} \subseteq Int
                      => q.position_min <= q.position_max
      <3>1. CASE joints' = joints
        BY <3>1, <2>2 DEF TypeOK
      <3>2. CASE JointIsAccepted(p) /\ joints' = Append(joints, p)
        <4>1. joints'[j] = p \/ (j \in DOMAIN joints /\ joints'[j] = joints[j])
          BY <3>2, <2>2 DEF TypeOK
        <4>2. QED
          BY <4>1, <3>2, AcceptedJoint DEF TypeOK
      <3>3. QED
        BY <3>1, <3>2 DEF ParseJoint
    <2>3. QED
      BY <2>1, <2>2 DEF ParseJoint, TypeOK, session, Requests
  <1>2. SetupInv'
    <2>1. stage' = "joints" => Len(joints') < N
      BY <1>a, <1>b
    <2>2. stage' \in {"failed", "parameters", "joints"} /\ outputs_enabled' = FALSE
      BY <1>b DEF ParseJoint, SetupInv
    <2>3. \A j \in DOMAIN joints' : joints'[j].watchdog_timeout \in Readable
      <3>1. CASE joints' = joints
        BY <3>1 DEF SetupInv
      <3>2. CASE JointIsAccepted(p) /\ joints' = Append(joints, p)
        BY <3>2, <1>a DEF SetupInv, JointIsAccepted
      <3>3. QED
        BY <3>1, <3>2 DEF ParseJoint
    <2>4. QED
      BY <2>1, <2>2, <2>3 DEF SetupInv, Requests
  <1>3. DeadSessionIsLeft' /\ ReadyIsConfigured' /\ OnlineInv'
    BY DEF ParseJoint, SetupInv, DeadSessionIsLeft, ReadyIsConfigured, OnlineInv, Requests
  <1>4. QED
    BY <1>1, <1>2, <1>3

\* The parameters of the component are parsed.
LEMMA ParseParametersKeeps ==
  ASSUME IInv, NEW usb \in UsbParameters, NEW gate \in BoolParameters, ParseParameters(usb, gate)
  PROVE  IInv'
  <1> USE DEF IInv
  <1>1. TypeOK'
    BY UsbTimeoutInRange DEF ParseParameters, TypeOK, session, Requests
  <1>2. SetupInv'
    BY DEF ParseParameters, SetupInv, TypeOK, session, Requests
  <1>3. DeadSessionIsLeft' /\ ReadyIsConfigured' /\ OnlineInv'
    BY DEF ParseParameters, SetupInv, DeadSessionIsLeft, ReadyIsConfigured, OnlineInv,
           Requests
  <1>4. QED
    BY <1>1, <1>2, <1>3

-----------------------------------------------------------------------------
(* Setup. *)

\* The effect of a transfer on the drives: at one joint, and what the request asked for.
LEMMA WrittenDrive ==
  ASSUME TypeOK, SetupInv, stage \in Requests, NEW applied \in BOOLEAN, Written(applied)
  PROVE  /\ drive' \in [Joint -> [armed : BOOLEAN, timeout : Readable \cup {Absent}]]
         /\ \A j \in Joint : j # joint => drive'[j] = drive[j]
         /\ stage # "timeout" => drive'[joint].timeout = drive[joint].timeout
         /\ stage # "disarm" => drive'[joint].armed = drive[joint].armed
         /\ stage = "timeout" /\ applied => drive'[joint].timeout = joints[joint].watchdog_timeout
         /\ stage = "disarm" /\ applied => drive'[joint].armed = FALSE
  <1>1. joints[joint] \in JointParameters /\ joint \in DOMAIN joints /\ joint \in Joint
    BY DEF TypeOK, Requests, Joint
  <1>2. joints[joint].watchdog_timeout \in Readable
    BY <1>1 DEF SetupInv
  <1>3. QED
    BY <1>1, <1>2 DEF Written, TypeOK, Requests

\* The type of the axes.
DriveType == [Joint -> [armed : BOOLEAN, timeout : Readable \cup {Absent}]]

\* A setup that fails leaves an active component without a transport, its gate closed and the
\* log saying so, wherever it was.
LEMMA FailKeeps ==
  ASSUME IInv, stage \in Requests \cup {"inactive"}, Fail, UNCHANGED <<configuration, torque_known>>,
         joint' \in Joint, attempt' \in 0 .. MaxAttempts - 1, drive' \in DriveType
  PROVE  IInv'
  <1> USE DEF IInv
  <1>1. /\ outputs_enabled' = FALSE /\ stage' = "active" /\ log' = "offline" /\ sticky' = 0
        /\ transport' = FALSE
    BY DEF Fail, SetupInv, Requests
  <1>2. TypeOK'
    BY <1>1 DEF TypeOK, configuration, Requests, DriveType
  <1>3. SetupInv'
    BY <1>1 DEF SetupInv, configuration, Requests
  <1>4. DeadSessionIsLeft' /\ ReadyIsConfigured' /\ OnlineInv'
    BY <1>1 DEF DeadSessionIsLeft, ReadyIsConfigured, OnlineInv, Requests
  <1>5. QED
    BY <1>2, <1>3, <1>4

\* A transfer that is tried again leaves the setup where it was: the session is alive, and what
\* its unacknowledged try may have done to the drive is what the next one does.
LEMMA RetriedKeeps ==
  ASSUME IInv, NEW s \in {0} \cup Codes, NEW applied \in BOOLEAN,
         Transfer(s, applied), Written(applied), Retried(s), UNCHANGED configuration
  PROVE  IInv'
  <1> USE DEF IInv
  <1>1. /\ sticky' = sticky /\ stage' = stage /\ joint' = joint /\ stage \in Requests
        /\ UNCHANGED <<outputs_enabled, transport, torque_known, log, joints>>
    BY RetryIsAlive DEF Retried, Transfer, Stuck, configuration
  <1>2. attempt' \in 0 .. MaxAttempts - 1
    BY StartupAssumption DEF Retried, Again, TypeOK
  <1>3. /\ drive' \in DriveType
        /\ \A j \in Joint : j # joint => drive'[j] = drive[j]
        /\ stage # "timeout" => drive'[joint].timeout = drive[joint].timeout
    BY <1>1, WrittenDrive DEF DriveType
  <1>4. TypeOK'
    BY <1>1, <1>2, <1>3 DEF TypeOK, configuration, DriveType
  <1>5. SetupInv'
    <2>1. \A j \in Joint : j < joint => j # joint
      BY DEF Joint, TypeOK
    <2>2. \A j \in Joint : j < joint => Configured(j)' /\ drive'[j].armed = FALSE
      BY <1>1, <1>3, <2>1 DEF SetupInv, Configured, TimeoutIsSet
    <2>3. stage = "disarm" => TimeoutIsSet(joint)'
      BY <1>1, <1>3 DEF SetupInv, TimeoutIsSet, TypeOK
    <2>4. QED
      BY <1>1, <2>2, <2>3 DEF SetupInv, Requests
  <1>6. DeadSessionIsLeft' /\ ReadyIsConfigured' /\ OnlineInv'
    BY <1>1 DEF DeadSessionIsLeft, ReadyIsConfigured, OnlineInv, SetupInv, Requests
  <1>7. QED
    BY <1>4, <1>5, <1>6

\* An acknowledged request: the joint is one step further, or the loop goes on behind it.
LEMMA AnsweredKeeps ==
  ASSUME IInv, stage \in Requests, Written(TRUE), Answered, UNCHANGED configuration
  PROVE  IInv'
  <1> USE DEF IInv
  <1> DEFINE Before(j) == Configured(j) /\ drive[j].armed = FALSE
  <1>1. /\ sticky' = 0 /\ sticky = 0 /\ transport' = TRUE /\ outputs_enabled' = FALSE
        /\ UNCHANGED <<joints, log>> /\ joint \in Joint /\ joint \in 1..N /\ N \in Nat
        /\ torque_known \subseteq torque_known'
    BY StartupAssumption
       DEF Answered, SetupInv, DeadSessionIsLeft, session, configuration, Requests, TypeOK, Joint
  <1>2. /\ drive' \in DriveType
        /\ \A j \in Joint : j # joint => drive'[j] = drive[j]
        /\ stage # "timeout" => drive'[joint].timeout = drive[joint].timeout
        /\ stage = "timeout" => drive'[joint].timeout = joints[joint].watchdog_timeout
        /\ stage = "disarm" => drive'[joint].armed = FALSE
    BY WrittenDrive DEF DriveType
  <1>3. \A j \in Joint : j < joint => Before(j)'
    <2>1. \A j \in Joint : j < joint => j # joint
      BY <1>1 DEF Joint
    <2>2. QED
      BY <1>1, <1>2, <2>1 DEF SetupInv, Configured, TimeoutIsSet
  <1>4. /\ joint' \in Joint /\ attempt' = 0
        /\ stage' \in Requests \cup {"ready"} /\ torque_known' \subseteq Joint
    BY <1>1 DEF Answered, Joint, TypeOK, Requests
  <1>5. TypeOK'
    <2>1. 0 \in 0 .. MaxAttempts - 1
      BY StartupAssumption
    <2>2. stage \notin {"joints", "failed"} /\ Len(joints) = N
      BY DEF TypeOK, Requests
    <2>3. QED
      BY <1>1, <1>2, <1>4, <2>1, <2>2 DEF TypeOK, configuration, DriveType
  <1>6. CASE stage = "torque"
    <2>1. /\ joint' = joint /\ joint \in torque_known'
          /\ stage' = IF joints[joint].enable_watchdog THEN "timeout" ELSE "disarm"
      BY <1>6 DEF Answered
    <2>2. stage' = "disarm" => TimeoutIsSet(joint)'
      BY <1>1, <2>1 DEF TimeoutIsSet
    <2>3. SetupInv'
      BY <1>1, <1>3, <1>4, <2>1, <2>2 DEF SetupInv, Requests
    <2>4. DeadSessionIsLeft' /\ ReadyIsConfigured' /\ OnlineInv'
      BY <1>1, <2>1 DEF DeadSessionIsLeft, ReadyIsConfigured, OnlineInv
    <2>5. QED
      BY <1>5, <2>3, <2>4
  <1>7. CASE stage = "timeout"
    <2>1. joint' = joint /\ joint \in torque_known' /\ stage' = "disarm"
      BY <1>7, <1>1 DEF Answered, SetupInv
    <2>2. TimeoutIsSet(joint)'
      BY <1>1, <1>2, <1>7, <2>1 DEF TimeoutIsSet
    <2>3. SetupInv'
      BY <1>1, <1>3, <1>4, <2>1, <2>2 DEF SetupInv, Requests
    <2>4. DeadSessionIsLeft' /\ ReadyIsConfigured' /\ OnlineInv'
      BY <1>1, <2>1 DEF DeadSessionIsLeft, ReadyIsConfigured, OnlineInv
    <2>5. QED
      BY <1>5, <2>3, <2>4
  <1>8. CASE stage = "disarm"
    <2>1. \A j \in Joint : j <= joint => Before(j)'
      <3>1. ASSUME NEW j \in Joint, j = joint PROVE Before(j)'
        <4>1. j \in torque_known' /\ TimeoutIsSet(j)
          BY <1>1, <1>8, <3>1 DEF SetupInv
        <4>2. drive'[j].timeout = drive[j].timeout /\ drive'[j].armed = FALSE
          BY <1>2, <1>8, <3>1
        <4>3. TimeoutIsSet(j)'
          BY <1>1, <4>1, <4>2 DEF TimeoutIsSet
        <4>4. QED
          BY <4>1, <4>2, <4>3 DEF Configured
      <3>2. \A j \in Joint : j <= joint => j < joint \/ j = joint
        BY <1>1 DEF Joint
      <3>3. QED
        BY <1>3, <3>1, <3>2
    <2>2. \/ stage' = "torque" /\ joint' = joint + 1
          \/ stage' = "ready" /\ joint' = joint /\ joint = N
      BY <1>1, <1>8 DEF Answered
    <2>3. CASE stage' = "torque" /\ joint' = joint + 1
      <3>1. \A j \in Joint : j < joint' => j <= joint
        BY <1>1, <2>3 DEF Joint
      <3>2. SetupInv'
        BY <1>1, <2>1, <2>3, <3>1 DEF SetupInv, Requests
      <3>3. DeadSessionIsLeft' /\ ReadyIsConfigured' /\ OnlineInv'
        BY <1>1, <2>3 DEF DeadSessionIsLeft, ReadyIsConfigured, OnlineInv
      <3>4. QED
        BY <1>5, <3>2, <3>3
    <2>4. CASE stage' = "ready" /\ joint' = joint /\ joint = N
      <3>1. \A j \in Joint : Before(j)'
        BY <1>1, <2>1, <2>4 DEF Joint
      <3>2. torque_known' = Joint
        BY <3>1, <1>4 DEF Configured
      <3>3. SetupInv'
        BY <1>1, <2>4 DEF SetupInv, Requests
      <3>4. DeadSessionIsLeft' /\ ReadyIsConfigured' /\ OnlineInv'
        BY <1>1, <2>4, <3>1, <3>2
           DEF DeadSessionIsLeft, ReadyIsConfigured, OnlineInv, Configured, Requests
      <3>5. QED
        BY <1>5, <3>3, <3>4
    <2>5. QED
      BY <2>2, <2>3, <2>4
  <1>9. QED
    BY <1>6, <1>7, <1>8 DEF Requests

-----------------------------------------------------------------------------
(* The steps. *)

\* A new transport: found, or not; nothing is known of any joint before the first one.
LEMMA ActivateKeeps == ASSUME IInv, NEW s \in {0} \cup Codes, Activate(s) PROVE IInv'
  <1> USE DEF IInv
  <1>1. 1 \in Joint /\ 0 \in 0 .. MaxAttempts - 1
    BY StartupAssumption DEF Joint
  <1>2. CASE s # 0
    BY <1>1, <1>2, FailKeeps DEF Activate, configuration, TypeOK, DriveType
  <1>3. CASE s = 0
    <2>1. /\ stage' = "torque" /\ transport' = TRUE /\ sticky' = 0 /\ log' = "online"
          /\ joint' = 1 /\ attempt' = 0 /\ stage = "inactive"
          /\ UNCHANGED <<configuration, outputs_enabled, torque_known, drive>>
      BY <1>3 DEF Activate
    <2>2. TypeOK'
      BY <1>1, <2>1 DEF TypeOK, configuration, Requests
    <2>3. \A j \in Joint : ~(j < 1)
      BY DEF Joint
    <2>4. SetupInv'
      BY <2>1, <2>3 DEF SetupInv, configuration, Requests
    <2>5. DeadSessionIsLeft' /\ ReadyIsConfigured' /\ OnlineInv'
      BY <2>1 DEF DeadSessionIsLeft, ReadyIsConfigured, OnlineInv, SetupInv, Requests
    <2>6. QED
      BY <2>2, <2>4, <2>5
  <1>4. QED
    BY <1>2, <1>3

\* A transfer is acknowledged, tried again or given up.
LEMMA RequestKeeps ==
  ASSUME IInv, NEW s \in {0} \cup Codes, NEW applied \in BOOLEAN, Request(s, applied) PROVE IInv'
  <1> USE DEF IInv
  <1>1. Transfer(s, applied) /\ stage \in Requests /\ Written(applied) /\ UNCHANGED configuration
    BY DEF Request, Transfer
  <1>2. CASE s = 0
    <2>1. applied /\ Answered
      BY <1>2 DEF Request, Transfer
    <2>2. Written(TRUE)
      BY <1>1, <2>1 DEF Written
    <2>3. QED
      BY <1>1, <2>1, <2>2, AnsweredKeeps
  <1>3. CASE s # 0 /\ Again(s)
    <2>1. Retried(s)
      BY <1>3 DEF Request
    <2>2. QED
      BY <1>1, <2>1, RetriedKeeps
  <1>4. CASE s # 0 /\ ~Again(s)
    <2>1. Fail /\ UNCHANGED <<joint, attempt, torque_known>>
      BY <1>4 DEF Request
    <2>2. drive' \in DriveType
      BY <1>1, WrittenDrive DEF DriveType
    <2>3. joint' \in Joint /\ attempt' \in 0 .. MaxAttempts - 1
      BY <2>1 DEF TypeOK
    <2>4. QED
      BY <1>1, <2>1, <2>2, <2>3, FailKeeps
  <1>5. QED
    BY <1>2, <1>3, <1>4

\* The gate opens behind the last joint.
LEMMA EnableKeeps == ASSUME IInv, Enable PROVE IInv'
  <1> USE DEF IInv
  <1>a. joint' \in Joint
    BY StartupAssumption DEF Enable, Joint
  <1>b. outputs_enabled' \in BOOLEAN
    BY DEF Enable, TypeOK
  <1>c. /\ stage = "ready" /\ stage' = "clear"
        /\ UNCHANGED <<attempt, configuration, session, torque_known, log, drive>>
    BY DEF Enable
  <1>1. TypeOK'
    BY <1>a, <1>b, <1>c DEF TypeOK, configuration, session, Requests
  <1>2. transport' = TRUE /\ torque_known' = Joint /\ \A j \in Joint : TimeoutIsSet(j)'
    BY DEF Enable, SetupInv, ReadyIsConfigured, TimeoutIsSet, configuration, session
  <1>3. SetupInv'
    BY <1>2 DEF Enable, SetupInv, DrivesAreSetUp, configuration, Requests, TypeOK
  <1>4. DeadSessionIsLeft' /\ ReadyIsConfigured' /\ OnlineInv'
    BY <1>2 DEF Enable, DeadSessionIsLeft, ReadyIsConfigured, OnlineInv, Requests
  <1>5. QED
    BY <1>1, <1>3, <1>4

\* The errors of one axis are cleared, or the component is finalised; the drives stay set up.
LEMMA ClearErrorsKeeps == ASSUME IInv, NEW s \in {0} \cup Codes, ClearErrors(s) PROVE IInv'
  <1> USE DEF IInv
  <1>1. /\ stage = "clear" /\ stage' \in {"clear", "active", "finalized"} /\ joint \in 1..N
        /\ N \in Nat
        /\ UNCHANGED <<attempt, configuration, outputs_enabled, transport, torque_known, log, drive>>
    BY StartupAssumption DEF ClearErrors, TypeOK, Joint
  <1>2. joint' \in Joint /\ sticky' \in {0} \cup StickyCodes
    BY <1>1 DEF ClearErrors, Stuck, TypeOK, Joint
  <1>3. TypeOK'
    BY <1>1, <1>2 DEF TypeOK, configuration, Requests
  <1>4. \A j \in Joint : TimeoutIsSet(j) => TimeoutIsSet(j)'
    BY <1>1 DEF TimeoutIsSet, configuration
  <1>5. DrivesAreSetUp /\ DrivesAreSetUp'
    BY <1>1, <1>4 DEF SetupInv, DrivesAreSetUp
  <1>6. SetupInv'
    BY <1>1, <1>5 DEF SetupInv, configuration, Requests
  <1>7. DeadSessionIsLeft' /\ ReadyIsConfigured' /\ OnlineInv'
    BY <1>1, <1>5 DEF DeadSessionIsLeft, ReadyIsConfigured, OnlineInv, DrivesAreSetUp, Requests
  <1>8. QED
    BY <1>3, <1>6, <1>7

\* An active component keeps the time-outs of its drives, and with a transport that is gone its
\* log says offline.
LEMMA ActiveStep ==
  ASSUME IInv, stage = "active", ActiveKeeps, drive' \in DriveType,
         \A j \in Joint : drive'[j].timeout = drive[j].timeout,
         transport' \in BOOLEAN, sticky' \in {0} \cup StickyCodes, log' \in {log, "offline"},
         log' = "online" => transport' = transport
  PROVE  IInv'
  <1> USE DEF IInv
  <1>1. UNCHANGED <<stage, joint, attempt, joints, usb_timeout_ms, gate_outputs_with_lifecycle,
                    outputs_enabled, torque_known>>
    BY DEF ActiveKeeps, place, configuration
  <1>2. TypeOK'
    BY <1>1 DEF TypeOK, DriveType
  <1>3. \A j \in Joint : TimeoutIsSet(j)' <=> TimeoutIsSet(j)
    BY <1>1 DEF TimeoutIsSet
  <1>4. SetupInv'
    BY <1>1 DEF SetupInv, Requests
  <1>5. DeadSessionIsLeft' /\ ReadyIsConfigured'
    BY <1>1, <1>3 DEF DeadSessionIsLeft, ReadyIsConfigured, Requests
  <1>6. OnlineInv'
    BY <1>1, <1>3 DEF OnlineInv, DrivesAreSetUp, RuntimeIsReset
  <1>7. QED
    BY <1>2, <1>4, <1>5, <1>6

\* Arming a watchdog touches no time-out.
LEMMA ClaimKeeps == ASSUME IInv, NEW k \in Joint, Claim(k) PROVE IInv'
  <1>1. [drive[k] EXCEPT !.armed = TRUE] \in [armed : BOOLEAN, timeout : Readable \cup {Absent}]
        /\ [drive[k] EXCEPT !.armed = TRUE].timeout = drive[k].timeout
    BY DEF IInv, TypeOK
  <1>2. drive' \in DriveType /\ \A j \in Joint : drive'[j].timeout = drive[j].timeout
    BY <1>1 DEF Claim, IInv, TypeOK, DriveType
  <1>3. QED
    BY <1>2, ActiveStep DEF Claim, session, IInv, TypeOK

\* A session that is lost is dropped with a word to the log, or kept.
LEMMA LoseKeeps == ASSUME IInv, NEW s \in Codes, Lose(s) PROVE IInv'
  <1>1. drive' \in DriveType /\ \A j \in Joint : drive'[j].timeout = drive[j].timeout
    BY DEF Lose, IInv, TypeOK, DriveType
  <1>2. transport' \in BOOLEAN /\ sticky' \in {0} \cup StickyCodes /\ log' \in {log, "offline"}
        /\ (log' = "online" => transport' = transport)
    BY DEF Lose
  <1>3. QED
    BY <1>1, <1>2, ActiveStep DEF Lose

\* Without a transport there is nothing but the log to write.
LEMMA OperateWithoutKeeps == ASSUME IInv, OperateWithout PROVE IInv'
  <1>1. drive' \in DriveType /\ \A j \in Joint : drive'[j].timeout = drive[j].timeout
    BY DEF OperateWithout, IInv, TypeOK, DriveType
  <1>2. QED
    BY <1>1, ActiveStep DEF OperateWithout, session, IInv, TypeOK

\* The gate closes, whatever becomes of the transport.
LEMMA DeactivateKeeps == ASSUME IInv, NEW reached \in BOOLEAN, Deactivate(reached) PROVE IInv'
  <1> USE DEF IInv
  <1>1. stage' = "inactive" /\ outputs_enabled' = FALSE
        /\ UNCHANGED <<joint, attempt, configuration, torque_known, log, drive>>
    BY DEF Deactivate, SetupInv, TypeOK
  <1>2. TypeOK'
    BY <1>1 DEF Deactivate, TypeOK, configuration, session, Requests
  <1>3. SetupInv'
    BY <1>1 DEF SetupInv, configuration, Requests
  <1>4. DeadSessionIsLeft' /\ ReadyIsConfigured' /\ OnlineInv'
    BY <1>1 DEF DeadSessionIsLeft, ReadyIsConfigured, OnlineInv, Requests
  <1>5. QED
    BY <1>2, <1>3, <1>4

\* What recover() forgets it forgets all of, and the gate is closed with it.
LEMMA ResetKeeps == ASSUME IInv, Reset PROVE IInv'
  <1> USE DEF IInv
  <1>1. /\ stage \in {"inactive", "active"} /\ torque_known' = {} /\ outputs_enabled' = FALSE
        /\ transport' = FALSE /\ sticky' = 0 /\ UNCHANGED <<place, configuration, log, drive>>
    BY DEF Reset
  <1>2. TypeOK'
    BY <1>1 DEF TypeOK, place, configuration, Requests
  <1>3. SetupInv'
    BY <1>1 DEF SetupInv, place, configuration, Requests
  <1>4. DeadSessionIsLeft' /\ ReadyIsConfigured' /\ OnlineInv'
    BY <1>1 DEF DeadSessionIsLeft, ReadyIsConfigured, OnlineInv, RuntimeIsReset, place, Requests
  <1>5. QED
    BY <1>2, <1>3, <1>4

\* The invariant is inductive.
LEMMA StartupInductive == IInv /\ [Next]_vars => IInv'
  <1> SUFFICES ASSUME IInv, [Next]_vars PROVE IInv'
    OBVIOUS
  <1>1. CASE OnInit
    BY <1>1, ParseJointKeeps, ParseParametersKeeps DEF OnInit
  <1>2. CASE \E s \in {0} \cup Codes : Activate(s)
    BY <1>2, ActivateKeeps
  <1>3. CASE Setup
    BY <1>3, RequestKeeps DEF Setup
  <1>4. CASE Finish
    BY <1>4, EnableKeeps, ClearErrorsKeeps DEF Finish
  <1>5. CASE Operate
    BY <1>5, ClaimKeeps, LoseKeeps, OperateWithoutKeeps DEF Operate
  <1>6. CASE \E reached \in BOOLEAN : Deactivate(reached)
    BY <1>6, DeactivateKeeps
  <1>7. CASE Reset
    BY <1>7, ResetKeeps
  <1>8. CASE UNCHANGED vars
    BY <1>8 DEF vars, place, configuration, session, IInv, TypeOK, SetupInv, DeadSessionIsLeft,
                ReadyIsConfigured, OnlineInv, Configured, TimeoutIsSet, DrivesAreSetUp,
                RuntimeIsReset
  <1>9. QED
    BY <1>1, <1>2, <1>3, <1>4, <1>5, <1>6, <1>7, <1>8 DEF Next

\* Every state of the component satisfies the invariant.
LEMMA StartupInvariant == Spec => []IInv
  BY StartInit, StartupInductive, PTL DEF Spec

-----------------------------------------------------------------------------

\* Types, and what survives the parsing: the ranges of the time-outs and the order of limits.
THEOREM StartupTyping == Spec => []TypeOK
  BY StartupInvariant, PTL DEF IInv

\* initialize_transport() succeeds, and the gate opens, only with every drive set up.
THEOREM ReadyHolds == Spec => []ReadyIsConfigured
  BY StartupInvariant, PTL DEF IInv

\* No transfer is tried again on a dead session.
THEOREM DeadSessionHolds == Spec => []DeadSessionIsLeft
  BY StartupInvariant, PTL DEF IInv

\* An active component whose log says online has every drive set up, or was stripped of all by
\* recover() while it was active: no activation ends so, with one drive missed or all of them.
THEOREM OnlineHolds == Spec => OnlineIsConfigured
  <1>1. IInv /\ IInv' /\ [Next]_vars =>
          [stage' = "active" /\ log' = "online" =>
               DrivesAreSetUp' \/ (stage = "active" /\ RuntimeIsReset')]_vars
    <2> SUFFICES ASSUME IInv, IInv', Next, stage' = "active", log' = "online", ~DrivesAreSetUp'
                 PROVE  stage = "active" /\ RuntimeIsReset'
      OBVIOUS
    <2>1. RuntimeIsReset'
      BY DEF IInv, OnlineInv
    <2>2. CASE stage = "active"
      BY <2>1, <2>2
    <2>3. CASE \E s \in {0} \cup Codes : ClearErrors(s)
      <3>1. DrivesAreSetUp /\ UNCHANGED <<joints, transport, torque_known, drive>>
        BY <2>3 DEF ClearErrors, IInv, SetupInv, configuration
      <3>2. DrivesAreSetUp'
        BY <3>1 DEF DrivesAreSetUp, TimeoutIsSet
      <3>3. QED
        BY <3>2
    <2>4. CASE \E s \in {0} \cup Codes : Activate(s)
      BY <2>4 DEF Activate, Fail
    <2>5. CASE Setup
      BY <2>5 DEF Setup, Request, Transfer, Requests, Answered, Retried, Fail
    <2>6. CASE OnInit
      BY <2>6 DEF OnInit, ParseJoint, ParseParameters
    <2>7. CASE Enable \/ \E reached \in BOOLEAN : Deactivate(reached)
      BY <2>7 DEF Enable, Deactivate
    <2>8. CASE Operate \/ Reset
      BY <2>2, <2>8 DEF Operate, Claim, Lose, OperateWithout, Reset, place
    <2>9. QED
      BY <2>2, <2>3, <2>4, <2>5, <2>6, <2>7, <2>8 DEF Next, Finish
  <1>2. QED
    BY <1>1, StartupInvariant, PTL DEF Spec, OnlineIsConfigured

-----------------------------------------------------------------------------
(* The end of a setup.                                                      *)

\* How many transfers the setup under way may still make: at most three for each joint left,
\* each of them tried as often as the configuration allows.
TransfersLeft ==
    MaxAttempts * (3 * (N - joint) + CASE stage = "torque" -> 3
                                       [] stage = "timeout" -> 2
                                       [] OTHER -> 1) - attempt

\* initialize_transport() makes a bounded number of transfers whatever they return: each leaves
\* fewer to make, and none goes back to an earlier joint or out of the setup but to its end.
SetupAdvances ==
    [][(stage \in Requests /\ stage' \notin {"ready", "active"}) =>
           stage' \in Requests /\ 0 < TransfersLeft' /\ TransfersLeft' < TransfersLeft]_vars

\* Products by the number of attempts: one request more is all its attempts more.
LEMMA AttemptsLeft ==
  ASSUME NEW a \in Int, NEW b \in Int, NEW k \in 0 .. MaxAttempts - 1, a < b
  PROVE  MaxAttempts * a < MaxAttempts * b - k
  <1>1. MaxAttempts \in Nat \ {0} /\ k < MaxAttempts
    BY StartupAssumption
  <1>2. MaxAttempts * a <= MaxAttempts * (b - 1)
    BY <1>1, a <= b - 1, SMT
  <1>3. MaxAttempts * (b - 1) = MaxAttempts * b - MaxAttempts
    BY <1>1
  <1>4. QED
    BY <1>1, <1>2, <1>3

\* What is left is positive until the last transfer has ended.
LEMMA SomethingLeft ==
  ASSUME TypeOK, stage \in Requests
  PROVE  TransfersLeft \in Nat \ {0}
  <1> DEFINE r == 3 * (N - joint) + CASE stage = "torque" -> 3 [] stage = "timeout" -> 2 [] OTHER -> 1
  <1>1. N \in Nat /\ joint \in 1..N /\ attempt \in 0 .. MaxAttempts - 1
        /\ MaxAttempts \in Nat \ {0}
    BY StartupAssumption DEF TypeOK, Joint
  <1>2. r \in Int /\ 0 < r
    BY <1>1 DEF Requests
  <1> HIDE DEF r
  <1>3. MaxAttempts * 0 < MaxAttempts * r - attempt
    BY <1>1, <1>2, AttemptsLeft
  <1>4. MaxAttempts * 0 = 0 /\ MaxAttempts * r \in Int
    BY <1>1, <1>2
  <1>5. TransfersLeft = MaxAttempts * r - attempt
    BY DEF TransfersLeft, r
  <1>6. QED
    BY <1>1, <1>3, <1>4, <1>5

\* An acknowledged request is off the list; one that is tried again has one attempt less.
LEMMA RequestAdvances ==
  ASSUME IInv, NEW s \in {0} \cup Codes, NEW applied \in BOOLEAN, Request(s, applied),
         stage' \notin {"ready", "active"}
  PROVE  stage' \in Requests /\ TransfersLeft' < TransfersLeft
  <1> DEFINE w == CASE stage = "torque" -> 3 [] stage = "timeout" -> 2 [] OTHER -> 1
             r == 3 * (N - joint) + w
  <1>1. /\ N \in Nat /\ joint \in 1..N /\ attempt \in 0 .. MaxAttempts - 1
        /\ MaxAttempts \in Nat \ {0} /\ stage \in Requests
    BY StartupAssumption DEF IInv, TypeOK, Joint, Request, Transfer
  <1>2. w \in 1..3 /\ r \in Int /\ TransfersLeft = MaxAttempts * r - attempt
    BY <1>1 DEF TransfersLeft, Requests
  <1>3. CASE Retried(s)
    <2>1. stage' = stage /\ joint' = joint /\ attempt' = attempt + 1
      BY <1>3 DEF Retried
    <2>2. w' = w /\ r' = r /\ TransfersLeft' = MaxAttempts * r' - attempt'
      BY <2>1 DEF TransfersLeft
    <2>3. MaxAttempts * r \in Int
      BY <1>1, <1>2
    <2>4. QED
      BY <1>1, <1>2, <2>1, <2>2, <2>3
  <1>4. CASE Answered
    <2>1. attempt' = 0 /\ stage' \in Requests /\ joint' \in Int
      BY <1>1, <1>4 DEF Answered, Requests
    <2>2. r' \in Int /\ r' < r
      <3>1. CASE stage = "torque"
        <4>1. joint' = joint /\ stage' \in {"timeout", "disarm"}
          BY <1>4, <3>1 DEF Answered
        <4>2. w = 3 /\ w' \in {1, 2}
          BY <3>1, <4>1
        <4>3. QED
          BY <1>1, <4>1, <4>2
      <3>2. CASE stage = "timeout"
        <4>1. joint' = joint /\ stage' = "disarm"
          BY <1>4, <3>2 DEF Answered
        <4>2. w = 2 /\ w' = 1
          BY <3>2, <4>1
        <4>3. QED
          BY <1>1, <4>1, <4>2
      <3>3. CASE stage = "disarm"
        <4>1. joint' = joint + 1 /\ stage' = "torque"
          BY <1>4, <3>3 DEF Answered
        <4>2. w = 1 /\ w' = 3
          BY <3>3, <4>1
        <4>3. QED
          BY <1>1, <4>1, <4>2
      <3>4. QED
        BY <1>1, <3>1, <3>2, <3>3 DEF Requests
    <2>3. TransfersLeft' = MaxAttempts * r' - attempt'
      BY DEF TransfersLeft
    <2> HIDE DEF r
    <2>4. MaxAttempts * r' < MaxAttempts * r - attempt
      BY <1>1, <1>2, <2>2, AttemptsLeft
    <2>5. MaxAttempts * r' \in Int
      BY <1>1, <2>2
    <2>6. TransfersLeft' = MaxAttempts * r'
      BY <2>1, <2>3, <2>5
    <2>7. QED
      BY <1>2, <2>1, <2>4, <2>6
  <1>5. ~Fail
    BY DEF Fail
  <1>6. QED
    BY <1>3, <1>4, <1>5 DEF Request

\* A setup ends after a bounded number of transfers, whatever they return.
THEOREM AdvanceHolds == Spec => SetupAdvances
  <1>1. IInv /\ IInv' /\ [Next]_vars =>
          [(stage \in Requests /\ stage' \notin {"ready", "active"}) =>
               stage' \in Requests /\ 0 < TransfersLeft' /\ TransfersLeft' < TransfersLeft]_vars
    <2> SUFFICES ASSUME IInv, IInv', Next, stage \in Requests, stage' \notin {"ready", "active"}
                 PROVE  stage' \in Requests /\ 0 < TransfersLeft' /\ TransfersLeft' < TransfersLeft
      OBVIOUS
    <2>1. Setup
      BY DEF Next, OnInit, ParseJoint, ParseParameters, Activate, Finish, Enable, ClearErrors, Operate,
             Claim, Lose, OperateWithout, ActiveKeeps, place, Deactivate, Reset, Requests
    <2>2. stage' \in Requests /\ TransfersLeft' < TransfersLeft
      BY <2>1, RequestAdvances DEF Setup
    <2>3. TransfersLeft \in Nat \ {0}
      BY SomethingLeft DEF IInv
    <2>4. (TransfersLeft \in Nat \ {0})'
      <3>1. TypeOK /\ stage \in Requests => TransfersLeft \in Nat \ {0}
        BY SomethingLeft
      <3>2. (TypeOK /\ stage \in Requests => TransfersLeft \in Nat \ {0})'
        BY <3>1, SomethingLeft, PTL
      <3>3. QED
        BY <2>2, <3>2 DEF IInv
    <2>5. QED
      BY <2>2, <2>3, <2>4
  <1>2. QED
    BY <1>1, StartupInvariant, PTL DEF Spec, SetupAdvances
=============================================================================
