---------------------------- MODULE SignalsProofs ----------------------------
(***************************************************************************)
(* Proofs of the safety properties of JointSignals, for every range of     *)
(* positions, limits, rate and discontinuity.                              *)
(***************************************************************************)
EXTENDS JointSignals, TLAPS

\* What write() sends at the level POSITION: a value within the limits or the fallback.
LEMMA CheckedCommand ==
  ASSUME TypeOK, NEW others \in BOOLEAN
  PROVE  /\ Checked(others) \in Commands /\ Signed(Checked(others)) \in Commands
         /\ control_level = "POSITION" =>
              /\ Checked(others) \in Allowed \cup {position}
              /\ Checked(others) \in Positions /\ Signed(Checked(others)) \in Positions
  <1> USE SignalsAssumption
  <1>1. control_level = "POSITION" /\ Valid(Limited, others) => Limited \in Allowed
    <2>1. command \in Int /\ last_command \in Int
      BY DEF TypeOK, Commands, Positions, Infinity, NaN
    <2>2. RateLimited(command, last_command) \in Int
      BY <2>1 DEF RateLimited
    <2>3. control_level = "POSITION" /\ Valid(Limited, others)
            => Limited \in Int /\ PositionMin <= Limited /\ Limited <= PositionMax
      BY <2>2 DEF Valid, Limited
    <2> QED
      BY <2>3 DEF Allowed, Positions, PositionMin, PositionMax
  <1>2. control_level # "POSITION" => Limited \in Commands
    BY DEF TypeOK, Limited
  <1>3. position \in Positions
    BY DEF TypeOK
  <1>4. Checked(others) = IF Valid(Limited, others) THEN Limited ELSE position
    BY DEF Checked
  <1>5. /\ Checked(others) \in Commands
        /\ control_level = "POSITION" =>
             /\ Checked(others) \in Allowed \cup {position}
             /\ Checked(others) \in Positions
    BY <1>1, <1>2, <1>3, <1>4 DEF Allowed, Commands
  <1>6. \A x \in Commands : Signed(x) \in Commands
    BY DEF Signed, Negated, Commands, Positions, Infinity, NaN
  <1>7. \A x \in Positions : Signed(x) \in Positions
    BY DEF Signed, Negated, Positions, Infinity, NaN
  <1> QED
    BY <1>5, <1>6, <1>7

\* Every value keeps its type whatever the controller writes, infinities and not-a-number
\* included; the reported position is the last valid one after every step.
LEMMA TypeInductive ==
  ASSUME TypeOK, [Next]_vars
  PROVE  TypeOK'
  <1> USE SignalsAssumption
  <1>1. CASE Reset
    BY <1>1 DEF TypeOK, Reset, Commands, drive
  <1>2. CASE Drive
    BY <1>2 DEF TypeOK, Drive, feedback, sent, level_of_joint
  <1>3. ASSUME NEW reading \in Readings, Read(reading)
        PROVE  TypeOK'
    <2>1. Signed(raw) \in Positions
      BY DEF TypeOK, Signed, Negated, Positions, NaN, Infinity
    <2>2. /\ position' \in Positions /\ last_valid' = position'
          /\ healthy' \in BOOLEAN /\ errors' \in {"unknown", "clear", "set"}
      BY <1>3, <2>1 DEF TypeOK, Read, Accept, Hold
    <2>3. UNCHANGED <<drive, sent, command, level_of_joint, wanted>> /\ turn' = "switch"
      BY <1>3 DEF Read
    <2> QED
      BY <2>2, <2>3 DEF TypeOK, drive, sent, level_of_joint
  <1>4. ASSUME NEW level \in Levels, NEW status \in Statuses,
               Switch(level, status) \/ ClaimFails(level)
        PROVE  TypeOK'
    <2>1. /\ control_level' \in Levels \cup {"UNDEFINED"}
          /\ joint_claimed' \in BOOLEAN /\ switched' \in BOOLEAN /\ turn' = "update"
          /\ UNCHANGED <<raw, position, last_valid, healthy, last_command, unremembered>>
      BY <1>4 DEF TypeOK, Switch, ClaimFails
    <2>2. fault' \in BOOLEAN /\ errors' \in {"unknown", "clear", "set"}
      BY <1>4 DEF TypeOK, Switch, ClaimFails, Reread, Shown
    <2>3. wanted' \in Commands \cup {None}
      BY <1>4 DEF TypeOK, Switch, ClaimFails
    <2>4. command' \in Commands /\ setpoint' \in Positions \cup {None}
      BY <1>4 DEF TypeOK, Switch, ClaimFails, Prime, Commands
    <2> QED
      BY <2>1, <2>2, <2>3, <2>4 DEF TypeOK
  <1>5. CASE KeepLevel \/ NoUpdate
    BY <1>5 DEF TypeOK, KeepLevel, NoUpdate, drive, feedback, sent, level_of_joint
  <1>6. ASSUME NEW c \in Commands, Update(c)
        PROVE  TypeOK'
    BY <1>6 DEF TypeOK, Update, drive, feedback, sent, level_of_joint
  <1>7. ASSUME NEW others \in OthersValid, NEW status \in Statuses, Write(others, status)
        PROVE  TypeOK'
    <2>1. /\ Checked(others) \in Commands /\ Signed(Checked(others)) \in Commands
          /\ control_level = "POSITION" => Signed(Checked(others)) \in Positions
      BY CheckedCommand
    <2>2. /\ command' \in Commands /\ last_command' \in Commands
          /\ setpoint' \in Positions \cup {None} /\ switched' \in BOOLEAN
          /\ unremembered' \in {"nothing", "step", "position"}
      <3> HIDE DEF Commands
      <3> QED
        BY <1>7, <2>1 DEF TypeOK, Write, Send, Remember, sent
    <2>3. turn' = "drive" /\ UNCHANGED <<drive, feedback, level_of_joint, wanted>>
      BY <1>7 DEF Write
    <2> QED
      BY <2>2, <2>3 DEF TypeOK, drive, feedback, level_of_joint
  <1>8. CASE UNCHANGED vars
    BY <1>8 DEF TypeOK, vars, drive, feedback, sent, level_of_joint
  <1> QED
    BY <1>1, <1>2, <1>3, <1>4, <1>5, <1>6, <1>7, <1>8 DEF Next

\* The type invariant, for every range of positions: nothing that read(), the mode switch
\* or write() computes leaves its range.
THEOREM SignalsTyping == Spec => []TypeOK
  <1>1. Init => TypeOK
    <2>1. 0 \in Positions
      BY SignalsAssumption DEF Positions
    <2> QED
      BY <2>1, SignalsAssumption DEF Init, TypeOK, Commands
  <1> QED
    BY <1>1, TypeInductive, PTL DEF Spec

-----------------------------------------------------------------------------
(* The setpoint.                                                           *)

\* Only write() acts at its turn.
LEMMA WriteTurn ==
  ASSUME [Next]_vars, turn = "write", setpoint' # setpoint
  PROVE  \E others \in OthersValid, status \in Statuses : Write(others, status)
  <1>1. ~(Reset \/ Drive \/ KeepLevel \/ NoUpdate)
    BY DEF Reset, Drive, KeepLevel, NoUpdate
  <1>2. ~(\E reading \in Readings : Read(reading)) /\ ~(\E c \in Commands : Update(c))
    BY DEF Read, Update
  <1>3. ~(\E level \in Levels, status \in Statuses :
              Switch(level, status) \/ (status = "none" /\ ClaimFails(level)))
    BY DEF Switch, ClaimFails
  <1>4. ~UNCHANGED vars
    BY DEF vars, sent
  <1> QED
    BY <1>1, <1>2, <1>3, <1>4 DEF Next

\* write() sends the inversion of the checked command, at the level POSITION only.
LEMMA WriteSends ==
  ASSUME [Next]_vars, turn = "write", setpoint' # setpoint
  PROVE  /\ ~HasFault /\ control_level = "POSITION"
         /\ \E others \in OthersValid : setpoint' = Signed(Checked(others))
  BY WriteTurn DEF Write, Send, sent

\* write() moves the setpoint only to a position the limits allow or to the measured
\* position, for every limit, rate and command: the rate limiter makes infinite commands
\* finite before they are validated, and validation is what follows it.
THEOREM SetpointHolds == Spec => SetpointIsAllowed
  <1>1. ASSUME TypeOK, [Next]_vars
        PROVE  [turn = "write" /\ setpoint' # setpoint
                 => setpoint' \in {Signed(x) : x \in Allowed \cup {position}}]_vars
    <2>1. SUFFICES ASSUME turn = "write", setpoint' # setpoint
                   PROVE  setpoint' \in {Signed(x) : x \in Allowed \cup {position}}
      OBVIOUS
    <2>2. PICK others \in OthersValid : setpoint' = Signed(Checked(others))
      BY <1>1, <2>1, WriteSends
    <2>3. Checked(others) \in Allowed \cup {position}
      BY <1>1, <2>1, WriteSends, CheckedCommand, SignalsAssumption
    <2> QED
      BY <2>2, <2>3
  <1> QED
    BY <1>1, SignalsTyping, PTL DEF Spec, SetpointIsAllowed

-----------------------------------------------------------------------------
(* The rate limit.                                                         *)

\* While no mode switch intervenes, last_command is what the drive was sent last, or, once a
\* write has failed behind INPUT_POS, the setpoint is still within one step of it: each such
\* write limits its command from the same last_command.
RateInv ==
    ~switched /\ control_level = "POSITION"
        => /\ last_command \in Positions
           /\ unremembered = "nothing" => setpoint = last_command
           /\ unremembered = "step" => Distance(setpoint, last_command) <= MaxDelta

\* A command that passes the limits is within one step of the command it was limited from.
LEMMA LimitedStep ==
  ASSUME TypeOK, last_command \in Positions, NEW others \in BOOLEAN,
         control_level = "POSITION", Valid(Limited, others)
  PROVE  Limited \in Int /\ Distance(Limited, last_command) <= MaxDelta
  <1>1. Limited = RateLimited(command, last_command) /\ Finite(Limited)
    BY DEF Limited, Valid
  <1>2. command \in Int /\ last_command \in Int /\ MaxDelta \in Nat /\ Finite(last_command)
    BY SignalsAssumption DEF TypeOK, Commands, Positions, Infinity, NaN, Finite
  <1> QED
    BY <1>1, <1>2 DEF RateLimited, Distance, Finite

\* A write keeps the setpoint with last_command: one that succeeds remembers what it sent, one
\* that fails behind INPUT_POS has sent a step from last_command, or the measured position.
LEMMA WriteRemembers ==
  ASSUME TypeOK, RateInv, ~invert_axis,
         NEW others \in OthersValid, NEW status \in Statuses, Write(others, status)
  PROVE  RateInv'
  <1> USE SignalsAssumption
  <1>1. SUFFICES ASSUME control_level = "POSITION", ~switched'
                 PROVE  RateInv'
    BY DEF Write, RateInv, level_of_joint
  <1>2. control_level' = "POSITION"
    BY <1>1 DEF Write, level_of_joint
  <1>3. CASE UNCHANGED sent
    BY <1>1, <1>3 DEF RateInv, sent
  <1>4. CASE ~HasFault /\ status = "ok"
    <2>1. Checked(others) \in Positions /\ Signed(Checked(others)) = Checked(others)
      BY <1>1, CheckedCommand DEF Signed
    <2>2. /\ setpoint' = Checked(others) /\ last_command' = Checked(others)
          /\ unremembered' = "nothing"
      BY <1>1, <1>4, <2>1 DEF Write, Send, Remember
    <2> QED
      BY <2>1, <2>2 DEF RateInv, Positions
  <1>5. CASE ~HasFault /\ status = "half"
    <2>1. ~switched /\ UNCHANGED last_command
      BY <1>1, <1>5 DEF Write, Send
    <2>2. last_command \in Positions
      BY <1>1, <2>1 DEF RateInv
    <2>3. CASE Valid(Limited, others)
      <3>1. setpoint' = Limited
        BY <1>1, <1>5, <2>3 DEF Write, Send, Checked, Signed
      <3>2. unremembered' = "step"
        BY <1>1, <1>5, <2>3 DEF Write
      <3> QED
        BY <1>1, <2>1, <2>2, <2>3, <3>1, <3>2, LimitedStep DEF RateInv, Distance, Positions
    <2>4. CASE ~Valid(Limited, others)
      <3>1. unremembered' = "position"
        BY <1>1, <1>5, <2>4 DEF Write
      <3> QED
        BY <2>1, <2>2, <3>1 DEF RateInv, Positions
    <2> QED
      BY <2>3, <2>4
  <1>6. CASE ~HasFault /\ status = "none"
    BY <1>1, <1>6 DEF Write, Send, RateInv, Positions
  <1> QED
    BY <1>3, <1>4, <1>5, <1>6 DEF Write

\* The relation of the setpoint to last_command survives every step: a mode switch suspends it
\* until the next write that succeeds.
LEMMA RateInductive ==
  ASSUME TypeOK, RateInv, [Next]_vars, ~invert_axis
  PROVE  RateInv'
  <1>1. CASE Reset
    BY <1>1 DEF Reset, RateInv
  <1>2. CASE Drive \/ KeepLevel \/ NoUpdate
    BY <1>2 DEF Drive, KeepLevel, NoUpdate, sent, level_of_joint, RateInv, Positions
  <1>3. ASSUME NEW reading \in Readings, Read(reading)
        PROVE  RateInv'
    BY <1>3 DEF Read, sent, level_of_joint, RateInv, Positions
  <1>4. ASSUME NEW level \in Levels, NEW status \in Statuses,
               Switch(level, status) \/ ClaimFails(level)
        PROVE  RateInv'
    BY <1>4 DEF Switch, ClaimFails, RateInv
  <1>5. ASSUME NEW c \in Commands, Update(c)
        PROVE  RateInv'
    BY <1>5 DEF Update, sent, level_of_joint, RateInv, Positions
  <1>6. ASSUME NEW others \in OthersValid, NEW status \in Statuses, Write(others, status)
        PROVE  RateInv'
    BY <1>6, WriteRemembers
  <1>7. CASE UNCHANGED vars
    BY <1>7 DEF vars, sent, level_of_joint, RateInv, Positions
  <1> QED
    BY <1>1, <1>2, <1>3, <1>4, <1>5, <1>6, <1>7 DEF Next

\* Between two writes without a mode switch the setpoint moves by at most the rate limit or
\* to the measured position, and by at most twice the limit behind writes that failed once
\* INPUT_POS was sent, for every rate, range, sequence of commands and of failures, when the
\* axis is not inverted (last_command_* keeps the drive's sign).
THEOREM RateHolds ==
  ASSUME ~invert_axis
  PROVE  Spec => RateLimitHolds
  <1>1. Init => RateInv
    BY DEF Init, RateInv
  <1>2. ASSUME TypeOK, RateInv, [Next]_vars
        PROVE  [turn = "write" /\ ~switched /\ setpoint # None /\ setpoint' # setpoint
                 => \/ Distance(setpoint', setpoint)
                         <= IF unremembered = "nothing" THEN MaxDelta ELSE 2 * MaxDelta
                    \/ setpoint' = Signed(position)
                    \/ unremembered = "position"]_vars
    <2>1. SUFFICES ASSUME turn = "write", ~switched, setpoint # None, setpoint' # setpoint,
                          unremembered # "position"
                   PROVE  \/ Distance(setpoint', setpoint)
                               <= IF unremembered = "nothing" THEN MaxDelta ELSE 2 * MaxDelta
                          \/ setpoint' = Signed(position)
      OBVIOUS
    <2>2. PICK others \in OthersValid : setpoint' = Checked(others)
      BY <1>2, <2>1, WriteSends DEF Signed
    <2>3. control_level = "POSITION" /\ last_command \in Positions /\ setpoint \in Positions
      BY <1>2, <2>1, WriteSends DEF RateInv, TypeOK
    <2>4. CASE ~Valid(Limited, others)
      BY <2>2, <2>4 DEF Checked, Signed
    <2>5. CASE Valid(Limited, others)
      <3>1. setpoint' = Limited
        BY <2>2, <2>5 DEF Checked
      <3>2. Limited \in Int /\ Distance(Limited, last_command) <= MaxDelta
        BY <1>2, <2>3, <2>5, LimitedStep, SignalsAssumption
      <3>3. CASE unremembered = "nothing"
        BY <1>2, <2>1, <2>3, <3>1, <3>2, <3>3 DEF RateInv
      <3>4. CASE unremembered = "step"
        <4>1. Distance(setpoint, last_command) <= MaxDelta
          BY <1>2, <2>1, <2>3, <3>4 DEF RateInv
        <4>2. setpoint \in Int /\ last_command \in Int /\ MaxDelta \in Nat
          BY <2>3, SignalsAssumption DEF Positions
        <4> QED
          BY <3>1, <3>2, <3>4, <4>1, <4>2 DEF Distance
      <3> QED
        BY <1>2, <2>1, <3>3, <3>4 DEF TypeOK
    <2> QED
      BY <2>4, <2>5
  <1> QED
    BY <1>1, <1>2, RateInductive, SignalsTyping, PTL DEF Spec, RateLimitHolds

-----------------------------------------------------------------------------
(* The reported position.                                                  *)

\* The reported position never jumps by more than max_position_discontinuity, for every
\* motion of the encoder and every loss of samples, when the axis is not inverted: hold and
\* reset both start again from the position that was reported last.
THEOREM ReportHolds ==
  ASSUME ~invert_axis
  PROVE  Spec => ReportedPositionIsContinuous
  <1>1. ASSUME TypeOK, [Next]_vars
        PROVE  [Distance(position', position) <= MaxDiscontinuity]_vars
    <2>1. position \in Int /\ Distance(position, position) <= MaxDiscontinuity
      BY <1>1, SignalsAssumption DEF TypeOK, Positions, Distance
    <2>2. CASE position' = position
      BY <2>1, <2>2
    <2>3. CASE position' # position
      <3>1. PICK reading \in Readings : Read(reading)
        BY <1>1, <2>3 DEF Next, Reset, Drive, Switch, ClaimFails, KeepLevel, Update,
                          NoUpdate, Write, vars, feedback
      <3>2. Believable /\ position' = raw
        BY <1>1, <2>3, <3>1 DEF Read, Accept, Hold, Signed, TypeOK
      <3> QED
        BY <1>1, <3>2 DEF Believable, TypeOK
    <2> QED
      BY <2>2, <2>3
  <1> QED
    BY <1>1, SignalsTyping, PTL DEF Spec, ReportedPositionIsContinuous
=============================================================================
