------------------------------ MODULE AxisProofs ------------------------------
(***************************************************************************)
(* Proofs about AxisControl: its calls do to the axis what AxisService     *)
(* promises, closed loop is entered with every input primed, and only      *)
(* whole commands feed the watchdog.                                       *)
(***************************************************************************)
EXTENDS AxisControl, SequenceTheorems, TLAPS

Level == AxisControlLevel \cup {UNDEFINED}
Requests == {"idle", "mode", "closed", "feed"} \cup Inputs

\* The requests of the call that is being served.
Sequence == IF call = "switch" THEN SwitchRequests(level) ELSE CommandRequests(level)

\* What the requests that were acknowledged have done.
Done(r) ==
    /\ r \in Inputs => r \in current
    /\ r = "mode" => mode = level

\* The call has made the first k of its requests, and all of them were acknowledged.
Progress(k) ==
    /\ todo = SubSeq(Sequence, k + 1, Len(Sequence))
    /\ \A i \in 1..k : Done(Sequence[i])
    /\ k = 0 => current = {}

TypeOK ==
    /\ call \in {"none", "switch", "command"}
    /\ level \in Levels \cup {UNDEFINED}
    /\ result \in {"none", "ok", "failed"}
    /\ state \in {"idle", "closed"}
    /\ mode \in AxisControlLevel
    /\ current \subseteq Inputs /\ primed \subseteq Inputs
    /\ fed \in BOOLEAN

CallInv ==
    /\ call = "none" => todo = <<>>
    /\ call # "none" => \E k \in 0..Len(Sequence) : Progress(k)
    /\ current \subseteq primed

-----------------------------------------------------------------------------
(* The sequences of requests.                                              *)

LEMMA SetpointsShape ==
  ASSUME NEW l \in Level
  PROVE  /\ Setpoints(l) \in Seq(Inputs)
         /\ l # UNDEFINED => Setpoints(l) # <<>>
         /\ l = UNDEFINED => Setpoints(l) = <<>>
  <1>1. CASE l = "POSITION"
    <2>1. Setpoints(l) = <<"INPUT_POS", "INPUT_VEL", "INPUT_TORQUE">>
      BY <1>1 DEF Setpoints
    <2>2. Setpoints(l) \in Seq(Inputs)
      BY <2>1 DEF Inputs
    <2>3. Setpoints(l) # <<>>
      BY <2>1
    <2> QED BY <1>1, <2>2, <2>3 DEF UNDEFINED
  <1>2. CASE l = "VELOCITY"
    <2>1. Setpoints(l) = <<"INPUT_VEL", "INPUT_TORQUE">>
      BY <1>2 DEF Setpoints
    <2>2. Setpoints(l) \in Seq(Inputs)
      BY <2>1 DEF Inputs
    <2>3. Setpoints(l) # <<>>
      BY <2>1
    <2> QED BY <1>2, <2>2, <2>3 DEF UNDEFINED
  <1>3. CASE l = "EFFORT"
    <2>1. Setpoints(l) = <<"INPUT_TORQUE">>
      BY <1>3 DEF Setpoints
    <2>2. Setpoints(l) \in Seq(Inputs)
      BY <2>1 DEF Inputs
    <2>3. Setpoints(l) # <<>>
      BY <2>1
    <2> QED BY <1>3, <2>2, <2>3 DEF UNDEFINED
  <1>4. CASE l = UNDEFINED
    <2>1. Setpoints(l) = <<>>
      BY <1>4 DEF Setpoints, UNDEFINED
    <2> QED BY <1>4, <2>1
  <1> QED BY <1>1, <1>2, <1>3, <1>4 DEF Level, AxisControlLevel

\* A mode switch is the control mode, the inputs of the level, and closed loop last.
LEMMA SwitchShape ==
  ASSUME NEW l \in Level, l # UNDEFINED
  PROVE  LET r == SwitchRequests(l)
             n == Len(r)
         IN  /\ r \in Seq(Requests) /\ n \in Nat /\ n > 1
             /\ r[1] = "mode" /\ r[n] = "closed"
             /\ \A i \in 2..n - 1 : r[i] \in Inputs
             /\ \A x \in ToSet(Setpoints(l)) : \E i \in 2..n - 1 : r[i] = x
  <1> DEFINE p == Setpoints(l)
             m == Len(p)
             r == SwitchRequests(l)
  <1>1. p \in Seq(Requests) /\ m \in Nat /\ \A i \in 1..m : p[i] \in Inputs
    BY SetpointsShape DEF Requests
  <1>2. r = (<<"mode">> \o p) \o <<"closed">>
    BY DEF SwitchRequests
  <1>3. <<"mode">> \in Seq(Requests) /\ <<"closed">> \in Seq(Requests)
    BY DEF Requests
  <1> HIDE DEF p, r
  <1>4. /\ <<"mode">> \o p \in Seq(Requests) /\ Len(<<"mode">> \o p) = m + 1
        /\ (<<"mode">> \o p)[1] = "mode"
        /\ \A i \in 1..m : (<<"mode">> \o p)[i + 1] = p[i]
    BY <1>1, <1>3, ConcatProperties
  <1>5. /\ r \in Seq(Requests) /\ Len(r) = m + 2 /\ r[m + 2] = "closed"
        /\ \A i \in 1..m + 1 : r[i] = (<<"mode">> \o p)[i]
    BY <1>1, <1>2, <1>3, <1>4, ConcatProperties
  <1>6. r[1] = "mode" /\ \A i \in 1..m : r[i + 1] = p[i]
    <2>1. 1 \in 1..m + 1 /\ \A i \in 1..m : i + 1 \in 1..m + 1
      BY <1>1
    <2>2. \A i \in 1..m : r[i + 1] = (<<"mode">> \o p)[i + 1]
      BY <1>5, <2>1
    <2> QED BY <1>4, <1>5, <2>1, <2>2
  <1>7. \A i \in 2..m + 1 : r[i] \in Inputs
    <2> SUFFICES ASSUME NEW i \in 2..m + 1
                 PROVE  r[i] \in Inputs
      OBVIOUS
    <2>1. i - 1 \in 1..m /\ (i - 1) + 1 = i
      BY <1>1
    <2>2. r[(i - 1) + 1] = p[i - 1]
      BY <1>6, <2>1
    <2> QED BY <1>1, <2>1, <2>2
  <1>8. \A x \in ToSet(p) : \E i \in 2..m + 1 : r[i] = x
    <2> SUFFICES ASSUME NEW j \in 1..m
                 PROVE  \E i \in 2..m + 1 : r[i] = p[j]
      BY <1>1 DEF ToSet
    <2> QED BY <1>1, <1>6
  <1> QED BY <1>1, <1>5, <1>6, <1>7, <1>8 DEF p, r

LEMMA IdleShape == SwitchRequests(UNDEFINED) = <<"idle">>
  BY DEF SwitchRequests

\* A command is the inputs of the level, and a feed last if the watchdog is enabled.
LEMMA CommandShape ==
  ASSUME NEW l \in Level
  PROVE  LET r == CommandRequests(l)
             n == Len(r)
             m == IF enable_watchdog THEN n - 1 ELSE n
         IN  /\ r \in Seq(Requests) /\ n \in Nat
             /\ l = UNDEFINED => r = <<>>
             /\ l # UNDEFINED =>
                  /\ n > 0
                  /\ enable_watchdog => r[n] = "feed"
                  /\ \A i \in 1..m : r[i] \in Inputs
                  /\ \A x \in ToSet(Setpoints(l)) : \E i \in 1..m : r[i] = x
  <1> DEFINE p == Setpoints(l)
             k == Len(p)
             r == CommandRequests(l)
  <1>1. p \in Seq(Requests) /\ k \in Nat /\ \A i \in 1..k : p[i] \in Inputs
    BY SetpointsShape DEF Requests
  <1>2. <<"feed">> \in Seq(Requests)
    BY DEF Requests
  <1>3. CASE l = UNDEFINED
    <2>1. p = <<>>
      BY <1>3, SetpointsShape
    <2>2. r = <<>> \o <<>>
      BY <1>3, <2>1 DEF CommandRequests
    <2> QED BY <1>3, <2>2
  <1>4. CASE l # UNDEFINED
    <2>1. p # <<>> /\ k > 0
      BY <1>1, <1>4, SetpointsShape
    <2>2. CASE enable_watchdog
      <3>1. r = p \o <<"feed">>
        BY <1>4, <2>2 DEF CommandRequests
      <3> HIDE DEF p, r
      <3>2. /\ r \in Seq(Requests) /\ Len(r) = k + 1 /\ r[k + 1] = "feed"
            /\ \A i \in 1..k : r[i] = p[i]
        BY <1>1, <1>2, <3>1, ConcatProperties
      <3>3. \A x \in ToSet(p) : \E i \in 1..k : r[i] = x
        BY <1>1, <3>2 DEF ToSet
      <3> QED BY <1>1, <1>4, <2>1, <2>2, <3>2, <3>3 DEF p, r
    <2>3. CASE ~enable_watchdog
      <3>1. r = p
        BY <1>1, <1>4, <2>3, ConcatEmptySeq DEF CommandRequests
      <3> HIDE DEF p, r
      <3>2. \A x \in ToSet(p) : \E i \in 1..k : r[i] = x
        BY <1>1, <3>1 DEF ToSet
      <3> QED BY <1>1, <1>4, <2>1, <2>3, <3>1, <3>2 DEF p, r
    <2> QED BY <2>2, <2>3
  <1> QED BY <1>3, <1>4
-----------------------------------------------------------------------------
(* How far a call has come.                                                *)

LEMMA RequestsType ==
  ASSUME NEW l \in Level
  PROVE  SwitchRequests(l) \in Seq(Requests) /\ CommandRequests(l) \in Seq(Requests)
  <1>1. CASE l = UNDEFINED
    <2>1. SwitchRequests(l) \in Seq(Requests)
      BY <1>1, IdleShape DEF Requests
    <2> QED BY <2>1, CommandShape
  <1>2. CASE l # UNDEFINED
    BY <1>2, SwitchShape, CommandShape
  <1> QED BY <1>1, <1>2

LEMMA SequenceType ==
  ASSUME TypeOK
  PROVE  level \in Level /\ Sequence \in Seq(Requests) /\ Len(Sequence) \in Nat
  <1>1. level \in Level
    BY AxisAssumption DEF TypeOK, Level
  <1>2. Sequence \in Seq(Requests)
    BY <1>1, RequestsType DEF Sequence
  <1> QED BY <1>1, <1>2

\* Where each request stands, and in which call.
LEMMA RequestPlace ==
  ASSUME TypeOK, call # "none", NEW i \in 1..Len(Sequence)
  PROVE  LET r == Sequence[i]
             last == i = Len(Sequence)
         IN  /\ r \in Requests
             /\ r = "mode" => call = "switch" /\ level # UNDEFINED /\ ~last /\ i = 1
             /\ r = "idle" <=> call = "switch" /\ level = UNDEFINED
             /\ r = "idle" => last
             /\ r = "closed" <=> call = "switch" /\ level # UNDEFINED /\ last
             /\ r = "feed" <=> call = "command" /\ enable_watchdog /\ last
             /\ call = "command" => level # UNDEFINED
  <1>0. level \in Level /\ Sequence \in Seq(Requests) /\ Len(Sequence) \in Nat
    BY SequenceType
  <1>1. \A x \in Inputs : x \notin {"idle", "mode", "closed", "feed"}
    BY DEF Inputs
  <1>2. CASE call = "switch" /\ level = UNDEFINED
    <2>1. Sequence = <<"idle">>
      BY <1>2, IdleShape DEF Sequence
    <2>2. Len(Sequence) = 1 /\ i = 1 /\ Sequence[i] = "idle"
      BY <2>1
    <2> QED BY <1>2, <2>2 DEF Requests
  <1>3. CASE call = "switch" /\ level # UNDEFINED
    <2> DEFINE n == Len(Sequence)
    <2>1. /\ Sequence[1] = "mode" /\ Sequence[n] = "closed" /\ n > 1
          /\ \A j \in 2..n - 1 : Sequence[j] \in Inputs
      BY <1>0, <1>3, SwitchShape DEF Sequence
    <2>2. i = 1 \/ i = n \/ i \in 2..n - 1
      BY <1>0
    <2> QED BY <1>0, <1>1, <1>3, <2>1, <2>2 DEF Requests
  <1>4. CASE call = "command"
    <2> DEFINE n == Len(Sequence)
    <2>1. level # UNDEFINED
      <3> SUFFICES ASSUME level = UNDEFINED
                   PROVE  FALSE
        OBVIOUS
      <3>1. Sequence = <<>>
        BY <1>0, <1>4, CommandShape DEF Sequence
      <3> QED BY <3>1
    <2>2. /\ enable_watchdog => Sequence[n] = "feed"
          /\ \A j \in 1..(IF enable_watchdog THEN n - 1 ELSE n) : Sequence[j] \in Inputs
      BY <1>0, <1>4, <2>1, CommandShape DEF Sequence
    <2>3. CASE enable_watchdog
      <3>1. i = n \/ i \in 1..n - 1
        BY <1>0
      <3> QED BY <1>0, <1>1, <1>4, <2>1, <2>2, <2>3, <3>1 DEF Requests
    <2>4. CASE ~enable_watchdog
      BY <1>0, <1>1, <1>4, <2>1, <2>2, <2>4 DEF Requests
    <2> QED BY <2>3, <2>4
  <1> QED BY <1>2, <1>3, <1>4 DEF TypeOK

\* The request that is due, and whether it is the last.
LEMMA DueRequest ==
  ASSUME TypeOK, NEW k \in 0..Len(Sequence), Progress(k), todo # <<>>
  PROVE  /\ k + 1 \in 1..Len(Sequence)
         /\ Head(todo) = Sequence[k + 1]
         /\ Tail(todo) = SubSeq(Sequence, k + 2, Len(Sequence))
         /\ Tail(todo) = <<>> <=> k + 1 = Len(Sequence)
  <1> DEFINE r == Sequence
             n == Len(r)
  <1>1. r \in Seq(Requests) /\ n \in Nat
    BY SequenceType
  <1>2. todo = SubSeq(r, k + 1, n)
    BY DEF Progress
  <1>3. k + 1 \in 1..n
    <2> SUFFICES ASSUME k = n
                 PROVE  FALSE
      BY <1>1
    <2>1. SubSeq(r, k + 1, n) = <<>>
      BY <1>1, SubSeqEmpty
    <2> QED BY <1>2, <2>1
  <1> HIDE DEF r, n
  <1>4. Head(todo) = r[k + 1] /\ Tail(todo) = SubSeq(r, (k + 1) + 1, n)
    <2>1. n \in (k + 1)..n /\ n = Len(r)
      BY <1>1, <1>3 DEF n
    <2>2. k + 1 \in 1..Len(r) /\ n \in (k + 1)..Len(r)
      BY <1>3, <2>1
    <2> QED BY <1>1, <1>2, <2>2, HeadTailOfSubSeq
  <1>5. (k + 1) + 1 = k + 2
    BY <1>1 DEF n, r
  <1>6. SubSeq(r, k + 2, n) = <<>> <=> k + 1 = n
    <2>1. \A i \in (k + 2)..n : r[i] \in Requests
      BY <1>1 DEF n
    <2>2. k + 2 \in Int /\ n \in Int
      BY <1>1, <1>3
    <2>3. Len(SubSeq(r, k + 2, n)) = IF k + 2 <= n THEN n - (k + 2) + 1 ELSE 0
      BY <2>1, <2>2, SubSeqProperties
    <2>4. SubSeq(r, k + 2, n) \in Seq(Requests)
      BY <2>1, <2>2, SubSeqProperties
    <2>5. SubSeq(r, k + 2, n) = <<>> <=> Len(SubSeq(r, k + 2, n)) = 0
      BY <2>4, EmptySeq
    <2> QED BY <1>1, <1>3, <2>3, <2>5
  <1> QED BY <1>3, <1>4, <1>5, <1>6 DEF r, n

\* The axis carries out a request that is due.
LEMMA ApplyEffect ==
  ASSUME TypeOK, NEW r \in Requests, Apply(r)
  PROVE  /\ state' \in {"idle", "closed"} /\ mode' \in Levels \cup {UNDEFINED, mode}
         /\ current' = IF r \in Inputs THEN current \cup {r} ELSE current
         /\ primed' \subseteq Inputs /\ fed' \in BOOLEAN
         /\ mode' = IF r = "mode" THEN level ELSE mode
         /\ r = "idle" => state' = "idle"
         /\ r = "closed" => state' \in {"closed", state}
         /\ r \notin {"idle", "closed"} => state' = state
         /\ fed' = (fed \/ r = "feed")
         /\ primed' = CASE r \in Inputs -> primed \cup {r}
                        [] r = "mode" /\ mode # level -> {}
                        [] OTHER -> primed
  <1>1. "idle" \notin Inputs /\ "closed" \notin Inputs /\ "mode" \notin Inputs /\ "feed" \notin Inputs
    BY DEF Inputs
  <1>2. primed' \subseteq Inputs
    BY DEF Apply, TypeOK
  <1> QED BY <1>1, <1>2 DEF Apply, TypeOK

\* An acknowledged request has had its effect, and takes back no other.
LEMMA DoneKept ==
  ASSUME TypeOK, NEW r \in Requests, Apply(r), UNCHANGED level
  PROVE  /\ Done(r)'
         /\ \A x \in Requests : Done(x) => Done(x)'
  BY ApplyEffect DEF Done

LEMMA BeginKeepsCall ==
  ASSUME TypeOK, NEW c \in {"switch", "command"}, NEW l \in Levels \cup {UNDEFINED},
         Begin(c, l, IF c = "switch" THEN SwitchRequests(l) ELSE CommandRequests(l))
  PROVE  TypeOK' /\ CallInv'
  <1>1. TypeOK'
    BY DEF Begin, TypeOK
  <1>2. todo' = Sequence' /\ call' # "none"
    BY DEF Begin, Sequence
  <1>3. Sequence' \in Seq(Requests) /\ Len(Sequence)' \in Nat
    <2>1. l \in Level
      BY AxisAssumption DEF Level
    <2>2. Sequence' \in Seq(Requests)
      BY <2>1, RequestsType DEF Begin, Sequence
    <2> QED BY <2>2
  <1>4. todo' = SubSeq(Sequence', 1, Len(Sequence'))
    BY <1>2, <1>3, SubSeqFull
  <1>5. 0 \in 0..Len(Sequence)' /\ Progress(0)'
    BY <1>3, <1>4 DEF Progress, Begin
  <1>6. current' \subseteq primed'
    BY DEF Begin
  <1> QED BY <1>1, <1>2, <1>5, <1>6 DEF CallInv

LEMMA RequestKeepsCall ==
  ASSUME TypeOK, CallInv, NEW s \in Statuses, Request(s)
  PROVE  TypeOK' /\ CallInv'
  <1>1. todo # <<>> /\ call # "none" /\ level' = level
    BY DEF Request, CallInv
  <1>2. PICK k \in 0..Len(Sequence) : Progress(k)
    BY <1>1 DEF CallInv
  <1>3. /\ k + 1 \in 1..Len(Sequence)
        /\ Head(todo) = Sequence[k + 1]
        /\ Tail(todo) = SubSeq(Sequence, k + 2, Len(Sequence))
    BY <1>1, <1>2, DueRequest
  <1>4. Sequence \in Seq(Requests) /\ Len(Sequence) \in Nat /\ Head(todo) \in Requests
    BY <1>3, SequenceType, ElementOfSeq
  <1>5. TypeOK'
    <2>1. CASE Apply(Head(todo))
      <3>1. mode' \in AxisControlLevel
        <4>1. Head(todo) = "mode" => level \in AxisControlLevel
          BY <1>1, <1>3, RequestPlace, AxisAssumption DEF TypeOK
        <4> QED BY <1>4, <2>1, <4>1, ApplyEffect DEF TypeOK
      <3> QED BY <1>1, <1>4, <2>1, <3>1, ApplyEffect DEF Request, TypeOK
    <2>2. CASE AxisKeeps
      BY <1>1, <2>2 DEF AxisKeeps, Request, TypeOK
    <2> QED BY <2>1, <2>2 DEF Request
  <1>8. current' \subseteq primed'
    <2> DEFINE r == Head(todo)
    <2>0. current \subseteq primed
      BY DEF CallInv
    <2>1. CASE Apply(r)
      <3>1. "mode" \notin Inputs
        BY DEF Inputs
      <3>2. r = "mode" => current = {}
        BY <1>1, <1>2, <1>3, RequestPlace DEF Progress
      <3>3. /\ current' = IF r \in Inputs THEN current \cup {r} ELSE current
            /\ primed' = CASE r \in Inputs -> primed \cup {r}
                           [] r = "mode" /\ mode # level -> {}
                           [] OTHER -> primed
        BY <1>4, <2>1, ApplyEffect
      <3>4. CASE r \in Inputs
        <4>1. r # "mode"
          BY <3>1, <3>4
        <4>2. primed' = primed \cup {r} /\ current' = current \cup {r}
          BY <3>3, <3>4, <4>1
        <4> QED BY <2>0, <4>2
      <3>5. CASE r \notin Inputs
        BY <2>0, <3>2, <3>3, <3>5
      <3> QED BY <3>4, <3>5
    <2>2. CASE AxisKeeps
      BY <2>0, <2>2 DEF AxisKeeps
    <2> QED BY <2>1, <2>2 DEF Request
  <1>6. CASE s = "ok"
    <2>1. Apply(Head(todo)) /\ todo' = Tail(todo) /\ call' = call /\ Sequence' = Sequence
      BY <1>1, <1>6 DEF Request, Sequence
    <2>2. \A i \in 1..k + 1 : Done(Sequence[i])'
      <3>1. Done(Sequence[k + 1])'
        BY <1>1, <1>3, <1>4, <2>1, DoneKept
      <3>2. \A i \in 1..k : Sequence[i] \in Requests /\ Done(Sequence[i])
        BY <1>2, <1>3, <1>4, ElementOfSeq DEF Progress
      <3>3. \A i \in 1..k : Done(Sequence[i])'
        BY <1>1, <1>4, <2>1, <3>2, DoneKept
      <3> QED BY <1>3, <3>1, <3>3
    <2>3. Progress(k + 1)'
      BY <1>3, <2>1, <2>2 DEF Progress
    <2> QED BY <1>1, <1>3, <1>5, <1>8, <2>1, <2>3 DEF CallInv
  <1>7. CASE s # "ok"
    BY <1>5, <1>7, <1>8 DEF Request, CallInv
  <1> QED BY <1>6, <1>7

LEMMA CallInductive == TypeOK /\ CallInv /\ [Next]_vars => TypeOK' /\ CallInv'
  <1> SUFFICES ASSUME TypeOK, CallInv, [Next]_vars
               PROVE  TypeOK' /\ CallInv'
    OBVIOUS
  <1>1. ASSUME NEW l \in Levels \cup {UNDEFINED}, perform_axis_mode_switch(l)
        PROVE  TypeOK' /\ CallInv'
    BY <1>1, BeginKeepsCall DEF perform_axis_mode_switch
  <1>2. CASE write_axis_command
    BY <1>2, BeginKeepsCall DEF write_axis_command, TypeOK
  <1>3. ASSUME NEW s \in Statuses, Request(s)
        PROVE  TypeOK' /\ CallInv'
    BY <1>3, RequestKeepsCall
  <1>4. CASE Return
    BY <1>4 DEF Return, AxisKeeps, TypeOK, CallInv
  <1>5. CASE Tick \/ Stop \/ UNCHANGED vars
    <2>1. /\ UNCHANGED <<call, level, todo, mode, current, primed>>
          /\ TypeOK'
      BY <1>5 DEF Tick, Stop, vars, TypeOK
    <2> QED BY <2>1 DEF CallInv, Progress, Done, Sequence
  <1> QED BY <1>1, <1>2, <1>3, <1>4, <1>5 DEF Next

LEMMA CallInvariant == Spec => [](TypeOK /\ CallInv)
  <1>1. Init => TypeOK /\ CallInv
    BY DEF Init, TypeOK, CallInv
  <1>2. TypeOK /\ CallInv /\ [Next]_vars => (TypeOK /\ CallInv)'
    BY CallInductive
  <1> QED BY <1>1, <1>2, PTL DEF Spec

-----------------------------------------------------------------------------
(* What the requests do to the axis.                                       *)

\* Only a request changes the axis into closed loop, or feeds it: the last request of
\* its call, with the ones before it done.
LEMMA LastRequest ==
  ASSUME TypeOK, CallInv, NEW s \in Statuses, Request(s),
         Head(todo) \in {"closed", "feed"}
  PROVE  /\ level # UNDEFINED
         /\ Head(todo) = "closed" => call = "switch" /\ mode = level
         /\ Head(todo) = "feed" => call = "command"
         /\ ToSet(Setpoints(level)) \subseteq current
  <1> DEFINE n == Len(Sequence)
  <1>1. todo # <<>> /\ call # "none"
    BY DEF Request, CallInv
  <1>2. PICK k \in 0..n : Progress(k)
    BY <1>1 DEF CallInv
  <1>3. k + 1 \in 1..n /\ Head(todo) = Sequence[k + 1]
    BY <1>1, <1>2, DueRequest
  <1>4. /\ k + 1 = n /\ n \in Nat /\ level # UNDEFINED /\ level \in Level
        /\ Head(todo) = "closed" <=> call = "switch"
        /\ Head(todo) = "feed" <=> call = "command" /\ enable_watchdog
    BY <1>1, <1>3, RequestPlace, SequenceType DEF TypeOK
  <1>5. \A i \in 1..n - 1 : Done(Sequence[i])
    BY <1>2, <1>4 DEF Progress
  <1>6. \A x \in ToSet(Setpoints(level)) : x \in Inputs
    BY <1>4, SetpointsShape DEF ToSet
  <1>7. CASE Head(todo) = "closed"
    <2>1. /\ Sequence[1] = "mode" /\ n > 1
          /\ \A x \in ToSet(Setpoints(level)) : \E i \in 2..n - 1 : Sequence[i] = x
      BY <1>4, <1>7, SwitchShape DEF Sequence
    <2>2. mode = level
      BY <1>4, <1>5, <2>1 DEF Done
    <2>3. ToSet(Setpoints(level)) \subseteq current
      BY <1>4, <1>5, <1>6, <2>1 DEF Done
    <2> QED BY <1>4, <1>7, <2>2, <2>3
  <1>8. CASE Head(todo) = "feed"
    <2>1. \A x \in ToSet(Setpoints(level)) : \E i \in 1..n - 1 : Sequence[i] = x
      BY <1>4, <1>8, CommandShape DEF Sequence
    <2>2. ToSet(Setpoints(level)) \subseteq current
      BY <1>4, <1>5, <1>6, <2>1 DEF Done
    <2> QED BY <1>4, <1>8, <2>2
  <1> QED BY <1>7, <1>8

\* Every request is one of the requests there are.
LEMMA HeadType ==
  ASSUME TypeOK, CallInv, todo # <<>>
  PROVE  call # "none" /\ Head(todo) \in Requests
  BY DueRequest, SequenceType, ElementOfSeq DEF CallInv

\* perform_axis_mode_switch() enters closed loop in the mode it was called for, with every
\* input of the mode primed, for any control levels and wherever requests are lost.
THEOREM EntersPrimedHolds == Spec => EntersPrimed
  <1>1. TypeOK /\ CallInv /\ [Next]_vars
          => (state = "idle" /\ state' = "closed"
                => mode = level /\ ToSet(Setpoints(mode)) \subseteq current)
    <2> SUFFICES ASSUME TypeOK, CallInv, Next, state = "idle", state' = "closed"
                 PROVE  mode = level /\ ToSet(Setpoints(mode)) \subseteq current
      BY DEF vars
    <2>1. PICK s \in Statuses : Request(s)
      BY DEF Next, perform_axis_mode_switch, write_axis_command, Begin, Return, AxisKeeps, Tick, Stop
    <2>2. todo # <<>> /\ Apply(Head(todo))
      BY <2>1 DEF Request, AxisKeeps
    <2>3. Head(todo) = "closed"
      BY <2>2, HeadType, ApplyEffect
    <2> QED BY <2>1, <2>3, LastRequest
  <1> QED BY <1>1, CallInvariant, PTL DEF Spec, EntersPrimed

\* write_axis_command() feeds the watchdog only behind all the inputs of the level.
THEOREM FedHolds == Spec => FedByWholeCommands
  <1>1. TypeOK /\ CallInv /\ [Next]_vars
          => (~fed /\ fed' => call = "command" /\ level # UNDEFINED
                               /\ ToSet(Setpoints(level)) \subseteq current)
    <2> SUFFICES ASSUME TypeOK, CallInv, Next, ~fed, fed'
                 PROVE  call = "command" /\ level # UNDEFINED
                          /\ ToSet(Setpoints(level)) \subseteq current
      BY DEF vars
    <2>1. PICK s \in Statuses : Request(s)
      BY DEF Next, perform_axis_mode_switch, write_axis_command, Begin, Return, AxisKeeps, Tick, Stop
    <2>2. todo # <<>> /\ Apply(Head(todo))
      BY <2>1 DEF Request, AxisKeeps
    <2>3. Head(todo) = "feed"
      BY <2>2, HeadType, ApplyEffect
    <2> QED BY <2>1, <2>3, LastRequest
  <1> QED BY <1>1, CallInvariant, PTL DEF Spec, FedByWholeCommands

\* A mode switch that succeeds leaves the axis in its mode with the inputs primed, for any
\* control levels and any calls before it.
THEOREM SwitchLeavesPrimedHolds == Spec => []SwitchLeavesPrimed
  <1>1. TypeOK /\ CallInv => SwitchLeavesPrimed
    <2> SUFFICES ASSUME TypeOK, CallInv, call = "switch", todo = <<>>, level # UNDEFINED
                 PROVE  mode = level /\ ToSet(Setpoints(level)) \subseteq primed
      BY DEF SwitchLeavesPrimed
    <2> DEFINE n == Len(Sequence)
    <2>1. PICK k \in 0..n : Progress(k)
      BY DEF CallInv
    <2>2. level \in Level /\ Sequence \in Seq(Requests) /\ n \in Nat
      BY SequenceType
    <2>3. k = n
      <3> SUFFICES ASSUME k + 1 \in 1..n
                   PROVE  FALSE
        BY <2>2
      <3>3. Len(SubSeq(Sequence, k + 1, n)) = n - (k + 1) + 1
        <4>1. \A i \in (k + 1)..n : Sequence[i] \in Requests
          BY <2>2
        <4>2. k + 1 \in Int /\ n \in Int /\ k + 1 <= n
          BY <2>2
        <4> QED BY <4>1, <4>2, SubSeqProperties
      <3>4. Len(SubSeq(Sequence, k + 1, n)) > 0
        BY <2>2, <3>3
      <3>5. SubSeq(Sequence, k + 1, n) = <<>>
        BY <2>1 DEF Progress
      <3>6. Len(<<>>) = 0
        OBVIOUS
      <3>7. Len(SubSeq(Sequence, k + 1, n)) = 0
        BY <3>5, <3>6
      <3> QED BY <3>4, <3>7
    <2>4. \A i \in 1..n : Done(Sequence[i])
      BY <2>1, <2>3 DEF Progress
    <2>5. /\ Sequence[1] = "mode" /\ n > 1
          /\ \A x \in ToSet(Setpoints(level)) : \E i \in 2..n - 1 : Sequence[i] = x
      BY <2>2, SwitchShape DEF Sequence
    <2>6. mode = level
      BY <2>2, <2>4, <2>5 DEF Done
    <2>7. \A x \in ToSet(Setpoints(level)) : x \in Inputs
      BY <2>2, SetpointsShape DEF ToSet
    <2>8. ToSet(Setpoints(level)) \subseteq current
      BY <2>2, <2>4, <2>5, <2>7 DEF Done
    <2>9. current \subseteq primed
      BY DEF CallInv
    <2> QED BY <2>6, <2>8, <2>9
  <1> QED BY <1>1, CallInvariant, PTL

-----------------------------------------------------------------------------
(* The service: each step of a call is its effect, its end, or not seen.   *)

\* A call begins: it has its effect behind it only if it has nothing to do.
LEMMA BeginIsCall ==
  ASSUME TypeOK, CallInv, NEW c \in {"switch", "command"}, NEW l \in Levels \cup {UNDEFINED},
         Begin(c, l, IF c = "switch" THEN SwitchRequests(l) ELSE CommandRequests(l)),
         c = "command" => l = level
  PROVE  Service!Call
  <1>1. l \in Level
    BY AxisAssumption DEF Level
  <1>2. todo' = <<>> <=> c = "command" /\ l = UNDEFINED
    <2>1. CASE c = "switch" /\ l = UNDEFINED
      <3>1. todo' = <<"idle">>
        BY <2>1, IdleShape DEF Begin
      <3> QED BY <2>1, <3>1
    <2>2. CASE c = "switch" /\ l # UNDEFINED
      <3>1. SwitchRequests(l) \in Seq(Requests) /\ Len(SwitchRequests(l)) > 1
        BY <1>1, <2>2, SwitchShape
      <3>2. SwitchRequests(l) # <<>>
        BY <3>1
      <3> QED BY <2>2, <3>2 DEF Begin
    <2>3. CASE c = "command" /\ l = UNDEFINED
      BY <1>1, <2>3, CommandShape DEF Begin
    <2>4. CASE c = "command" /\ l # UNDEFINED
      <3>1. CommandRequests(l) \in Seq(Requests) /\ Len(CommandRequests(l)) > 0
        BY <1>1, <2>4, CommandShape
      <3>2. CommandRequests(l) # <<>>
        BY <3>1
      <3> QED BY <2>4, <3>2 DEF Begin
    <2> QED BY <2>1, <2>2, <2>3, <2>4
  <1>3. (call' # "none" /\ todo' = <<>>) = (c = "command" /\ l = UNDEFINED)
    BY <1>2 DEF Begin
  <1> QED BY <1>2, <1>3 DEF Begin, Service!Call, UNDEFINED, Service!UNDEFINED

\* What the service sees of a request that is carried out: its effect if it is the last of
\* its call, and nothing otherwise.
LEMMA RequestEffect ==
  ASSUME TypeOK, CallInv, todo # <<>>, Apply(Head(todo))
  PROVE  /\ Tail(todo) = <<>> =>
              /\ state' \in IF call = "command" THEN {state}
                            ELSE IF level = UNDEFINED THEN {"idle"} ELSE {"closed", state}
              /\ fed' = (fed \/ (call = "command" /\ enable_watchdog))
         /\ Tail(todo) # <<>> => state' = state /\ fed' = fed
  <1> DEFINE n == Len(Sequence)
             r == Head(todo)
  <1>1. call # "none" /\ r \in Requests
    BY HeadType
  <1>2. PICK k \in 0..n : Progress(k)
    BY <1>1 DEF CallInv
  <1>3. k + 1 \in 1..n /\ r = Sequence[k + 1] /\ (Tail(todo) = <<>> <=> k + 1 = n)
    BY <1>2, DueRequest
  <1>4. /\ r = "idle" <=> call = "switch" /\ level = UNDEFINED
        /\ r = "idle" => k + 1 = n
        /\ r = "closed" <=> call = "switch" /\ level # UNDEFINED /\ k + 1 = n
        /\ r = "feed" <=> call = "command" /\ enable_watchdog /\ k + 1 = n
    BY <1>1, <1>3, RequestPlace
  <1>5. /\ r = "idle" => state' = "idle"
        /\ r = "closed" => state' \in {"closed", state}
        /\ r \notin {"idle", "closed"} => state' = state
        /\ fed' = (fed \/ r = "feed")
    BY <1>1, ApplyEffect
  <1>6. CASE Tail(todo) = <<>>
    <2>1. call \in {"switch", "command"}
      BY <1>1 DEF TypeOK
    <2>2. state' \in IF call = "command" THEN {state}
                     ELSE IF level = UNDEFINED THEN {"idle"} ELSE {"closed", state}
      BY <1>3, <1>4, <1>5, <1>6, <2>1
    <2>3. r = "feed" <=> call = "command" /\ enable_watchdog
      BY <1>3, <1>4, <1>6
    <2>4. fed' = (fed \/ (call = "command" /\ enable_watchdog))
      BY <1>5, <2>3
    <2> QED BY <1>6, <2>2, <2>4
  <1>7. CASE Tail(todo) # <<>>
    <2>1. r \notin {"idle", "closed", "feed"}
      BY <1>3, <1>4, <1>7
    <2> QED BY <1>5, <1>7, <2>1 DEF TypeOK
  <1> QED BY <1>6, <1>7

LEMMA RequestIsServed ==
  ASSUME TypeOK, CallInv, NEW s \in Statuses, Request(s)
  PROVE  Service!Effect \/ Service!Fail \/ UNCHANGED Service!vars
  <1> DEFINE done == call # "none" /\ todo = <<>>
  <1>1. todo # <<>> /\ call # "none" /\ ~done /\ level' = level
    BY DEF Request, CallInv
  <1>2. CASE s = "ok"
    <2>1. /\ Apply(Head(todo)) /\ todo' = Tail(todo) /\ UNCHANGED <<call, level, result>>
      BY <1>2 DEF Request
    <2>2. CASE Tail(todo) = <<>>
      <3>1. (call' # "none" /\ todo' = <<>>) = TRUE
        BY <1>1, <2>1, <2>2
      <3>2. Service!Effect
        BY <1>1, <2>1, <2>2, <3>1, RequestEffect DEF Service!Effect, UNDEFINED, Service!UNDEFINED
      <3> QED BY <3>2
    <2>3. CASE Tail(todo) # <<>>
      <3>1. ~(call' # "none" /\ todo' = <<>>)
        BY <2>1, <2>3
      <3> QED BY <1>1, <2>1, <2>3, <3>1, RequestEffect DEF Service!vars
    <2> QED BY <2>2, <2>3
  <1>3. CASE s # "ok"
    <2>1. todo' = <<>> /\ call' = "none" /\ result' = "failed"
      BY <1>3 DEF Request
    <2>2. (call' # "none" /\ todo' = <<>>) = FALSE
      BY <2>1
    <2>3. CASE Apply(Head(todo)) /\ Tail(todo) = <<>>
      <3>1. Service!Effect
        BY <1>1, <2>1, <2>2, <2>3, RequestEffect DEF Service!Effect, UNDEFINED, Service!UNDEFINED
      <3> QED BY <3>1
    <2>4. CASE AxisKeeps \/ (Apply(Head(todo)) /\ Tail(todo) # <<>>)
      <3>1. state' = state /\ fed' = fed
        BY <1>1, <2>4, RequestEffect DEF AxisKeeps
      <3>2. Service!Fail
        BY <1>1, <2>1, <2>2, <3>1 DEF Service!Fail
      <3> QED BY <3>2
    <2> QED BY <2>3, <2>4 DEF Request
  <1> QED BY <1>2, <1>3

LEMMA StepIsServed ==
  ASSUME TypeOK, CallInv, [Next]_vars
  PROVE  [Service!Next]_Service!vars
  <1>1. ASSUME NEW l \in Levels \cup {UNDEFINED}, perform_axis_mode_switch(l)
        PROVE  Service!Next
    BY <1>1, BeginIsCall DEF perform_axis_mode_switch, Service!Next
  <1>2. CASE write_axis_command
    BY <1>2, BeginIsCall DEF write_axis_command, TypeOK, Service!Next
  <1>3. ASSUME NEW s \in Statuses, Request(s)
        PROVE  [Service!Next]_Service!vars
    BY <1>3, RequestIsServed DEF Service!Next
  <1>4. CASE Return
    BY <1>4 DEF Return, AxisKeeps, Service!Return, Service!Next
  <1>5. CASE Tick
    BY <1>5 DEF Tick, Service!Tick, Service!Next
  <1>6. CASE Stop
    BY <1>6 DEF Stop, Service!Stop, Service!Next
  <1>7. CASE UNCHANGED vars
    BY <1>7 DEF vars, Service!vars
  <1> QED BY <1>1, <1>2, <1>3, <1>4, <1>5, <1>6, <1>7 DEF Next

\* The request sequences implement the one-step calls of AxisService, as which
\* ODriveHardwareInterface takes perform_axis_mode_switch() and write_axis_command().
THEOREM ServiceImplemented == Spec => ImplementsService
  <1>1. Init => Service!Init
    BY DEF Init, Service!Init, UNDEFINED, Service!UNDEFINED
  <1>2. TypeOK /\ CallInv /\ [Next]_vars => [Service!Next]_Service!vars
    BY StepIsServed
  <1> QED BY <1>1, <1>2, CallInvariant, PTL DEF Spec, ImplementsService, Service!Spec
=============================================================================
