------------------------------- MODULE UsbProofs -------------------------------
(***************************************************************************)
(* Proofs about ODriveUsb: which interfaces are claimed, for any use of    *)
(* the transport, and that an operation takes its own answer, for a use by *)
(* one thread at a time and any failures, unless its device has something  *)
(* left to say.                                                            *)
(***************************************************************************)
EXTENDS ODriveUsb, SequenceTheorems, TLAPS

\* What is claimed, which devices the map may hold in each phase, and that an operation
\* is made of a device of the session.
MapInv ==
    /\ session = "none" => claimed = {} /\ found = {} /\ selected = {}
    /\ session # "scan" => scanning = Nobody
    /\ session \in {"scan", "match"} => selected = {}
    /\ found \subseteq scanned /\ scanning \notin found
    /\ scanning # Nobody => scanning \in scanned
    /\ \A c \in Clients : op[c].step # "idle" =>
           \/ session = "ready" /\ op[c].device \in selected
           \/ session = "scan" /\ op[c].device = scanning /\ scanning # Nobody

\* What AsyncIo's TransportIsExclusive promises: one operation at a time.
OneAtATime ==
    \A c1, c2 \in Clients : op[c1].step # "idle" /\ op[c2].step # "idle" => c1 = c2

\* Nothing is sent, and nothing waited for, once an error sticks.
StickyInv == sticky => Idle

\* Until an error sticks, the claimed devices that have nothing left to say hold the packet that
\* is waited for, and no other.
Asked(c) == [endpoint |-> op[c].endpoint, owner |-> c]
Quiet(d) == requests[d] = <<>> /\ responses[d] = <<>>
Pending(c, d) == \/ requests[d] = <<Asked(c)>> /\ responses[d] = <<>>
                 \/ requests[d] = <<>> /\ responses[d] = <<Asked(c)>>
WireInv ==
    ~sticky => \A d \in claimed \ left_over :
        \/ Quiet(d) /\ \A c \in Clients : op[c].step = "receive" => op[c].device # d
        \/ \E c \in Clients : op[c].step = "receive" /\ op[c].device = d /\ Pending(c, d)
-----------------------------------------------------------------------------
(* Types.                                                                  *)

\* One thread runs initialize().
LEMMA ConfigurerIsClient == Configurer \in Clients
  BY UsbAssumption DEF Configurer

\* Packets that lose their owner are packets, and an empty queue stays empty.
LEMMA OrphanedType ==
  ASSUME NEW packets \in Seq(Packet), NEW c
  PROVE  Orphaned(packets, c) \in Seq(Packet)
  <1> DEFINE n == Len(packets)
  <1>1. n \in Nat /\ DOMAIN packets = 1..n /\ \A i \in 1..n : packets[i] \in Packet
    OBVIOUS
  <1>2. \A i \in 1..n : [packets[i] EXCEPT !.owner = Nobody] \in Packet
    BY <1>1 DEF Packet
  <1>3. Orphaned(packets, c) \in [1..n -> Packet]
    BY <1>1, <1>2 DEF Orphaned
  <1> QED BY <1>1, <1>3, SeqDef

LEMMA OrphanedEmpty == \A c : Orphaned(<<>>, c) = <<>>
  BY DEF Orphaned

\* The end of an operation, and a transfer that fails.
LEMMA FinishType ==
  ASSUME TypeOK, NEW c \in Clients, NEW result \in {"own", "other", "failed"}, Finish(c, result)
  PROVE  /\ op' \in [Clients -> [step : Steps, device : Devices \cup {Nobody}, endpoint : Endpoints]]
         /\ answer' \in [Clients -> {"none", "own", "other", "failed"}]
  BY DEF TypeOK, Finish, NoOp, Steps, Endpoints, Size

LEMMA FailsType ==
  ASSUME TypeOK, NEW status, Fails(status)
  PROVE  sticky' \in BOOLEAN /\ failures' \in 0..MaxFailures
  BY UsbAssumption DEF TypeOK, Fails

\* The steps of endpointOperation().
LEMMA OperationKeepsTypes ==
  ASSUME TypeOK, NEW c \in Clients,
         MapInv,
         \/ Send(c)
         \/ Receive(c)
         \/ \E s \in Statuses : ReceiveFails(c, s) \/ \E r \in BOOLEAN : SendFails(c, s, r)
  PROVE  TypeOK'
  <1> DEFINE d == op[c].device
  <1>1. /\ requests \in [Devices -> Seq(Packet)] /\ responses \in [Devices -> Seq(Packet)]
        /\ op[c] \in [step : Steps, device : Devices \cup {Nobody}, endpoint : Endpoints]
    BY DEF TypeOK
  <1>2. Abandon(c) \in [Devices -> Seq(Packet)]
    BY <1>1, OrphanedType DEF Abandon
  <1>3. op[c].step # "idle" => d \in Devices
    BY DEF TypeOK, MapInv
  <1>4. CASE Send(c)
    <2> DEFINE packet == [endpoint |-> op[c].endpoint, owner |-> c]
    <2>1. d \in Devices /\ packet \in Packet
      BY <1>1, <1>3, <1>4 DEF Send, Packet
    <2>2. Append(requests[d], packet) \in Seq(Packet)
      BY <1>1, <2>1
    <2>3. requests' = [requests EXCEPT ![d] = Append(requests[d], packet)]
      BY <1>4 DEF Send
    <2>4. requests' \in [Devices -> Seq(Packet)]
      BY <1>1, <2>1, <2>2, <2>3
    <2>5. op' \in [Clients -> [step : Steps, device : Devices \cup {Nobody}, endpoint : Endpoints]]
      <3>1. [op[c] EXCEPT !.step = "receive"]
               \in [step : Steps, device : Devices \cup {Nobody}, endpoint : Endpoints]
        BY <1>1 DEF Steps
      <3> QED BY <1>4, <3>1 DEF Send, TypeOK
    <2> QED BY <1>4, <2>4, <2>5 DEF Send, TypeOK, map
  <1>5. CASE Receive(c)
    <2>1. d \in Devices /\ responses[d] # <<>>
      BY <1>3, <1>5 DEF Receive
    <2>2. Tail(responses[d]) \in Seq(Packet)
      BY <1>1, <2>1
    <2>3. \A x \in Devices : (IF x = d THEN Tail(responses[x]) ELSE responses[x]) \in Seq(Packet)
      BY <1>1, <2>2
    <2>4. responses' \in [Devices -> Seq(Packet)]
      BY <1>5, <2>3, OrphanedType DEF Receive
    <2>5. requests' \in [Devices -> Seq(Packet)]
      BY <1>2, <1>5 DEF Receive
    <2>6. PICK result \in {"own", "other", "failed"} : Finish(c, result)
      BY <1>5 DEF Receive
    <2>7. /\ op' \in [Clients -> [step : Steps, device : Devices \cup {Nobody}, endpoint : Endpoints]]
          /\ answer' \in [Clients -> {"none", "own", "other", "failed"}]
      BY <2>6, FinishType
    <2> QED BY <1>5, <2>4, <2>5, <2>7 DEF Receive, TypeOK, map
  <1>6. ASSUME NEW s \in Statuses, ReceiveFails(c, s)
        PROVE  TypeOK'
    <2>1. requests' \in [Devices -> Seq(Packet)] /\ responses' \in [Devices -> Seq(Packet)]
      BY <1>1, <1>2, <1>6, OrphanedType DEF ReceiveFails
    <2>2. /\ Finish(c, "failed") /\ Fails(s) /\ UNCHANGED <<session, map>>
          /\ left_over' \subseteq Devices
      BY <1>3, <1>6 DEF ReceiveFails, LeavesOver, TypeOK
    <2>3. /\ op' \in [Clients -> [step : Steps, device : Devices \cup {Nobody}, endpoint : Endpoints]]
          /\ answer' \in [Clients -> {"none", "own", "other", "failed"}]
      BY <2>2, FinishType
    <2> QED BY <2>1, <2>2, <2>3, FailsType DEF TypeOK, map
  <1>7. ASSUME NEW s \in Statuses, NEW r \in BOOLEAN, SendFails(c, s, r)
        PROVE  TypeOK'
    <2> DEFINE packet == [endpoint |-> op[c].endpoint, owner |-> Nobody]
    <2>1. d \in Devices /\ packet \in Packet
      BY <1>1, <1>3, <1>7 DEF SendFails, Packet
    <2>2. Append(requests[d], packet) \in Seq(Packet)
      BY <1>1, <2>1
    <2>3. requests' = IF r THEN [requests EXCEPT ![d] = Append(requests[d], packet)] ELSE requests
      BY <1>7 DEF SendFails
    <2>4. requests' \in [Devices -> Seq(Packet)]
      BY <1>1, <2>1, <2>2, <2>3
    <2>5. /\ Finish(c, "failed") /\ Fails(s) /\ UNCHANGED <<session, map, responses>>
          /\ left_over' \subseteq Devices
      BY <1>7, <2>1 DEF SendFails, LeavesOver, TypeOK
    <2>6. /\ op' \in [Clients -> [step : Steps, device : Devices \cup {Nobody}, endpoint : Endpoints]]
          /\ answer' \in [Clients -> {"none", "own", "other", "failed"}]
      BY <2>5, FinishType
    <2> QED BY <2>4, <2>5, <2>6, FailsType DEF TypeOK, map
  <1> QED BY <1>4, <1>5, <1>6, <1>7

\* What the device handles moves from one queue to the other.
LEMMA AnswerKeepsTypes ==
  ASSUME TypeOK, NEW d \in Devices, Answer(d)
  PROVE  TypeOK'
  <1>1. requests[d] \in Seq(Packet) /\ responses[d] \in Seq(Packet) /\ requests[d] # <<>>
    BY DEF TypeOK, Answer
  <1>2. Head(requests[d]) \in Packet /\ Tail(requests[d]) \in Seq(Packet)
    BY <1>1
  <1>3. Append(responses[d], Head(requests[d])) \in Seq(Packet)
    BY <1>1, <1>2
  <1>4. /\ requests' = [requests EXCEPT ![d] = Tail(requests[d])]
        /\ responses' = [responses EXCEPT ![d] = Append(responses[d], Head(requests[d]))]
    BY DEF Answer
  <1>5. requests' \in [Devices -> Seq(Packet)] /\ responses' \in [Devices -> Seq(Packet)]
    BY <1>2, <1>3, <1>4 DEF TypeOK
  <1> QED BY <1>5 DEF TypeOK, Answer, map

\* read(), write() and call().
LEMMA RequestKeepsTypes ==
  ASSUME TypeOK, NEW c \in Clients, NEW serial \in Configured, NEW e \in {"float", "call"},
         Request(c, serial, e)
  PROVE  TypeOK'
  <1>1. CASE Finish(c, "failed")
    <2>1. /\ op' \in [Clients -> [step : Steps, device : Devices \cup {Nobody}, endpoint : Endpoints]]
          /\ answer' \in [Clients -> {"none", "own", "other", "failed"}]
      BY <1>1, FinishType
    <2> QED BY <2>1 DEF Request, Start, TypeOK, map, wire
  <1>2. CASE /\ serial \in selected
             /\ op' = [op EXCEPT ![c] = [step |-> "send", device |-> serial, endpoint |-> e]]
             /\ answer' = [answer EXCEPT ![c] = "none"]
    <2>1. [step |-> "send", device |-> serial, endpoint |-> e]
             \in [step : Steps, device : Devices \cup {Nobody}, endpoint : Endpoints]
      BY <1>2 DEF TypeOK, Steps, Endpoints, Size
    <2>2. /\ op' \in [Clients -> [step : Steps, device : Devices \cup {Nobody}, endpoint : Endpoints]]
          /\ answer' \in [Clients -> {"none", "own", "other", "failed"}]
      BY <1>2, <2>1 DEF TypeOK
    <2> QED BY <2>2 DEF Request, Start, TypeOK, map, wire
  <1> QED BY <1>1, <1>2 DEF Request, Start

\* The steps of initialize(), and the destructor.
LEMMA ScanDeviceKeepsTypes ==
  ASSUME TypeOK, NEW d \in Devices, ScanDevice(d)
  PROVE  TypeOK'
  <1>1. requests' \in [Devices -> Seq(Packet)] /\ responses' \in [Devices -> Seq(Packet)]
    <2>1. <<>> \in Seq(Packet)
      OBVIOUS
    <2>2. CASE DeviceForgets
      BY <2>1, <2>2 DEF TypeOK, ScanDevice
    <2>3. CASE ~DeviceForgets
      BY <2>3 DEF TypeOK, ScanDevice
    <2> QED BY <2>2, <2>3
  <1>2. CASE Finish(Configurer, "failed")
    <2>1. /\ op' \in [Clients -> [step : Steps, device : Devices \cup {Nobody}, endpoint : Endpoints]]
          /\ answer' \in [Clients -> {"none", "own", "other", "failed"}]
      BY <1>2, FinishType, ConfigurerIsClient
    <2> QED BY <1>1, <2>1 DEF ScanDevice, TypeOK
  <1>3. CASE /\ op' = [op EXCEPT ![Configurer] =
                         [step |-> "send", device |-> d, endpoint |-> "serial"]]
             /\ answer' = [answer EXCEPT ![Configurer] = "none"]
    <2>1. [step |-> "send", device |-> d, endpoint |-> "serial"]
             \in [step : Steps, device : Devices \cup {Nobody}, endpoint : Endpoints]
      BY DEF Steps, Endpoints, Size
    <2>2. /\ op' \in [Clients -> [step : Steps, device : Devices \cup {Nobody}, endpoint : Endpoints]]
          /\ answer' \in [Clients -> {"none", "own", "other", "failed"}]
      BY <1>3, <2>1 DEF TypeOK
    <2> QED BY <1>1, <2>2 DEF ScanDevice, TypeOK
  <1> QED BY <1>2, <1>3 DEF ScanDevice

LEMMA SessionKeepsTypes ==
  ASSUME TypeOK, MapInv,
         \/ Initialize \/ ScanEnds \/ MatchSerials \/ Destroy \/ ScanResult
         \/ \E d \in Devices : SkipDevice(d)
  PROVE  TypeOK'
  <1>1. CASE Initialize
    BY <1>1 DEF Initialize, TypeOK, map, wire
  <1>2. CASE ScanEnds
    BY <1>2 DEF ScanEnds, TypeOK, map, wire
  <1>3. CASE MatchSerials
    BY <1>3 DEF MatchSerials, Match, TypeOK, wire
  <1>4. CASE Destroy
    BY <1>4 DEF Destroy, Released, TypeOK, wire
  <1>5. CASE ScanResult
    BY <1>5 DEF ScanResult, Identified, TypeOK, wire
  <1>6. CASE \E d \in Devices : SkipDevice(d)
    BY <1>6 DEF SkipDevice, TypeOK, wire
  <1> QED BY <1>1, <1>2, <1>3, <1>4, <1>5, <1>6

LEMMA NextKeepsTypes == TypeOK /\ MapInv /\ [Next]_vars => TypeOK'
  <1> SUFFICES ASSUME TypeOK, MapInv, [Next]_vars
               PROVE  TypeOK'
    OBVIOUS
  <1>1. CASE \/ Initialize \/ ScanEnds \/ MatchSerials \/ Destroy \/ ScanResult
             \/ \E d \in Devices : SkipDevice(d)
    BY <1>1, SessionKeepsTypes
  <1>2. CASE \E d \in Devices : ScanDevice(d) \/ Answer(d)
    BY <1>2, ScanDeviceKeepsTypes, AnswerKeepsTypes
  <1>3. CASE \E c \in Clients, d \in Configured, e \in {"float", "call"} : Request(c, d, e)
    BY <1>3, RequestKeepsTypes
  <1>4. CASE \E c \in Clients :
               \/ Send(c)
               \/ Receive(c)
               \/ \E s \in Statuses : ReceiveFails(c, s) \/ \E r \in BOOLEAN : SendFails(c, s, r)
    BY <1>4, OperationKeepsTypes
  <1>5. CASE UNCHANGED vars
    BY <1>5 DEF vars, map, wire, TypeOK
  <1> QED BY <1>1, <1>2, <1>3, <1>4, <1>5 DEF Next

-----------------------------------------------------------------------------
(* The claimed interfaces.                                                 *)

\* A step of an operation ends it, or goes on with the same device, and changes
\* nothing of the session.
LEMMA OperationSteps ==
  ASSUME TypeOK, NEW c \in Clients,
         \/ Send(c)
         \/ Receive(c)
         \/ \E s \in Statuses : ReceiveFails(c, s) \/ \E r \in BOOLEAN : SendFails(c, s, r)
  PROVE  /\ UNCHANGED <<session, map>>
         /\ op[c].step # "idle"
         /\ \A x \in Clients \ {c} : op'[x] = op[x]
         /\ op'[c].step = "idle" \/ op'[c].device = op[c].device
  BY DEF TypeOK, Send, Receive, ReceiveFails, SendFails, Finish, NoOp

\* initialize() and the destructor keep the account of what is claimed.
LEMMA SessionKeepsMap ==
  ASSUME TypeOK, MapInv, ClaimedIsAccounted, ReadyHasTheConfigured,
         \/ Initialize \/ ScanEnds \/ MatchSerials \/ Destroy \/ ScanResult
         \/ \E d \in Devices : SkipDevice(d)
  PROVE  MapInv' /\ ClaimedIsAccounted' /\ ReadyHasTheConfigured'
  <1> USE DEF MapInv, ClaimedIsAccounted, ReadyHasTheConfigured, map
  <1>0. \A d \in Devices : d # Nobody
    BY UsbAssumption
  <1>1. CASE Initialize
    BY <1>1 DEF Initialize, Idle
  <1>2. CASE ScanEnds
    BY <1>2 DEF ScanEnds
  <1>3. CASE MatchSerials
    BY <1>0, <1>3 DEF MatchSerials, Match, TypeOK
  <1>4. CASE Destroy
    BY <1>0, <1>4 DEF Destroy, Released, Idle, TypeOK
  <1>5. CASE ScanResult
    <2>1. /\ session = "scan" /\ session' = "scan" /\ scanning \in Devices /\ scanning' = Nobody
          /\ selected = {} /\ selected' = {} /\ scanned' = scanned
          /\ \A c \in Clients : op'[c].step = "idle"
      BY <1>5 DEF ScanResult, Idle, TypeOK
    <2>2. scanning \notin found /\ claimed = found \cup {scanning} /\ Nobody \notin found
      BY <1>0, <2>1 DEF TypeOK
    <2>3. found' \subseteq scanned /\ Nobody \notin found' /\ claimed' = found'
      <3>1. CASE answer[Configurer] = "failed"
        BY <1>5, <2>1, <2>2, <3>1 DEF ScanResult, Identified
      <3>2. CASE answer[Configurer] # "failed"
        <4>1. scanning \in scanned
          BY <1>0, <2>1
        <4> QED BY <1>0, <1>5, <2>1, <2>2, <3>2, <4>1 DEF ScanResult, Identified
      <3> QED BY <3>1, <3>2
    <2> QED BY <2>1, <2>3
  <1>6. CASE \E d \in Devices : SkipDevice(d)
    BY <1>6 DEF SkipDevice
  <1> QED BY <1>1, <1>2, <1>3, <1>4, <1>5, <1>6

LEMMA NextKeepsMap ==
  TypeOK /\ MapInv /\ ClaimedIsAccounted /\ ReadyHasTheConfigured /\ [Next]_vars
    => MapInv' /\ ClaimedIsAccounted' /\ ReadyHasTheConfigured'
  <1> SUFFICES ASSUME TypeOK, MapInv, ClaimedIsAccounted, ReadyHasTheConfigured, [Next]_vars
               PROVE  MapInv' /\ ClaimedIsAccounted' /\ ReadyHasTheConfigured'
    OBVIOUS
  <1> USE DEF MapInv, ClaimedIsAccounted, ReadyHasTheConfigured, map
  <1>1. CASE \/ Initialize \/ ScanEnds \/ MatchSerials \/ Destroy \/ ScanResult
             \/ \E d \in Devices : SkipDevice(d)
    BY <1>1, SessionKeepsMap
  <1>2. ASSUME NEW d \in Devices, ScanDevice(d)
        PROVE  MapInv' /\ ClaimedIsAccounted' /\ ReadyHasTheConfigured'
    <2>1. \A x \in Clients : op'[x].step # "idle" => x = Configurer /\ op'[x].device = d
      BY <1>2, ConfigurerIsClient DEF ScanDevice, Finish, NoOp, TypeOK
    <2> QED BY <1>2, <2>1, UsbAssumption DEF ScanDevice, TypeOK
  <1>3. ASSUME NEW d \in Devices, Answer(d)
        PROVE  MapInv' /\ ClaimedIsAccounted' /\ ReadyHasTheConfigured'
    BY <1>3 DEF Answer
  <1>4. ASSUME NEW c \in Clients, NEW d \in Configured, NEW e \in {"float", "call"}, Request(c, d, e)
        PROVE  MapInv' /\ ClaimedIsAccounted' /\ ReadyHasTheConfigured'
    <2>1. \A x \in Clients \ {c} : op'[x] = op[x]
      BY <1>4 DEF Request, Start, Finish, TypeOK
    <2>2. op'[c].step # "idle" => op'[c].device = d /\ d \in selected
      BY <1>4 DEF Request, Start, Finish, NoOp, TypeOK
    <2> QED BY <1>4, <2>1, <2>2 DEF Request
  <1>5. CASE \E c \in Clients :
               \/ Send(c)
               \/ Receive(c)
               \/ \E s \in Statuses : ReceiveFails(c, s) \/ \E r \in BOOLEAN : SendFails(c, s, r)
    BY <1>5, OperationSteps
  <1>6. CASE UNCHANGED vars
    BY <1>6 DEF vars
  <1> QED BY <1>1, <1>2, <1>3, <1>4, <1>5, <1>6 DEF Next

LEMMA InitFacts == Init => TypeOK /\ MapInv /\ ClaimedIsAccounted /\ ReadyHasTheConfigured
  <1> SUFFICES ASSUME Init
               PROVE  TypeOK /\ MapInv /\ ClaimedIsAccounted /\ ReadyHasTheConfigured
    OBVIOUS
  <1>1. TypeOK
    <2>1. <<>> \in Seq(Packet)
      OBVIOUS
    <2>2. requests \in [Devices -> Seq(Packet)] /\ responses \in [Devices -> Seq(Packet)]
      BY <2>1 DEF Init
    <2>3. NoOp \in [step : Steps, device : Devices \cup {Nobody}, endpoint : Endpoints]
      BY DEF NoOp, Steps, Endpoints, Size
    <2>4. failures \in 0..MaxFailures
      BY UsbAssumption DEF Init
    <2> QED BY <2>2, <2>3, <2>4 DEF Init, TypeOK
  <1>2. MapInv /\ ClaimedIsAccounted /\ ReadyHasTheConfigured
    BY DEF Init, NoOp, MapInv, ClaimedIsAccounted, ReadyHasTheConfigured
  <1> QED BY <1>1, <1>2

LEMMA SessionInvariant ==
  Spec => [](TypeOK /\ MapInv /\ ClaimedIsAccounted /\ ReadyHasTheConfigured)
  <1>1. TypeOK /\ MapInv /\ ClaimedIsAccounted /\ ReadyHasTheConfigured /\ [Next]_vars
          => (TypeOK /\ MapInv /\ ClaimedIsAccounted /\ ReadyHasTheConfigured)'
    BY NextKeepsTypes, NextKeepsMap
  <1> QED BY <1>1, InitFacts, PTL DEF Spec

\* Every variable holds a value of its type.
THEOREM UsbTyping == Spec => []TypeOK
  BY SessionInvariant, PTL

\* initialize() and the destructor leave no interface claimed that is not in the map, for
\* any devices, failures and users of the transport.
THEOREM ClaimedHolds == Spec => []ClaimedIsAccounted
  BY SessionInvariant, PTL

\* initialize() succeeds with the configured devices, or the only one, and no others claimed.
THEOREM ReadyHolds == Spec => []ReadyHasTheConfigured
  BY SessionInvariant, PTL

-----------------------------------------------------------------------------
(* The packets.                                                            *)

AnswersInv == StickyInv /\ WireInv

\* While one operation runs, the others are idle.
LEMMA OthersIdle ==
  ASSUME OneAtATime, NEW c \in Clients, op[c].step # "idle"
  PROVE  \A x \in Clients \ {c} : op[x].step = "idle"
  BY DEF OneAtATime

\* An operation that fails sets the sticky error, or leaves its device behind with what it may
\* still say; the other devices have nothing to say, now that nobody waits.
LEMMA FailureKeepsAnswers ==
  ASSUME TypeOK, OneAtATime, AnswersInv, NEW c \in Clients, NEW s \in Statuses,
         ReceiveFails(c, s) \/ \E r \in BOOLEAN : SendFails(c, s, r)
  PROVE  AnswersInv'
  <1> DEFINE d == op[c].device
  <1>1. op[c].step # "idle" /\ Finish(c, "failed") /\ Fails(s) /\ UNCHANGED map
    BY DEF ReceiveFails, SendFails
  <1>2. ~sticky /\ \A x \in Clients \ {c} : op[x].step = "idle"
    BY <1>1, OthersIdle DEF AnswersInv, StickyInv, Idle
  <1>3. Idle'
    BY <1>1, <1>2 DEF Finish, NoOp, Idle, TypeOK
  <1>4. CASE s \in {"timeout", "gone"}
    BY <1>1, <1>3, <1>4 DEF Fails, AnswersInv, StickyInv, WireInv
  <1>5. CASE s = "io" /\ ReceiveFails(c, s)
    <2>1. left_over' = left_over \cup {d}
      BY <1>5 DEF ReceiveFails, LeavesOver
    <2>2. \A x \in claimed \ left_over' : x \in Devices /\ Quiet(x)
      BY <1>2, <2>1 DEF AnswersInv, WireInv, TypeOK
    <2>3. \A x \in claimed \ left_over' : requests'[x] = Orphaned(<<>>, c)
                                            /\ responses'[x] = Orphaned(<<>>, c)
      BY <1>5, <2>2 DEF ReceiveFails, Abandon, Quiet
    <2>4. \A x \in claimed \ left_over' : Quiet(x)'
      BY <2>3, OrphanedEmpty DEF Quiet
    <2> QED BY <1>1, <1>3, <2>4 DEF AnswersInv, StickyInv, WireInv, Idle, map
  <1>6. ASSUME NEW r \in BOOLEAN, SendFails(c, s, r), s = "io"
        PROVE  AnswersInv'
    <2>1. op[c].step = "send"
      BY <1>6 DEF SendFails
    <2>2. \A x \in claimed \ left_over : x \in Devices /\ Quiet(x)
      BY <1>2, <2>1 DEF AnswersInv, WireInv, TypeOK
    <2>3. \A x \in claimed \ left_over' : x \in claimed \ left_over /\ (r => x # d)
      BY <1>6 DEF SendFails, LeavesOver
    <2>4. \A x \in claimed \ left_over' : Quiet(x)'
      BY <1>6, <2>2, <2>3 DEF SendFails, Quiet, TypeOK
    <2> QED BY <1>1, <1>3, <2>4 DEF AnswersInv, StickyInv, WireInv, Idle, map
  <1> QED BY <1>4, <1>5, <1>6, UsbAssumption

\* The request goes into a queue of which nothing is left.
LEMMA SendKeepsAnswers ==
  ASSUME TypeOK, MapInv, ClaimedIsAccounted, OneAtATime, AnswersInv, NEW c \in Clients, Send(c)
  PROVE  AnswersInv'
  <1> DEFINE d == op[c].device
             packet == [endpoint |-> op[c].endpoint, owner |-> c]
  <1>1. /\ op[c].step = "send"
        /\ requests' = [requests EXCEPT ![d] = Append(requests[d], packet)]
        /\ op' = [op EXCEPT ![c].step = "receive"]
        /\ UNCHANGED <<session, map, sticky, answer, responses, left_over>>
    BY DEF Send
  <1>2. ~sticky /\ \A x \in Clients \ {c} : op[x].step = "idle"
    BY <1>1, OthersIdle DEF AnswersInv, StickyInv, Idle
  <1>3. d \in claimed /\ d \in Devices
    BY <1>1 DEF MapInv, ClaimedIsAccounted, TypeOK
  <1>4. \A x \in claimed \ left_over : Quiet(x)
    BY <1>1, <1>2 DEF AnswersInv, WireInv
  <1>5. /\ op'[c].step = "receive" /\ op'[c].device = d /\ op'[c].endpoint = op[c].endpoint
        /\ \A x \in Clients \ {c} : op'[x].step = "idle"
    BY <1>1, <1>2 DEF TypeOK
  <1>6. d \notin left_over => requests'[d] = <<packet>> /\ responses'[d] = <<>>
    <2> SUFFICES ASSUME d \notin left_over
                 PROVE  requests'[d] = <<packet>> /\ responses'[d] = <<>>
      OBVIOUS
    <2>1. requests[d] = <<>> /\ responses[d] = <<>>
      BY <1>3, <1>4 DEF Quiet
    <2>2. Append(<<>>, packet) = <<packet>>
      OBVIOUS
    <2>3. requests'[d] = Append(requests[d], packet)
      BY <1>1, <1>3 DEF TypeOK
    <2> QED BY <1>1, <2>1, <2>2, <2>3
  <1>7. d \notin left_over => Pending(c, d)'
    BY <1>5, <1>6 DEF Pending, Asked
  <1>8. \A x \in (claimed \ left_over) \ {d} : Quiet(x)'
    BY <1>1, <1>4 DEF Quiet, TypeOK
  <1>9. WireInv'
    BY <1>1, <1>5, <1>7, <1>8 DEF WireInv, map
  <1> QED BY <1>1, <1>2, <1>9 DEF AnswersInv, StickyInv

\* The only packet is the answer to the only request.
LEMMA ReceivesOwn ==
  ASSUME TypeOK, MapInv, ClaimedIsAccounted, OneAtATime, AnswersInv,
         NEW c \in Clients, Receive(c), op[c].device \notin left_over
  PROVE  /\ Finish(c, "own")
         /\ requests[op[c].device] = <<>> /\ responses[op[c].device] = <<Asked(c)>>
  <1> DEFINE d == op[c].device
             packet == Head(responses[d])
  <1>1. op[c].step = "receive" /\ responses[d] # <<>>
    BY DEF Receive
  <1>2. ~sticky /\ d \in claimed \ left_over
    BY <1>1 DEF AnswersInv, StickyInv, Idle, MapInv, ClaimedIsAccounted
  <1>3. requests[d] = <<>> /\ responses[d] = <<Asked(c)>>
    BY <1>1, <1>2 DEF AnswersInv, WireInv, OneAtATime, Quiet, Pending
  <1>4. packet.endpoint = op[c].endpoint /\ packet.owner = c
    BY <1>3 DEF Asked
  <1>5. Size[op[c].endpoint] \in Nat
    BY DEF TypeOK, Endpoints, Size
  <1>6. ~(Size[packet.endpoint] < Size[op[c].endpoint])
    BY <1>4, <1>5
  <1> QED BY <1>3, <1>4, <1>6 DEF Receive

\* Behind it nothing is on the wire of any device that has nothing left to say.
LEMMA ReceiveKeepsAnswers ==
  ASSUME TypeOK, MapInv, ClaimedIsAccounted, OneAtATime, AnswersInv, NEW c \in Clients, Receive(c)
  PROVE  AnswersInv'
  <1> DEFINE d == op[c].device
  <1>1. /\ op[c].step = "receive"
        /\ responses' = [x \in Devices |->
              Orphaned(IF x = d THEN Tail(responses[x]) ELSE responses[x], c)]
        /\ requests' = Abandon(c)
        /\ UNCHANGED <<session, map, sticky, left_over>>
    BY DEF Receive
  <1>2. ~sticky /\ \A x \in Clients \ {c} : op[x].step = "idle"
    BY <1>1, OthersIdle DEF AnswersInv, StickyInv, Idle
  <1>3. \A x \in claimed : x \in Devices
    BY DEF TypeOK
  <1>4. \A x \in claimed \ left_over : x # d => Quiet(x)
    BY <1>1, <1>2 DEF AnswersInv, WireInv
  <1>5. d \notin left_over => requests[d] = <<>> /\ Tail(responses[d]) = <<>>
    <2>1. Tail(<<Asked(c)>>) = <<>>
      OBVIOUS
    <2> QED BY <2>1, ReceivesOwn
  <1>6. \A x \in claimed \ left_over : requests'[x] = Orphaned(<<>>, c)
    BY <1>1, <1>3, <1>4, <1>5 DEF Abandon, Quiet
  <1>7. \A x \in claimed \ left_over : responses'[x] = Orphaned(<<>>, c)
    BY <1>1, <1>3, <1>4, <1>5 DEF Quiet
  <1>8. \A x \in claimed \ left_over : Quiet(x)'
    BY <1>6, <1>7, OrphanedEmpty DEF Quiet
  <1>9. \A x \in Clients : op'[x].step = "idle"
    BY <1>2 DEF Receive, Finish, NoOp, TypeOK
  <1>10. WireInv'
    BY <1>1, <1>8, <1>9 DEF WireInv, map
  <1> QED BY <1>9, <1>10 DEF AnswersInv, StickyInv, Idle

\* The device turns the pending request into the pending response.
LEMMA AnswerKeepsAnswers ==
  ASSUME TypeOK, AnswersInv, NEW d \in Devices, Answer(d)
  PROVE  AnswersInv'
  <1>1. /\ requests[d] # <<>>
        /\ requests' = [requests EXCEPT ![d] = Tail(requests[d])]
        /\ responses' = [responses EXCEPT ![d] = Append(responses[d], Head(requests[d]))]
        /\ UNCHANGED <<session, map, sticky, op, answer, left_over>>
    BY DEF Answer
  <1>2. \A c \in Clients : Asked(c)' = Asked(c)
    BY <1>1 DEF Asked
  <1>3. \A x \in Devices \ {d} : requests'[x] = requests[x] /\ responses'[x] = responses[x]
    BY <1>1 DEF TypeOK
  <1>4. \A c \in Clients : Pending(c, d) => Pending(c, d)'
    <2> SUFFICES ASSUME NEW c \in Clients, Pending(c, d)
                 PROVE  Pending(c, d)'
      OBVIOUS
    <2>1. requests[d] = <<Asked(c)>> /\ responses[d] = <<>>
      BY <1>1 DEF Pending
    <2>2. Tail(requests[d]) = <<>> /\ Append(responses[d], Head(requests[d])) = <<Asked(c)>>
      BY <2>1
    <2>3. requests'[d] = <<>> /\ responses'[d] = <<Asked(c)>>
      BY <1>1, <2>2 DEF TypeOK
    <2> QED BY <1>2, <2>3 DEF Pending
  <1>5. ~Quiet(d)
    BY <1>1 DEF Quiet
  <1>6. WireInv'
    <2> SUFFICES ASSUME ~sticky, NEW x \in claimed \ left_over
                 PROVE  (\/ Quiet(x) /\ \A c \in Clients : op[c].step = "receive" => op[c].device # x
                         \/ \E c \in Clients : op[c].step = "receive" /\ op[c].device = x
                                                 /\ Pending(c, x))'
      BY <1>1 DEF WireInv, map
    <2>1. x \in Devices
      BY DEF TypeOK
    <2>2. CASE x = d
      BY <1>1, <1>4, <1>5, <2>2 DEF AnswersInv, WireInv
    <2>3. CASE x # d
      BY <1>1, <1>2, <1>3, <2>1, <2>3 DEF AnswersInv, WireInv, Quiet, Pending
    <2> QED BY <2>2, <2>3
  <1> QED BY <1>1, <1>6 DEF AnswersInv, StickyInv, Idle

\* The scan asks a device whose interface it has just claimed, and that may be left with
\* packets of the session before.
LEMMA ScanKeepsAnswers ==
  ASSUME TypeOK, MapInv, AnswersInv, NEW d \in Devices, ScanDevice(d)
  PROVE  AnswersInv'
  <1>1. /\ claimed' = claimed \cup {d} /\ UNCHANGED sticky
        /\ session = "scan" /\ scanning = Nobody
    BY DEF ScanDevice
  <1>2. \A c \in Clients : op[c].step = "idle"
    BY <1>1 DEF MapInv
  <1>3. \A c \in Clients : op'[c].step # "receive" /\ (sticky => op'[c].step = "idle")
    <2>1. \E o : /\ op' = [op EXCEPT ![Configurer] = o]
                 /\ o.step # "receive" /\ (sticky => o.step = "idle")
      BY DEF ScanDevice, Finish, NoOp
    <2>2. \A c \in Clients :
             op'[c] = op[c] \/ (op'[c].step # "receive" /\ (sticky => op'[c].step = "idle"))
      BY <2>1, ConfigurerIsClient DEF TypeOK
    <2> QED BY <1>2, <2>2
  <1>4. ~sticky => \A x \in claimed \ left_over : Quiet(x)
    BY <1>2 DEF AnswersInv, WireInv
  <1>5. \A x \in Devices \ {d} : requests'[x] = requests[x] /\ responses'[x] = responses[x]
    BY DEF ScanDevice, TypeOK
  <1>6. /\ d \notin left_over' => Quiet(d)'
        /\ \A x \in claimed' \ left_over' : x = d \/ (x \in claimed \ left_over /\ x \in Devices)
    BY <1>1 DEF ScanDevice, Quiet, TypeOK
  <1>7. ~sticky => \A x \in claimed' \ left_over' : Quiet(x)'
    BY <1>4, <1>5, <1>6 DEF Quiet
  <1> QED BY <1>1, <1>3, <1>7 DEF AnswersInv, StickyInv, WireInv, Idle

\* read(), write() and call() touch no packet yet.
LEMMA RequestKeepsAnswers ==
  ASSUME TypeOK, AnswersInv, NEW c \in Clients, NEW serial \in Configured,
         NEW e \in {"float", "call"}, Request(c, serial, e)
  PROVE  AnswersInv'
  <1>1. /\ op[c].step = "idle" /\ UNCHANGED <<session, map, sticky, requests, responses, left_over>>
        /\ op'[c].step # "receive" /\ (sticky => op'[c].step = "idle")
        /\ \A x \in Clients \ {c} : op'[x] = op[x]
    BY DEF Request, Start, Finish, NoOp, wire, TypeOK
  <1>2. StickyInv'
    BY <1>1 DEF AnswersInv, StickyInv, Idle
  <1>3. \A x \in Clients : op[x].step = "receive" => op'[x] = op[x]
    BY <1>1
  <1>4. \A x \in Clients : op'[x].step = "receive" => op'[x] = op[x]
    BY <1>1
  <1>5. \A d : \A x \in Clients : op[x].step = "receive" /\ Pending(x, d) => Pending(x, d)'
    BY <1>1, <1>3 DEF Pending, Asked
  <1>6. WireInv'
    <2> SUFFICES ASSUME ~sticky, NEW d \in claimed \ left_over
                 PROVE  (\/ Quiet(d) /\ \A x \in Clients : op[x].step = "receive" => op[x].device # d
                         \/ \E x \in Clients : op[x].step = "receive" /\ op[x].device = d
                                                 /\ Pending(x, d))'
      BY <1>1 DEF WireInv, map
    <2>1. CASE Quiet(d) /\ \A x \in Clients : op[x].step = "receive" => op[x].device # d
      BY <1>1, <1>4, <2>1 DEF Quiet
    <2>2. CASE \E x \in Clients : op[x].step = "receive" /\ op[x].device = d /\ Pending(x, d)
      BY <1>3, <1>5, <2>2
    <2> QED BY <2>1, <2>2 DEF AnswersInv, WireInv
  <1> QED BY <1>2, <1>6 DEF AnswersInv

\* initialize() and the destructor claim nothing here, and forget the sticky error only
\* when nothing is claimed.
LEMMA SessionKeepsAnswers ==
  ASSUME TypeOK, MapInv, ClaimedIsAccounted, AnswersInv,
         \/ Initialize \/ ScanEnds \/ MatchSerials \/ Destroy \/ ScanResult
         \/ \E d \in Devices : SkipDevice(d)
  PROVE  AnswersInv'
  <1>1. /\ UNCHANGED <<op, answer, requests, responses, left_over>>
        /\ \A c \in Clients : op[c].step = "idle"
    BY DEF Initialize, ScanEnds, MatchSerials, Destroy, ScanResult, SkipDevice, MapInv, Idle, map, wire
  <1>2. /\ claimed' \subseteq claimed
        /\ sticky' = sticky \/ claimed' = {}
    <2>1. CASE Initialize
      BY <2>1 DEF Initialize, MapInv, map
    <2>2. CASE Destroy
      BY <2>2 DEF Destroy, Released, MapInv, ClaimedIsAccounted
    <2>3. CASE MatchSerials
      BY <2>3 DEF MatchSerials, Match, ClaimedIsAccounted
    <2>4. CASE ScanEnds \/ ScanResult \/ \E d \in Devices : SkipDevice(d)
      BY <2>4 DEF ScanEnds, ScanResult, Identified, SkipDevice, map
    <2> QED BY <2>1, <2>2, <2>3, <2>4
  <1>3. WireInv'
    BY <1>1, <1>2 DEF AnswersInv, WireInv, Quiet
  <1> QED BY <1>1, <1>3 DEF AnswersInv, StickyInv, Idle

LEMMA NextKeepsAnswers ==
  ASSUME TypeOK, MapInv, ClaimedIsAccounted, OneAtATime, AnswersInv, [Next]_vars
  PROVE  AnswersInv'
  <1>1. CASE \/ Initialize \/ ScanEnds \/ MatchSerials \/ Destroy \/ ScanResult
             \/ \E d \in Devices : SkipDevice(d)
    BY <1>1, SessionKeepsAnswers
  <1>2. CASE \E d \in Devices : ScanDevice(d) \/ Answer(d)
    BY <1>2, ScanKeepsAnswers, AnswerKeepsAnswers
  <1>3. CASE \E c \in Clients, d \in Configured, e \in {"float", "call"} : Request(c, d, e)
    BY <1>3, RequestKeepsAnswers
  <1>4. CASE \E c \in Clients :
               \/ Send(c)
               \/ Receive(c)
               \/ \E s \in Statuses : ReceiveFails(c, s) \/ \E r \in BOOLEAN : SendFails(c, s, r)
    BY <1>4, SendKeepsAnswers, ReceiveKeepsAnswers, FailureKeepsAnswers
  <1>5. CASE UNCHANGED vars
    BY <1>5 DEF vars, map, wire, AnswersInv, StickyInv, Idle, WireInv, Quiet, Pending, Asked
  <1> QED BY <1>1, <1>2, <1>3, <1>4, <1>5 DEF Next

\* The step that takes the answer to another request takes it from a device that is left over.
LEMMA TakesOwnAnswer ==
  ASSUME TypeOK, MapInv, ClaimedIsAccounted, OneAtATime, AnswersInv, [Next]_vars,
         NEW c \in Clients, answer'[c] = "other", answer[c] # "other"
  PROVE  op[c].device \in left_over
  <1>1. ~(\/ Initialize \/ ScanEnds \/ MatchSerials \/ Destroy \/ ScanResult
          \/ \E d \in Devices : SkipDevice(d) \/ Answer(d)
          \/ UNCHANGED vars)
    BY DEF Initialize, ScanEnds, MatchSerials, Destroy, ScanResult, SkipDevice, Answer, vars
  <1>2. \A d \in Devices : ~ScanDevice(d)
    BY ConfigurerIsClient DEF ScanDevice, Finish, TypeOK
  <1>3. \A x \in Clients, d \in Configured, e \in {"float", "call"} : ~Request(x, d, e)
    BY DEF Request, Start, Finish, TypeOK
  <1>4. \A x \in Clients : /\ ~Send(x)
                          /\ \A s \in Statuses : /\ ~ReceiveFails(x, s)
                                                 /\ \A r \in BOOLEAN : ~SendFails(x, s, r)
    BY DEF Send, ReceiveFails, SendFails, Finish, TypeOK
  <1>5. PICK x \in Clients : Receive(x)
    BY <1>1, <1>2, <1>3, <1>4 DEF Next
  <1>6. x = c
    BY <1>5 DEF Receive, Finish, TypeOK
  <1>7. ~Finish(c, "own")
    BY DEF Finish, TypeOK
  <1> QED BY <1>5, <1>6, <1>7, ReceivesOwn

\* No operation takes the answer to another request, for any number of devices and threads and
\* any failures, if the threads exclude each other, but for a device that has something left to
\* say to an operation that was given up.
THEOREM AnswersHold == Spec /\ []OneAtATime => AnswersOwnRequest
  <1>1. Init => AnswersInv
    BY DEF Init, NoOp, AnswersInv, StickyInv, Idle, WireInv
  <1>2. TypeOK /\ MapInv /\ ClaimedIsAccounted /\ OneAtATime /\ AnswersInv /\ [Next]_vars
          => AnswersInv'
    BY NextKeepsAnswers
  <1>3. ASSUME TypeOK, MapInv, ClaimedIsAccounted, OneAtATime, AnswersInv, [Next]_vars
        PROVE  [\A c \in Clients : answer'[c] = "other" /\ answer[c] # "other"
                                     => op[c].device \in left_over]_vars
    BY <1>3, TakesOwnAnswer
  <1> QED BY <1>1, <1>2, <1>3, SessionInvariant, PTL DEF Spec, AnswersOwnRequest

\* The same of a transport that only one thread uses: whatever fails.
THEOREM LoneAnswersHold ==
  ASSUME \A c1, c2 \in Clients : c1 = c2
  PROVE  Spec => AnswersOwnRequest
  <1>1. OneAtATime
    BY DEF OneAtATime
  <1> QED BY <1>1, AnswersHold, PTL
=============================================================================
