------------------------------ MODULE ODriveUsb ------------------------------
(***************************************************************************)
(* ODriveUSB, the transport: initialize() looks for the configured devices *)
(* and keeps the claimed ones in odrive_map_, endpointOperation() sends a  *)
(* request packet and takes the next packet of the device for its answer.  *)
(* The object has no lock. A response carries the sequence number of its   *)
(* request, but decodePacket() drops it unread, so the model keeps it as a *)
(* ghost: the owner of a request is the client that waits for the answer.  *)
(*                                                                         *)
(* A time-out or a lost device sets sticky_error_, which ends the session: *)
(* the owner of the transport resets it and builds a new one. The device   *)
(* outlives the session. Any other failure ends the operation alone, and   *)
(* what the device says to it then is taken by whoever asks next.          *)
(***************************************************************************)
EXTENDS Naturals, Sequences, FiniteSets

CONSTANTS
    Devices,         \* serial numbers of the ODrives on the bus
    Configured,      \* serial numbers the hardware parameters name
    Clients,         \* threads that use the transport
    Statuses,        \* how a bulk transfer can fail: "io", "timeout", "gone"
    DeviceForgets,   \* claiming the interface clears what the device still had to say
    MaxFailures      \* bound on transfers that fail in one behaviour

Nobody == "nobody"

\* Bytes of payload a response carries (ODRIVE_MAX_PACKET_SIZE is not reached).
Size == [serial |-> 8, float |-> 4, call |-> 0]
Endpoints == DOMAIN Size

ASSUME UsbAssumption ==
    /\ IsFiniteSet(Devices) /\ Configured # {} /\ Clients # {}
    /\ Nobody \notin Clients \cup Devices
    /\ Statuses \subseteq {"io", "timeout", "gone"}
    /\ DeviceForgets \in BOOLEAN /\ MaxFailures \in Nat

VARIABLES
    session,    \* "none", "scan", "match", "ready", "failed": what initialize() returned
    scanned,    \* devices of the list the scan has passed
    scanning,   \* the device whose serial number is being read, Nobody if none
    claimed,    \* devices whose interface 2 is claimed
    found,      \* keys -serial of odrive_map_
    selected,   \* keys serial of odrive_map_
    sticky,     \* sticky_error_ is set
    op,         \* per client: the operation it is in
    answer,     \* per client: what its last operation returned
    requests,   \* per device: packets it has not handled yet
    responses,  \* per device: packets the host has not taken yet
    left_over,  \* history: devices that still had to say something to an operation that was
                \* given up, when the session went on or claimed them anew
    failures

map == <<scanned, scanning, claimed, found, selected>>
wire == <<requests, responses, left_over>>
vars == <<session, map, sticky, op, answer, wire, failures>>

NoOp == [step |-> "idle", device |-> Nobody, endpoint |-> "call"]

\* The packets of c that nobody waits for any more.
Orphaned(packets, c) ==
    [i \in DOMAIN packets |->
        IF packets[i].owner = c THEN [packets[i] EXCEPT !.owner = Nobody] ELSE packets[i]]

Init ==
    /\ session = "none"
    /\ scanned = {} /\ scanning = Nobody /\ claimed = {} /\ found = {} /\ selected = {}
    /\ sticky = FALSE
    /\ op = [c \in Clients |-> NoOp]
    /\ answer = [c \in Clients |-> "none"]
    /\ requests = [d \in Devices |-> <<>>] /\ responses = [d \in Devices |-> <<>>]
    /\ left_over = {} /\ failures = 0

-----------------------------------------------------------------------------
(* endpointOperation() *)

\* The operation ends: the client has its answer, what it left behind has no owner.
Finish(c, result) ==
    /\ answer' = [answer EXCEPT ![c] = result]
    /\ op' = [op EXCEPT ![c] = NoOp]

Abandon(c) == [d \in Devices |-> Orphaned(requests[d], c)]

\* The operation is given up and the session goes on.
LeavesOver(d, status) == left_over' = IF status = "io" THEN left_over \cup {d} ELSE left_over

\* Mutant: only a lost device ends the session, not a time-out.
Fails_TimeoutForgotten(status) ==
    /\ failures < MaxFailures /\ failures' = failures + 1
    /\ sticky' = (sticky \/ status = "gone")

Fails(status) ==
    /\ failures < MaxFailures /\ failures' = failures + 1
    /\ sticky' = (sticky \/ status \in {"timeout", "gone"})

\* Everything before the first transfer: the sticky error ends the operation here.
Start(c, d, e) ==
    /\ op[c].step = "idle"
    /\ IF sticky
       THEN Finish(c, "failed")
       ELSE /\ op' = [op EXCEPT ![c] = [step |-> "send", device |-> d, endpoint |-> e]]
            /\ answer' = [answer EXCEPT ![c] = "none"]
    /\ UNCHANGED <<sticky, wire, failures>>

Send(c) ==
    LET d == op[c].device
        packet == [endpoint |-> op[c].endpoint, owner |-> c]
    IN  /\ op[c].step = "send"
        /\ requests' = [requests EXCEPT ![d] = Append(@, packet)]
        /\ op' = [op EXCEPT ![c].step = "receive"]
        /\ UNCHANGED <<session, map, sticky, answer, responses, left_over, failures>>

\* The OUT transfer fails; a packet that did reach the device is answered to nobody.
SendFails(c, status, reached) ==
    LET d == op[c].device
        packet == [endpoint |-> op[c].endpoint, owner |-> Nobody]
    IN  /\ op[c].step = "send"
        /\ Fails(status)
        /\ requests' = IF reached THEN [requests EXCEPT ![d] = Append(@, packet)] ELSE requests
        /\ IF reached THEN LeavesOver(d, status) ELSE UNCHANGED left_over
        /\ Finish(c, "failed")
        /\ UNCHANGED <<session, map, responses>>

\* The IN transfer delivers the next packet of the device, whoever asked for it: enough
\* bytes are an answer, fewer are LIBUSB_ERROR_IO without a sticky error.
Receive(c) ==
    LET d == op[c].device
        packet == Head(responses[d])
    IN  /\ op[c].step = "receive"
        /\ responses[d] # <<>>
        /\ responses' = [x \in Devices |->
                Orphaned(IF x = d THEN Tail(responses[x]) ELSE responses[x], c)]
        /\ requests' = Abandon(c)
        /\ Finish(c, IF Size[packet.endpoint] < Size[op[c].endpoint] THEN "failed"
                     ELSE IF packet.owner = c THEN "own" ELSE "other")
        /\ UNCHANGED <<session, map, sticky, left_over, failures>>

ReceiveFails(c, status) ==
    /\ op[c].step = "receive"
    /\ Fails(status)
    /\ requests' = Abandon(c)
    /\ responses' = [d \in Devices |-> Orphaned(responses[d], c)]
    /\ LeavesOver(op[c].device, status)
    /\ Finish(c, "failed")
    /\ UNCHANGED <<session, map>>

\* The device handles its requests in the order they arrive.
Answer(d) ==
    /\ requests[d] # <<>>
    /\ requests' = [requests EXCEPT ![d] = Tail(@)]
    /\ responses' = [responses EXCEPT ![d] = Append(@, Head(requests[d]))]
    /\ UNCHANGED <<session, map, sticky, op, answer, left_over, failures>>

\* read(), write() and call(): an unknown serial number is LIBUSB_ERROR_NO_DEVICE.
Request(c, serial, e) ==
    /\ session = "ready"
    /\ IF serial \in selected
       THEN Start(c, serial, e)
       ELSE /\ op[c].step = "idle" /\ Finish(c, "failed")
            /\ UNCHANGED <<sticky, wire, failures>>
    /\ UNCHANGED <<session, map>>

-----------------------------------------------------------------------------
(* initialize() *)

Idle == \A c \in Clients : op[c].step = "idle"

Initialize ==
    /\ session = "none" /\ Idle
    /\ session' = "scan"
    /\ sticky' = FALSE
    /\ UNCHANGED <<map, op, answer, wire, failures>>

\* initialize() runs in one thread.
Configurer == CHOOSE c \in Clients : TRUE

\* The next device of the list is opened and claimed, and its serial number asked for.
ScanDevice(d) ==
    /\ session = "scan" /\ scanning = Nobody /\ d \notin scanned
    /\ scanned' = scanned \cup {d} /\ scanning' = d
    /\ claimed' = claimed \cup {d}
    /\ IF DeviceForgets
       THEN /\ requests' = [requests EXCEPT ![d] = <<>>]
            /\ responses' = [responses EXCEPT ![d] = <<>>]
       ELSE UNCHANGED <<requests, responses>>
    /\ left_over' = IF requests'[d] = <<>> /\ responses'[d] = <<>>
                    THEN left_over \ {d} ELSE left_over \cup {d}
    /\ op[Configurer].step = "idle"
    /\ IF sticky
       THEN Finish(Configurer, "failed")
       ELSE /\ op' = [op EXCEPT ![Configurer] = [step |-> "send", device |-> d, endpoint |-> "serial"]]
            /\ answer' = [answer EXCEPT ![Configurer] = "none"]
    /\ UNCHANGED <<session, found, selected, sticky, failures>>

\* It cannot be opened, detached or claimed; a handle that was opened is closed again.
SkipDevice(d) ==
    /\ session = "scan" /\ scanning = Nobody /\ d \notin scanned
    /\ scanned' = scanned \cup {d}
    /\ UNCHANGED <<session, scanning, claimed, found, selected, sticky, op, answer, wire, failures>>

\* Mutant: a device whose serial number cannot be read is left claimed.
Identified_Leaks ==
    /\ found' = IF answer[Configurer] = "failed" THEN found ELSE found \cup {scanning}
    /\ UNCHANGED claimed

\* The read has returned: the device goes into the map, or is released and closed.
Identified ==
    IF answer[Configurer] = "failed"
    THEN claimed' = claimed \ {scanning} /\ UNCHANGED found
    ELSE found' = found \cup {scanning} /\ UNCHANGED claimed

ScanResult ==
    /\ session = "scan" /\ scanning # Nobody /\ Idle
    /\ scanning' = Nobody
    /\ Identified
    /\ UNCHANGED <<session, scanned, selected, sticky, op, answer, wire, failures>>

ScanEnds ==
    /\ session = "scan" /\ scanning = Nobody /\ scanned = Devices
    /\ session' = IF found = {} THEN "failed" ELSE "match"
    /\ UNCHANGED <<map, sticky, op, answer, wire, failures>>

\* Mutant: devices that are not configured are kept.
Match_KeepsAll ==
    IF Cardinality(found) = 1 \/ Configured \subseteq found
    THEN /\ selected' = IF Cardinality(found) = 1 THEN found ELSE Configured
         /\ found' = found \ selected' /\ UNCHANGED claimed
         /\ session' = "ready"
    ELSE session' = "failed" /\ UNCHANGED <<claimed, found, selected>>

\* The only device is taken whatever its serial number; of several, the configured ones
\* are taken and the others released, or initialize() gives up and leaves the map.
Match ==
    IF Cardinality(found) = 1 \/ Configured \subseteq found
    THEN /\ selected' = IF Cardinality(found) = 1 THEN found ELSE Configured
         /\ claimed' = selected' /\ found' = {}
         /\ session' = "ready"
    ELSE session' = "failed" /\ UNCHANGED <<claimed, found, selected>>

MatchSerials ==
    /\ session = "match"
    /\ Match
    /\ UNCHANGED <<scanned, scanning, sticky, op, answer, wire, failures>>

\* What stays claimed after the destructor has closed every handle of the map.
Released == claimed \ (found \cup selected)

Destroy ==
    /\ session \in {"ready", "failed"} /\ Idle
    /\ session' = "none"
    /\ claimed' = Released
    /\ scanned' = {} /\ found' = {} /\ selected' = {}
    /\ sticky' = FALSE
    /\ UNCHANGED <<scanning, op, answer, wire, failures>>

-----------------------------------------------------------------------------

Next ==
    \/ Initialize
    \/ ScanEnds
    \/ MatchSerials
    \/ Destroy
    \/ ScanResult
    \/ \E d \in Devices : ScanDevice(d) \/ SkipDevice(d) \/ Answer(d)
    \/ \E c \in Clients :
        \/ \E d \in Configured, e \in {"float", "call"} : Request(c, d, e)
        \/ Send(c)
        \/ Receive(c)
        \/ \E s \in Statuses : ReceiveFails(c, s) \/ \E r \in BOOLEAN : SendFails(c, s, r)

Spec == Init /\ [][Next]_vars

-----------------------------------------------------------------------------
(* Properties *)

Steps == {"idle", "send", "receive"}
Packet == [endpoint : Endpoints, owner : Clients \cup {Nobody}]

\* Every variable holds a value of its type.
TypeOK ==
    /\ session \in {"none", "scan", "match", "ready", "failed"}
    /\ scanning \in Devices \cup {Nobody}
    /\ scanned \subseteq Devices /\ claimed \subseteq Devices
    /\ found \subseteq Devices /\ selected \subseteq Devices
    /\ sticky \in BOOLEAN
    /\ op \in [Clients -> [step : Steps, device : Devices \cup {Nobody}, endpoint : Endpoints]]
    /\ answer \in [Clients -> {"none", "own", "other", "failed"}]
    /\ requests \in [Devices -> Seq(Packet)] /\ responses \in [Devices -> Seq(Packet)]
    /\ left_over \subseteq Devices /\ failures \in 0..MaxFailures

\* An operation takes the answer to another request for its own, although nothing compares the
\* sequence numbers, only from a device that an operation was given up on by an error that does
\* not stick, or that was claimed with packets of the session before: after a time-out or a lost
\* device endpointOperation() sends nothing any more, to no device.
AnswersOwnRequest ==
    [][\A c \in Clients :
        answer'[c] = "other" /\ answer[c] # "other" => op[c].device \in left_over]_vars

\* Every interface that is claimed is in the map, or is the one the scan is reading: what
\* initialize() gives up on is released, and the destructor releases the rest.
ClaimedIsAccounted == claimed = found \cup selected \cup ({scanning} \ {Nobody})

\* initialize() succeeds with exactly the configured devices claimed, or with the one device
\* it could read when there was only one: every other device is released for other users.
ReadyHasTheConfigured ==
    session = "ready" =>
        /\ claimed = selected
        /\ selected = Configured \/ Cardinality(selected) = 1

-----------------------------------------------------------------------------
(* A statement of the documentation that the code does not keep *)

\* odrive_transport.hpp: read() reads the endpoint it was given, and is thread-safe: no operation
\* takes the answer to another request for its own.
ReadReturnsWhatItAskedFor == \A c \in Clients : answer[c] # "other"
=============================================================================
