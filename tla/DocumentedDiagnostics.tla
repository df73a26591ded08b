------------------------- MODULE DocumentedDiagnostics -------------------------
(***************************************************************************)
(* What the documentation and the comments say about the diagnostics and   *)
(* the log, stated of their model.  Each is refuted by a run of its own.   *)
(***************************************************************************)
EXTENDS Diagnostics

\* docs/error-reference.md:249: the status level is ERROR when a joint is unhealthy. The one
\* joint of an active component that has lost its transport is; the status of its drive must
\* come to say so while the control loop goes on.
SyncLossIsPublished ==
    ~enable_async_io /\ lifecycle = "active" /\ transport # "ok" ~>
        status.drive = "ERROR" \/ transport = "ok" \/ lifecycle # "active"

\* The log of a loss (HW:759) says "deactivate+activate to reconnect": what is logged as a
\* recovery comes with an activation.
RecoveredMeansActivated ==
    [][log = "offline" /\ log' = "online" => lifecycle' # lifecycle]_vars

\* docs/error-reference.md:249, of the status of the joint itself.
JointStatusCoversItsTelemetry ==
    loop \notin Tasks => (status.io_fault => JointLevel(status) = "ERROR")
=============================================================================
