---------------------------- MODULE DocumentedAsync ----------------------------
(***************************************************************************)
(* What the documentation and the comments say, stated of the model of the *)
(* asynchronous I/O.  Each is refuted by a run of its own.                 *)
(***************************************************************************)
EXTENDS AsyncIo

\* README.md:214: "healthy" is reset at the beginning of each read(), "so it cannot
\* remain stale/latched": without a transport nothing is read, and no joint stays
\* healthy for ever while read() goes on.
HealthyIsNotLatched ==
    \A j \in Joint : <>[](transport = "null" /\ Running) => []<>~healthy[j]

\* odrive_hardware_interface.hpp:127: "A joint's setpoints (and watchdog feed) are
\* only written when its command sequence changes since the last successful write".
SequenceChangesBetweenWrites ==
    [][gate_stale_commands =>
         \A j \in Joint : WorkerCommand(j, "ok") => command.seq[j] # written[j]]_vars
=============================================================================
