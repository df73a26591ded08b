------------------------------ MODULE ErrorProofs ------------------------------
(***************************************************************************)
(* Proof that the error interfaces of an axis show what the log said last, *)
(* but for what a claim just read, for every set of registers and bits.    *)
(***************************************************************************)
EXTENDS ErrorMonitoring, TLAPS

\* The registers hold sets of bits, which not-a-number is none of.
Types ==
    /\ register \in [Register -> Value]
    /\ error \in [Register -> Value \cup {NaN}]
    /\ last \in [Register -> Value]
    /\ claimed \in BOOLEAN

\* The types hold initially.
LEMMA TypesInit == Init => Types
  <1> SUFFICES ASSUME Init PROVE Types
    OBVIOUS
  <1>1. register \in [Register -> Value]
    BY DEF Init, Value
  <1>2. error \in [Register -> Value \cup {NaN}]
    BY DEF Init
  <1>3. last \in [Register -> Value] /\ claimed \in BOOLEAN
    BY DEF Init, Value
  <1>4. QED
    BY <1>1, <1>2, <1>3 DEF Types

\* No step of the drive or of the component leaves the types.
LEMMA TypesNext == Types /\ [Next]_vars => Types'
  <1> SUFFICES ASSUME Types, [Next]_vars PROVE Types'
    OBVIOUS
  <1>1. CASE Accept
    BY <1>1 DEF Types, Accept, Changed
  <1>2. CASE DriveClears
    BY <1>2 DEF Types, DriveClears, Value
  <1>3. CASE ResetRuntimeState
    BY <1>3 DEF Types, ResetRuntimeState, Value
  <1>4. ASSUME NEW r \in Register, NEW b \in Bits, DriveLatches(r, b) PROVE Types'
    <2>1. register[r] \cup {b} \in Value
      BY DEF Types, Value
    <2>2. QED
      BY <1>4, <2>1 DEF Types, DriveLatches
  <1>5. CASE UNCHANGED vars
    BY <1>5 DEF Types, vars
  <1>6. CASE ClaimReads \/ ClaimClears
    BY <1>6, ErrorsAssumption DEF Types, ClaimReads, ClaimClears, Value
  <1>7. QED
    BY <1>1, <1>2, <1>3, <1>4, <1>5, <1>6 DEF Next

\* An accepted sample: a register that is shown with an error was logged before with this value
\* or is logged now. What was last logged of a register that is zero stays, which is harmless
\* because zero is not an error.
LEMMA AcceptShows == Types /\ Accept => ShownErrorIsLogged'
  <1> SUFFICES ASSUME Types, Accept, NEW r \in Register, error'[r] \notin {NaN, {}}
               PROVE last'[r] = error'[r]
    BY DEF ShownErrorIsLogged
  <1>1. error'[r] = register[r]
    BY DEF Accept
  <1>2. extract_error_value(register[r])
    BY <1>1 DEF extract_error_value
  <1>3. last'[r] = IF r \in Changed THEN register[r] ELSE last[r]
    BY DEF Accept
  <1>4. CASE r \in Changed
    BY <1>1, <1>3, <1>4
  <1>5. CASE r \notin Changed
    BY <1>1, <1>2, <1>3, <1>5 DEF Changed
  <1>6. QED
    BY <1>4, <1>5

\* A claim touches what is shown of one register only, which it remembers.
LEMMA ClaimShows == Types /\ ShownErrorIsLogged /\ (ClaimReads \/ ClaimClears) => ShownErrorIsLogged'
  <1> SUFFICES ASSUME Types, ShownErrorIsLogged, ClaimReads \/ ClaimClears,
                      NEW r \in Register, r # AxisError, error'[r] \notin {NaN, {}}
               PROVE  last'[r] = error'[r]
    BY DEF ShownErrorIsLogged, ClaimReads, ClaimClears
  <1>1. error'[r] = error[r] /\ last' = last
    BY DEF ClaimReads, ClaimClears, Types
  <1>2. QED
    BY <1>1 DEF ShownErrorIsLogged

\* Every other step keeps what is shown and what was logged, or forgets both.
LEMMA ShownNext == Types /\ ShownErrorIsLogged /\ [Next]_vars => ShownErrorIsLogged'
  <1> SUFFICES ASSUME Types, ShownErrorIsLogged, [Next]_vars PROVE ShownErrorIsLogged'
    OBVIOUS
  <1>1. CASE Accept
    BY <1>1, AcceptShows
  <1>2. CASE ResetRuntimeState
    BY <1>2 DEF ShownErrorIsLogged, ResetRuntimeState
  <1>3. CASE UNCHANGED <<error, last, claimed>>
    BY <1>3 DEF ShownErrorIsLogged
  <1>4. CASE ClaimReads \/ ClaimClears
    BY <1>4, ClaimShows
  <1>5. QED
    BY <1>1, <1>2, <1>3, <1>4 DEF Next, vars, DriveClears, DriveLatches

\* The error interfaces show only errors the log has said last of their register, except for
\* the axis error a claim has read since the last sample.
THEOREM ErrorsAreLogged == Spec => []ShownErrorIsLogged
  <1>1. Init => ShownErrorIsLogged
    BY DEF Init, ShownErrorIsLogged
  <1>2. QED
    BY <1>1, TypesInit, TypesNext, ShownNext, PTL DEF Spec
=============================================================================
