------------------------ MODULE MemoryRegistryProofs ------------------------
(***************************************************************************)
(* Who is listed in the memory registry, and for how long after its end,   *)
(* for any number of services and processes and any TTL: the proofs.       *)
(***************************************************************************)
EXTENDS MemoryRegistry, FiniteDescent, FiniteSetTheorems, TLAPS

\* Expiration and the chain of reports count the same seconds, which is why
\* each conjunct needs the others.
RegistryInv ==
    /\ TypeOK
    /\ TimelyIsListed
    /\ ExpiredOnlyWhileQuiet
    /\ LateIsUnlisted

USE DEF RegistryInv, TypeOK, TimelyIsListed, ExpiredOnlyWhileQuiet, LateIsUnlisted

LEMMA InitRegistry == Init => RegistryInv
  BY RegistryAssumption DEF Init, Nothing

LEMMA RegisterStep ==
    ASSUME RegistryInv, NEW i \in Instances, Register(i)
    PROVE  RegistryInv'
  <1>1. CASE i \in listed
    BY <1>1, RegistryAssumption DEF Register, Nothing
  <1>2. CASE i \notin listed
    BY <1>2, RegistryAssumption DEF Register, Nothing
  <1>. QED BY <1>1, <1>2

LEMMA EndStep ==
    ASSUME RegistryInv, NEW i \in Instances, Deregister(i) \/ EndsSilently(i)
    PROVE  RegistryInv'
  <1>1. CASE Deregister(i)
    BY <1>1, RegistryAssumption DEF Deregister, Ends, Nothing
  <1>2. CASE EndsSilently(i)
    BY <1>2, RegistryAssumption DEF EndsSilently, Ends, Nothing, registry
  <1>. QED BY <1>1, <1>2

LEMMA ReportStep ==
    ASSUME RegistryInv, NEW i \in Instances, ReportHealthyState(i)
    PROVE  RegistryInv'
  <1>. USE RegistryAssumption DEF ReportHealthyState, Reports, Renewed, Unexpired, Nothing
  <1>1. TypeOK'
    OBVIOUS
  <1>2. TimelyIsListed'
    OBVIOUS
  <1>3. ExpiredOnlyWhileQuiet'
    OBVIOUS
  <1>4. LateIsUnlisted'
    OBVIOUS
  <1>. QED BY <1>1, <1>2, <1>3, <1>4

LEMMA TickStep ==
    ASSUME RegistryInv, Tick
    PROVE  RegistryInv'
  <1>. USE RegistryAssumption DEF Tick, Nothing
  <1>1. TypeOK'
    OBVIOUS
  <1>2. TimelyIsListed'
    OBVIOUS
  <1>3. ExpiredOnlyWhileQuiet'
    OBVIOUS
  <1>4. LateIsUnlisted'
    OBVIOUS
  <1>. QED BY <1>1, <1>2, <1>3, <1>4

LEMMA LookupStep ==
    ASSUME RegistryInv, NEW n \in Names,
           ServiceConnection(n) \/ ServiceConnection_DividesByZero(n)
    PROVE  RegistryInv'
  BY DEF ServiceConnection, ServiceConnection_DividesByZero, ServiceAddress, registry, notes

\* Types, punctual processes, age of stale entries and late processes, for
\* every value of the constants.
THEOREM RegistryInvariant == Spec => []RegistryInv
  <1>1. Init => RegistryInv
    BY InitRegistry
  <1>2. RegistryInv /\ [Next]_vars => RegistryInv'
    <2>. SUFFICES ASSUME RegistryInv, [Next]_vars
                  PROVE  RegistryInv'
      OBVIOUS
    <2>1. CASE \E i \in Instances : Register(i)
      BY <2>1, RegisterStep
    <2>2. CASE \E i \in Instances : Deregister(i) \/ EndsSilently(i)
      BY <2>2, EndStep
    <2>3. CASE \E i \in Instances : ReportHealthyState(i)
      BY <2>3, ReportStep
    <2>4. CASE Tick
      BY <2>4, TickStep
    <2>5. CASE \E n \in Names : ServiceConnection(n) \/ ServiceConnection_DividesByZero(n)
      BY <2>5, LookupStep
    <2>6. CASE UNCHANGED vars
      BY <2>6 DEF vars, registry, notes
    <2>. QED BY <2>1, <2>2, <2>3, <2>4, <2>5, <2>6 DEF Next
  <1>. QED BY <1>1, <1>2, PTL DEF Spec

\* A process that reports in time stays listed.
THEOREM PunctualStaysListed == Spec => []TimelyIsListed
  <1>1. RegistryInv => TimelyIsListed
    OBVIOUS
  <1>. QED BY <1>1, RegistryInvariant, PTL

\* A listed entry expired at most as long ago as the last report of anyone.
THEOREM StaleEntriesAreYoung == Spec => []ExpiredOnlyWhileQuiet
  <1>1. RegistryInv => ExpiredOnlyWhileQuiet
    OBVIOUS
  <1>. QED BY <1>1, RegistryInvariant, PTL

\* A process that reported too late is not listed until it registers again.
THEOREM LateStaysUnlisted == Spec => []LateIsUnlisted
  <1>1. RegistryInv => LateIsUnlisted
    OBVIOUS
  <1>. QED BY <1>1, RegistryInvariant, PTL

\* The state stays well typed.
THEOREM RegistryTyped == Spec => []TypeOK
  <1>1. RegistryInv => TypeOK
    OBVIOUS
  <1>. QED BY <1>1, RegistryInvariant, PTL

\* The modulus is zero only for a service without a punctual process.
THEOREM ZeroNeedsAbsence == Spec => CrashNeedsAbsence
  <1>1. RegistryInv /\ [Next]_vars =>
          [\A n \in Names : ServiceConnection_DividesByZero(n) =>
              \A i \in Instances : NameOf[i] = n => since[i] = TTL]_vars
    BY RegistryAssumption DEF ServiceConnection_DividesByZero, ServiceAddress
  <1>. QED BY <1>1, RegistryInvariant, PTL DEF Spec, CrashNeedsAbsence

-----------------------------------------------------------------------------
(* The dead are not listed for ever.                                       *)

\* The seconds that an entry has left.
SecondsLeft(i) == 1..left[i]

\* Tick changes something.
CanTick ==
    \/ quiet <= MaxQuiet
    \/ \E i \in Instances : since[i] < TTL \/ (i \in listed /\ left[i] > -MaxQuiet)
    \/ chosen # Nothing

\* Weak fairness of Tick.
TimePasses == []<>~CanTick \/ []<><<Tick>>_vars

Expired(i) == i \in listed => left[i] <= 0

\* What the steps do to the entry of a process that does not run.
LEMMA DeadStep ==
    ASSUME RegistryInv, NEW i \in Instances, i \notin up, i \notin up', [Next]_vars
    PROVE  /\ SecondsLeft(i)' \subseteq SecondsLeft(i)
           /\ <<Tick>>_vars /\ ~Expired(i) => ~(SecondsLeft(i)' = SecondsLeft(i))
           /\ Expired(i) => Expired(i)'
           /\ Expired(i) /\ ~(quiet = 0) /\ (quiet = 0)' => i \notin listed'
           /\ i \notin listed => i \notin listed'
  <1>. DEFINE Erases == /\ left'[i] = left[i] \/ left'[i] = 0
                        /\ i \in listed' => i \in listed
                        /\ Expired(i) /\ quiet' # quiet => i \notin listed'
  <1>. USE RegistryAssumption DEF SecondsLeft, Expired
  <1>1. ASSUME NEW j \in Instances, j # i, Register(j) \/ Deregister(j) \/ EndsSilently(j)
        PROVE  UNCHANGED <<left[i], quiet>> /\ (i \in listed' <=> i \in listed)
    BY <1>1 DEF Register, Deregister, EndsSilently, Ends, registry
  <1>2. ASSUME NEW j \in Instances, j # i, ReportHealthyState(j)
        PROVE  /\ i \in listed' <=> i \in listed /\ left[i] > 0
               /\ left'[i] = left[i] \/ left'[i] = 0
    BY <1>2 DEF ReportHealthyState, Renewed, Unexpired
  <1>3. CASE Tick
    <2>1. UNCHANGED listed /\ quiet' # 0
      BY <1>3 DEF Tick
    <2>2. left'[i] = left[i] \/ left'[i] = left[i] - 1
      BY <1>3 DEF Tick
    <2>3. ~Expired(i) => left[i] > 0 /\ left'[i] = left[i] - 1
      BY <1>3 DEF Tick
    <2>. QED BY <2>1, <2>2, <2>3
  <1>4. ASSUME NEW n \in Names, ServiceConnection(n) \/ ServiceConnection_DividesByZero(n)
        PROVE  Erases
    BY <1>4 DEF ServiceConnection, ServiceConnection_DividesByZero, registry, notes
  <1>5. UNCHANGED vars => Erases
    BY DEF vars, registry, notes
  <1>6. ASSUME NEW j \in Instances,
               Register(j) \/ Deregister(j) \/ EndsSilently(j) \/ ReportHealthyState(j)
        PROVE  j # i
    BY <1>6 DEF Register, Deregister, EndsSilently, Ends, ReportHealthyState, Reports
  <1>7. ASSUME NEW j \in Instances,
               \/ Register(j) \/ Deregister(j) \/ EndsSilently(j) \/ ReportHealthyState(j)
        PROVE  Erases
    BY <1>1, <1>2, <1>6, <1>7
  <1>8. CASE ~Tick
    <2> HIDE DEF Erases
    <2>1. Erases
      BY <1>4, <1>5, <1>7, <1>8 DEF Next
    <2> USE DEF Erases
    <2>2. left[i] \in Int /\ left'[i] \in Int
      BY <2>1
    <2>. QED BY <1>8, <2>1, <2>2
  <1>. QED BY <1>3, <1>8

LEMMA QuietStep ==
    ASSUME RegistryInv, [Next]_vars
    PROVE  /\ quiet = 0 => (quiet = 0)' \/ <<Tick>>_vars
           /\ <<Tick>>_vars => ~(quiet = 0)'
           /\ quiet = 0 => CanTick
  <1>1. ASSUME NEW j \in Instances,
               Register(j) \/ Deregister(j) \/ EndsSilently(j) \/ ReportHealthyState(j)
        PROVE  quiet' \in {quiet, 0}
    BY <1>1 DEF Register, Deregister, EndsSilently, Ends, ReportHealthyState, Reports
  <1>2. ASSUME NEW n \in Names, ServiceConnection(n) \/ ServiceConnection_DividesByZero(n)
        PROVE  UNCHANGED quiet
    BY <1>2 DEF ServiceConnection, ServiceConnection_DividesByZero, notes
  <1>3. Tick => quiet' # 0
    BY RegistryAssumption DEF Tick
  <1>4. UNCHANGED vars => quiet' = quiet
    BY DEF vars, notes
  <1>5. quiet = 0 => CanTick
    BY RegistryAssumption DEF CanTick
  <1>6. CASE ~Tick
    BY <1>1, <1>2, <1>4, <1>5, <1>6 DEF Next
  <1>7. CASE Tick
    <2>1. <<Tick>>_vars \/ quiet' = quiet
      BY <1>4, <1>7
    <2>. QED BY <1>3, <1>5, <1>7, <2>1
  <1>. QED BY <1>6, <1>7

LEMMA DeadExpires ==
    ASSUME NEW i \in Instances
    PROVE  Spec /\ TimePasses /\ ComesToRest(SecondsLeft(i), vars) =>
              ([]<>(quiet = 0) /\ <>[](i \notin up) => <>[](i \notin listed))
  <1>1. RegistryInv => IsFiniteSet(SecondsLeft(i))
    BY FS_Interval, RegistryAssumption DEF SecondsLeft
  <1>2. RegistryInv /\ i \notin up /\ (i \notin up)' /\ [Next]_vars =>
           [SecondsLeft(i)' \subseteq SecondsLeft(i)]_vars
    BY DeadStep
  <1>3. RegistryInv /\ i \notin up /\ (i \notin up)' /\ ~Expired(i) /\ [Next]_vars
           /\ <<Tick>>_vars => ~[SecondsLeft(i)' = SecondsLeft(i)]_vars
    BY DeadStep
  <1>4. RegistryInv /\ i \notin up /\ (i \notin up)' /\ [Next]_vars =>
           /\ Expired(i) => Expired(i)'
           /\ Expired(i) /\ ~(quiet = 0) /\ (quiet = 0)' => (i \notin listed)'
           /\ i \notin listed => (i \notin listed)'
    BY DeadStep
  <1>5. RegistryInv /\ [Next]_vars =>
           /\ quiet = 0 => (quiet = 0)' \/ <<Tick>>_vars
           /\ <<Tick>>_vars => ~(quiet = 0)'
           /\ quiet = 0 => CanTick
    BY QuietStep
  <1>. QED
    BY <1>1, <1>2, <1>3, <1>4, <1>5, RegistryInvariant, PTL
    DEF Spec, TimePasses, ComesToRest

\* A process that has ended for good does not stay listed, if time passes and
\* any process goes on reporting: every report erases what has expired.
THEOREM DeadAreUnlisted ==
    Spec /\ TimePasses /\ (\A i \in Instances : ComesToRest(SecondsLeft(i), vars))
        => DeadIsUnlisted
  BY DeadExpires DEF DeadIsUnlisted

=============================================================================
