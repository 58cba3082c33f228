------------------------- MODULE ModLifecycleProofs -------------------------
(***************************************************************************)
(* The life of the mod, for any set of threads and objects, any counter    *)
(* and any number of lives.                                                *)
(***************************************************************************)
EXTENDS ModLifecycle, FiniteSetTheorems, TLAPS

\* What serves commands, by the place in on_unreal_init and the destructor.
ServingInv ==
    /\ step \in 0..16
    /\ m_engine_tick_callback \in BOOLEAN
    /\ ~ m_engine_tick_callback => "tick" \notin callbacks
    /\ m_engine_tick_callback /\ step \in 4..10 => "tick" \in callbacks
    /\ step \in 0..3 => callbacks = {} /\ ~ m_engine_tick_callback
    /\ step = 16 => "tick" \notin callbacks
    /\ step \in 2..10 => Required \subseteq resolved
    /\ listener = "listening" =>
        /\ step \in 11..14 /\ Required \subseteq resolved
        /\ m_engine_tick_callback => "tick" \in callbacks

\* What an initialiser finds patched, and which flags are set.
PatchInv ==
    /\ step \in 0..16
    /\ supported \in BOOLEAN /\ failed \in BOOLEAN
    /\ ~ supported => patched = {} /\ "build_ok" \notin ready
    /\ step \in 0..5 => patched = {} /\ ready = {} /\ ~ failed
    /\ step \in 0..10 => listener = "none"
    /\ supported /\ ~ failed =>
        /\ step = 6 => patched = {"handler"} /\ ready = {"build_ok", "hook_ok"}
        /\ step = 7 => patched = {"handler"} /\ ready = {"build_ok", "hook_ok", "signatures_ok"}
        /\ step \in 8..9 => ready = Flags \ {"interface_hook_ok"}
        /\ step = 10 \/ (step = 11 /\ listener = "listening") => ready = Flags

\* The nested calls are captured for a dispatch or for the client.
NestedInv ==
    /\ m_capturing_calls \in BOOLEAN /\ dispatching \in BOOLEAN /\ manual \in BOOLEAN
    /\ m_capturing_calls => dispatching \/ manual
    /\ NestedLogQuiet

\* Until the counter wraps it counts the lookups since the start, and what was
\* granted before the start is at most a line for each thread.
CountInv ==
    /\ g_registration_log_count \in Nat /\ lookups \in Nat /\ lines \in Nat
    /\ writing \subseteq Threads
    /\ g_capturing_registration_calls /\ lookups < Modulus =>
        g_registration_log_count = lookups
    /\ g_capturing_registration_calls /\ lookups = Modulus =>
        g_registration_log_count = 0
    /\ lookups <= Modulus =>
        /\ lines + Cardinality(writing) <= Cardinality(Threads) + Limit
        /\ lookups <= Limit =>
            lines + Cardinality(writing) <= Cardinality(Threads) + lookups

-----------------------------------------------------------------------------

\* The number of each stage.
LEMMA StageNumbers ==
    ASSUME step \in 0..16
    PROVE  /\ At("resolve") <=> step = 1
           /\ At("configure") <=> step = 2
           /\ At("tick") <=> step = 3
           /\ At("process_event") <=> step = 4
           /\ At("trace") <=> step = 5
           /\ At("godmode") <=> step = 6
           /\ At("response") <=> step = 7
           /\ At("execute_hook") <=> step = 8
           /\ At("registration_hook") <=> step = 9
           /\ At("listen") <=> step = 10
           /\ At("up") <=> step = 11
           /\ At("response_shutdown") <=> step = 12
           /\ At("trace_shutdown") <=> step = 13
           /\ At("stop") <=> step = 14
           /\ At("unregister") <=> step = 15
           /\ At("destroyed") <=> step = 16
  <1>1. /\ Stages[1] = "resolve" /\ Stages[2] = "configure" /\ Stages[3] = "tick"
        /\ Stages[4] = "process_event" /\ Stages[5] = "trace" /\ Stages[6] = "godmode"
        /\ Stages[7] = "response" /\ Stages[8] = "execute_hook" /\ Stages[9] = "registration_hook"
        /\ Stages[10] = "listen" /\ Stages[11] = "up"
        /\ Stages[12] = "response_shutdown" /\ Stages[13] = "trace_shutdown"
        /\ Stages[14] = "stop" /\ Stages[15] = "unregister" /\ Stages[16] = "destroyed"
    BY DEF Stages
  <1>2. CASE step \in {0, 1, 2, 3, 4, 5}
    BY <1>1, <1>2 DEF At
  <1>3. CASE step \in {6, 7, 8, 9, 10}
    BY <1>1, <1>3 DEF At
  <1>4. CASE step \in {11, 12, 13, 14, 15, 16}
    BY <1>1, <1>4 DEF At
  <1> QED BY <1>2, <1>3, <1>4

\* on_unreal_init that gives up is over.
LEMMA GiveUpIsUp == GiveUp => step' = 11
  <1> SUFFICES ASSUME GiveUp PROVE step' = 11
    OBVIOUS
  <1>1. PICK up \in DOMAIN Stages : Stages[up] = "up" /\ step' = up
    BY DEF GiveUp
  <1>2. up \in 1..16
    BY DEF Stages
  <1> QED BY <1>1, <1>2 DEF Stages

-----------------------------------------------------------------------------

\* The listener is started behind the tick and the objects, and the destructor
\* takes them down in the other order.
LEMMA ServingStep == ServingInv /\ [LifecycleNext]_all => ServingInv'
  <1> SUFFICES ASSUME ServingInv, [LifecycleNext]_all PROVE ServingInv'
    OBVIOUS
  <1>0. step \in 0..16
    BY DEF ServingInv
  <1> USE DEF Advance, serving, loading
  <1>1. CASE Load
    BY <1>1 DEF ServingInv, Load
  <1>2. CASE Resolve
    BY <1>0, <1>2, StageNumbers, GiveUpIsUp DEF ServingInv, Resolve
  <1>3. CASE Configure
    BY <1>0, <1>3, StageNumbers, GiveUpIsUp DEF ServingInv, Configure
  <1>4. ASSUME NEW callback \in Callbacks, Register(callback)
        PROVE  ServingInv'
    <2>1. CASE callback = "tick"
      BY <1>0, <1>4, <2>1, StageNumbers DEF ServingInv, Register
    <2>2. CASE callback = "process_event"
      BY <1>0, <1>4, <2>2, StageNumbers DEF ServingInv, Register
    <2> QED BY <1>4, <2>1, <2>2 DEF Callbacks
  <1>5. CASE InitializeTrace \/ InitializeGodMode \/ InitializeResponse
             \/ InstallExecuteHook \/ InstallRegistrationHook
    BY <1>0, <1>5, StageNumbers
    DEF ServingInv, InitializeTrace, InitializeGodMode, InitializeResponse,
        InstallExecuteHook, InstallRegistrationHook
  <1>6. CASE Listen
    BY <1>0, <1>6, StageNumbers DEF ServingInv, Listen
  <1>7. CASE Uninstall
    BY <1>0, <1>7, StageNumbers DEF ServingInv, Uninstall
  <1>8. CASE \/ Unhook("response_shutdown", "hooked", "response")
             \/ Unhook("trace_shutdown", "hook_ok", "handler")
    BY <1>0, <1>8, StageNumbers DEF ServingInv, Unhook
  <1>9. CASE Stop
    BY <1>0, <1>9, StageNumbers DEF ServingInv, Stop
  <1>10. CASE Unregister
    <2>1. step = 15 /\ step' = 16
      BY <1>0, <1>10, StageNumbers DEF Unregister
    <2>2. "tick" \notin callbacks'
      <3>1. CASE m_engine_tick_callback
        BY <1>10, <3>1 DEF Unregister
      <3>2. CASE ~ m_engine_tick_callback
        BY <1>10, <3>2 DEF Unregister, ServingInv
      <3> QED BY <3>1, <3>2
    <2>3. listener # "listening"
      BY <2>1 DEF ServingInv
    <2>4. UNCHANGED <<resolved, m_engine_tick_callback, listener>>
      BY <1>10 DEF Unregister
    <2>5. m_engine_tick_callback \in BOOLEAN
      BY DEF ServingInv
    <2>6. /\ step' \in 0..16 /\ step' \notin 0..3
          /\ step' \notin 2..10 /\ step' \notin 4..10
      BY <2>1
    <2>7. listener' # "listening"
      BY <2>3, <2>4
    <2>8. m_engine_tick_callback' \in BOOLEAN
      BY <2>4, <2>5
    <2> QED BY <2>2, <2>6, <2>7, <2>8, Zenon DEF ServingInv
  <1>11. CASE Detach
    <2>1. m_engine_tick_callback' = FALSE
      BY <1>11, Zenon DEF Detach
    <2>2. callbacks' = {} /\ step' = 0 /\ listener' = "none"
      BY <1>11, Zenon DEF Detach
    <2>3. step' \in 0..16 /\ step' # 16 /\ step' \notin 2..10
      BY <2>2
    <2> QED BY <2>1, <2>2, <2>3, Zenon DEF ServingInv
  <1>12. CASE UNCHANGED lifecycle
    BY <1>12 DEF ServingInv, lifecycle
  <1>13. LifecycleNext => \/ Load \/ Resolve \/ Configure
                          \/ \E callback \in Callbacks : Register(callback)
                          \/ InitializeTrace \/ InitializeGodMode \/ InitializeResponse
                          \/ InstallExecuteHook \/ InstallRegistrationHook \/ Listen
                          \/ Uninstall
                          \/ Unhook("response_shutdown", "hooked", "response")
                          \/ Unhook("trace_shutdown", "hook_ok", "handler")
                          \/ Stop \/ Unregister \/ Detach
                          \/ UNCHANGED lifecycle
    BY DEF LifecycleNext, Command, Event, InterfaceLookup
  <1> QED BY <1>1, <1>2, <1>3, <1>4, <1>5, <1>6, <1>7, <1>8, <1>9, <1>10, <1>11, <1>12,
             <1>13 DEF all

\* A listener that takes commands has the objects they need and the tick that
\* runs them, unless that was turned down, in every life of the mod.
THEOREM ServedTheorem == LifecycleSpec => []ServedWhileListening
  <1>1. LifecycleInit => ServingInv
    <2>1. LifecycleInit => ~ m_engine_tick_callback /\ m_engine_tick_callback \in BOOLEAN
      BY Zenon DEF LifecycleInit
    <2> QED BY <2>1 DEF LifecycleInit, ServingInv
  <1>2. ServingInv => ServedWhileListening
    <2> SUFFICES ASSUME ServingInv PROVE ServedWhileListening
      OBVIOUS
    <2>1. At("destroyed") => step = 16
      BY StageNumbers DEF ServingInv
    <2> QED BY <2>1 DEF ServingInv, ServedWhileListening
  <1> QED BY <1>1, <1>2, ServingStep, PTL DEF LifecycleSpec

-----------------------------------------------------------------------------

\* No initialiser finds a function it checks patched by one before it.
LEMMA PatchStep == PatchInv /\ [LifecycleNext]_all => PatchInv'
  <1> SUFFICES ASSUME PatchInv, [LifecycleNext]_all PROVE PatchInv'
    OBVIOUS
  <1>0. step \in 0..16 /\ supported \in BOOLEAN /\ failed \in BOOLEAN
    BY DEF PatchInv
  <1> USE DEF Advance, patching, serving, loading, Flags
  <1>1. CASE Load
    BY <1>1 DEF PatchInv, Load
  <1>2. CASE Resolve
    <2>1. step = 1 /\ (step' = 2 \/ step' = 11)
      BY <1>0, <1>2, StageNumbers, GiveUpIsUp DEF Resolve
    <2>2. UNCHANGED <<supported, listener, patched, ready, failed>>
      BY <1>2 DEF Resolve, GiveUp
    <2> QED BY <2>1, <2>2 DEF PatchInv
  <1>3. CASE Configure
    <2>1. step = 2 /\ (step' = 3 \/ step' = 11)
      BY <1>0, <1>3, StageNumbers, GiveUpIsUp DEF Configure
    <2>2. UNCHANGED <<supported, listener, patched, ready, failed>>
      BY <1>3 DEF Configure, GiveUp
    <2> QED BY <2>1, <2>2 DEF PatchInv
  <1>4. ASSUME NEW callback \in Callbacks, Register(callback)
        PROVE  PatchInv'
    <2>1. step \in 3..4 /\ step' = step + 1
      BY <1>0, <1>4, StageNumbers DEF Register, Callbacks
    <2>2. UNCHANGED <<supported, listener, patched, ready, failed>>
      BY <1>4 DEF Register
    <2> QED BY <2>1, <2>2 DEF PatchInv
  <1>5. CASE InitializeTrace
    <2>1. step = 5 /\ step' = 6
      BY <1>0, <1>5, StageNumbers DEF InitializeTrace
    <2> QED BY <1>5, <2>1 DEF PatchInv, InitializeTrace, CheckAndPatch
  <1>6. CASE InitializeGodMode
    <2>1. step = 6 /\ step' = 7
      BY <1>0, <1>6, StageNumbers DEF InitializeGodMode
    <2> QED BY <1>6, <2>1 DEF PatchInv, InitializeGodMode
  <1>7. CASE InitializeResponse
    <2>1. step = 7 /\ step' = 8
      BY <1>0, <1>7, StageNumbers DEF InitializeResponse
    <2> QED BY <1>7, <2>1 DEF PatchInv, InitializeResponse, CheckAndPatch
  <1>8. CASE InstallExecuteHook
    <2>1. step = 8 /\ step' = 9
      BY <1>0, <1>8, StageNumbers DEF InstallExecuteHook
    <2> QED BY <1>8, <2>1 DEF PatchInv, InstallExecuteHook, CheckAndPatch
  <1>9. CASE InstallRegistrationHook
    <2>1. step = 9 /\ step' = 10
      BY <1>0, <1>9, StageNumbers DEF InstallRegistrationHook
    <2> QED BY <1>9, <2>1 DEF PatchInv, InstallRegistrationHook, CheckAndPatch
  <1>10. CASE Listen
    <2>1. step = 10 /\ step' = 11
      BY <1>0, <1>10, StageNumbers DEF Listen
    <2> QED BY <1>10, <2>1 DEF PatchInv, Listen
  <1>11. CASE Uninstall \/ Stop \/ Unregister
    <2>1. step' \in 12..16
      BY <1>0, <1>11, StageNumbers DEF Uninstall, Stop, Unregister
    <2>2. UNCHANGED <<supported, patched, ready, failed>>
      BY <1>11 DEF Uninstall, Stop, Unregister
    <2> QED BY <2>1, <2>2 DEF PatchInv
  <1>12. CASE \/ Unhook("response_shutdown", "hooked", "response")
              \/ Unhook("trace_shutdown", "hook_ok", "handler")
    <2>1. step' \in 13..14
      BY <1>0, <1>12, StageNumbers DEF Unhook
    <2> QED BY <1>12, <2>1 DEF PatchInv, Unhook
  <1>13. CASE Detach
    <2>1. ~ failed' /\ failed' \in BOOLEAN
      BY <1>13, Zenon DEF Detach
    <2> QED BY <1>0, <1>13, <2>1 DEF PatchInv, Detach
  <1>14. CASE UNCHANGED lifecycle
    BY <1>14 DEF PatchInv, lifecycle
  <1>15. LifecycleNext => \/ Load \/ Resolve \/ Configure
                          \/ \E callback \in Callbacks : Register(callback)
                          \/ InitializeTrace \/ InitializeGodMode \/ InitializeResponse
                          \/ InstallExecuteHook \/ InstallRegistrationHook \/ Listen
                          \/ Uninstall
                          \/ Unhook("response_shutdown", "hooked", "response")
                          \/ Unhook("trace_shutdown", "hook_ok", "handler")
                          \/ Stop \/ Unregister \/ Detach
                          \/ UNCHANGED lifecycle
    BY DEF LifecycleNext, Command, Event, InterfaceLookup
  <1> QED BY <1>1, <1>2, <1>3, <1>4, <1>5, <1>6, <1>7, <1>8, <1>9, <1>10, <1>11, <1>12,
             <1>13, <1>14, <1>15 DEF all

\* On the supported build every feature is there unless a patch failed, and
\* another build is never patched, in every life of the mod.
THEOREM AvailableTheorem == LifecycleSpec => []SupportedMeansAvailable
  <1>1. LifecycleInit => PatchInv
    <2>1. LifecycleInit => ~ failed /\ failed \in BOOLEAN
      BY Zenon DEF LifecycleInit
    <2> QED BY <2>1 DEF LifecycleInit, PatchInv
  <1>2. PatchInv => SupportedMeansAvailable
    <2> SUFFICES ASSUME PatchInv PROVE SupportedMeansAvailable
      OBVIOUS
    <2>1. At("up") => step = 11
      BY StageNumbers DEF PatchInv
    <2> QED BY <2>1 DEF PatchInv, SupportedMeansAvailable
  <1> QED BY <1>1, <1>2, PatchStep, PTL DEF LifecycleSpec

-----------------------------------------------------------------------------

\* A command that ends, in whatever way, takes its capture with it.
LEMMA NestedStep == NestedInv /\ [LifecycleNext]_all => NestedInv'
  <1> SUFFICES ASSUME NestedInv, [LifecycleNext]_all PROVE NestedInv'
    OBVIOUS
  <1> USE DEF nested
  <1>1. CASE CaptureStart
    BY <1>1 DEF NestedInv, NestedLogQuiet, CaptureStart
  <1>2. CASE CaptureStop
    BY <1>2 DEF NestedInv, NestedLogQuiet, CaptureStop
  <1>3. CASE Dispatch
    BY <1>3 DEF NestedInv, NestedLogQuiet, Dispatch
  <1>4. CASE DispatchReturns \/ Raise
    BY <1>4 DEF NestedInv, NestedLogQuiet, DispatchReturns, Raise
  <1>5. CASE ProcessEvent
    <2>1. CASE m_capturing_calls
      <3>1. Situation # [dispatch |-> FALSE, manual |-> FALSE]
        BY <2>1 DEF NestedInv, Situation
      <3>2. logged' = logged \cup {Situation}
        BY <1>5, <2>1 DEF ProcessEvent
      <3> QED BY <1>5, <3>1, <3>2 DEF NestedInv, NestedLogQuiet, ProcessEvent
    <2>2. CASE ~ m_capturing_calls
      BY <1>5, <2>2 DEF NestedInv, NestedLogQuiet, ProcessEvent
    <2> QED BY <2>1, <2>2
  <1>6. CASE Detach
    BY <1>6 DEF NestedInv, NestedLogQuiet, Detach
  <1>7. CASE UNCHANGED nested
    BY <1>7 DEF NestedInv, NestedLogQuiet
  <1>8. LifecycleNext => \/ CaptureStart \/ CaptureStop \/ Dispatch \/ DispatchReturns
                         \/ Raise \/ ProcessEvent \/ Detach \/ UNCHANGED nested
    BY DEF LifecycleNext, vars, Load, Resolve, Configure, Register, InitializeTrace,
           InitializeGodMode, InitializeResponse, InstallExecuteHook,
           InstallRegistrationHook, Listen, Uninstall, Unhook, Stop, Unregister,
           Command, Event, InterfaceLookup, RegistrationStart, RegistrationStop,
           Lookup, Write
  <1> QED BY <1>1, <1>2, <1>3, <1>4, <1>5, <1>6, <1>7, <1>8 DEF all, vars

\* Outside a dispatch nothing is logged unless the client asked for it, in every
\* life of the mod.
THEOREM QuietTheorem == LifecycleSpec => []NestedLogQuiet
  <1>1. LifecycleInit => NestedInv
    BY DEF LifecycleInit, Init, NestedInv, NestedLogQuiet
  <1>2. NestedInv => NestedLogQuiet
    BY DEF NestedInv
  <1> QED BY <1>1, <1>2, NestedStep, PTL DEF LifecycleSpec

-----------------------------------------------------------------------------

\* The threads that write are finitely many, and one more or less counts as one.
LEMMA WritingSize ==
    ASSUME writing \subseteq Threads, NEW t \in Threads
    PROVE  /\ Cardinality(writing) \in Nat
           /\ Cardinality(writing) <= Cardinality(Threads)
           /\ Cardinality(Threads) \in Nat
           /\ t \notin writing =>
               Cardinality(writing \cup {t}) = Cardinality(writing) + 1
           /\ t \in writing =>
               Cardinality(writing \ {t}) = Cardinality(writing) - 1
  <1>1. IsFiniteSet(Threads)
    BY ObserversAssumption
  <1>2. IsFiniteSet(writing) /\ Cardinality(writing) <= Cardinality(Threads)
    BY <1>1, FS_Subset
  <1> QED BY <1>1, <1>2, FS_CardinalityType, FS_AddElement, FS_RemoveElement

\* A counter of Modulus values counts up to its last one and then starts again.
LEMMA CountOneMore ==
    ASSUME NEW count \in Nat
    PROVE  /\ (count + 1) % Modulus \in Nat
           /\ count + 1 < Modulus => (count + 1) % Modulus = count + 1
           /\ count + 1 = Modulus => (count + 1) % Modulus = 0
  <1>1. Modulus \in Nat \ {0}
    BY ObserversAssumption
  <1> QED BY <1>1, Z3

\* Between a start and the wrap, who is granted a line was among the first Limit.
LEMMA CountStep == CountInv /\ [LifecycleNext]_all => CountInv'
  <1> SUFFICES ASSUME CountInv, [LifecycleNext]_all PROVE CountInv'
    OBVIOUS
  <1>0. Limit \in Nat /\ Modulus \in Nat /\ Limit < Modulus
    BY ObserversAssumption
  <1>1. CASE RegistrationStart
    <2>1. Cardinality(writing) \in Nat /\ Cardinality(Threads) \in Nat
          /\ Cardinality(writing) <= Cardinality(Threads)
      BY ObserversAssumption, FS_Subset, FS_CardinalityType DEF CountInv
    <2> QED BY <1>0, <1>1, <2>1 DEF CountInv, RegistrationStart
  <1>2. CASE RegistrationStop
    BY <1>2 DEF CountInv, RegistrationStop
  <1>3. ASSUME NEW t \in Threads, Lookup(t)
        PROVE  CountInv'
    <2>1. /\ Cardinality(writing) \in Nat /\ Cardinality(Threads) \in Nat
          /\ Cardinality(writing \cup {t}) = Cardinality(writing) + 1
      BY <1>3, WritingSize DEF CountInv, Lookup
    <2>2. /\ g_registration_log_count' \in Nat /\ lookups' \in Nat /\ lines' \in Nat
          /\ writing' \subseteq Threads
      BY <1>3, CountOneMore DEF CountInv, Lookup
    <2>3. lookups < Modulus => g_registration_log_count = lookups
      BY <1>3 DEF CountInv, Lookup
    <2>4. /\ lookups' < Modulus => g_registration_log_count' = lookups'
          /\ lookups' = Modulus => g_registration_log_count' = 0
      BY <1>0, <1>3, <2>3, CountOneMore DEF CountInv, Lookup
    <2>5. lookups' <= Modulus =>
            /\ lines' + Cardinality(writing') <= Cardinality(Threads) + Limit
            /\ lookups' <= Limit =>
                lines' + Cardinality(writing') <= Cardinality(Threads) + lookups'
      <3>1. CASE lookups < Limit
        BY <1>0, <1>3, <2>1, <2>3, <3>1 DEF CountInv, Lookup
      <3>2. CASE lookups >= Limit
        <4>1. lookups < Modulus => writing' = writing
          BY <1>0, <1>3, <2>3, <3>2 DEF CountInv, Lookup
        <4> QED BY <1>0, <1>3, <2>1, <3>2, <4>1 DEF CountInv, Lookup
      <3> QED BY <1>0, <3>1, <3>2 DEF CountInv
    <2> QED BY <2>2, <2>4, <2>5 DEF CountInv
  <1>4. ASSUME NEW t \in Threads, Write(t)
        PROVE  CountInv'
    <2>1. /\ Cardinality(writing) \in Nat /\ Cardinality(Threads) \in Nat
          /\ Cardinality(writing \ {t}) = Cardinality(writing) - 1
      BY <1>4, WritingSize DEF CountInv, Write
    <2> QED BY <1>0, <1>4, <2>1 DEF CountInv, Write
  <1>5. CASE Detach
    BY <1>5 DEF CountInv, Detach
  <1>6. CASE UNCHANGED registration
    BY <1>6 DEF CountInv, registration
  <1>7. LifecycleNext => \/ RegistrationStart \/ RegistrationStop
                         \/ \E t \in Threads : Lookup(t) \/ Write(t)
                         \/ Detach \/ UNCHANGED registration
    BY DEF LifecycleNext, vars, Load, Resolve, Configure, Register, InitializeTrace,
           InitializeGodMode, InitializeResponse, InstallExecuteHook,
           InstallRegistrationHook, Listen, Uninstall, Unhook, Stop, Unregister,
           Command, Event, InterfaceLookup, registration, CaptureStart, CaptureStop,
           Dispatch, DispatchReturns, Raise, ProcessEvent
  <1> QED BY <1>1, <1>2, <1>3, <1>4, <1>5, <1>6, <1>7 DEF all, vars, registration

\* Until the counter wraps, a capture leaves at most Limit lines and one for each
\* thread that was writing when the file was emptied.
THEOREM BoundedTheorem == LifecycleSpec => []BoundedUntilWrap
  <1>1. LifecycleInit => CountInv
    <2>1. Cardinality({}) = 0 /\ Cardinality(Threads) \in Nat
      BY ObserversAssumption, FS_EmptySet, FS_CardinalityType
    <2> QED BY <2>1, ObserversAssumption DEF LifecycleInit, Init, CountInv
  <1>2. CountInv => BoundedUntilWrap
    <2> SUFFICES ASSUME CountInv PROVE BoundedUntilWrap
      OBVIOUS
    <2>1. Cardinality(writing) \in Nat /\ Cardinality(Threads) \in Nat
      BY ObserversAssumption, FS_Subset, FS_CardinalityType DEF CountInv
    <2> QED BY <2>1, ObserversAssumption DEF CountInv, BoundedUntilWrap
  <1> QED BY <1>1, <1>2, CountStep, PTL DEF LifecycleSpec

=============================================================================
