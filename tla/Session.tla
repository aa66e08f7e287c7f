------------------------------ MODULE Session ------------------------------
(***************************************************************************)
(* A session from start to end: the launcher, the injector and the loading *)
(* of hooklib.dll (Startup) with the adapter the service then configures   *)
(* (Adapter).  The linux_tap bridge is started and stopped apart from it.  *)
(***************************************************************************)
EXTENDS Startup, Adapter

vars == <<startup, adapter>>

Init == StartupInit /\ AdapterInit

\* Of a service that ends, the memory goes too.
Memory ==
  IF "service" \in up \ up' THEN LibraryGone ELSE UNCHANGED adapter

\* The last step of run_injection.
Identify == Loaded /\ StartIdentity

LauncherRuns == LauncherStep /\ Memory

InjectorRuns == InjectorStep /\ Memory

LibraryRuns ==
  \/ InstallHook /\ UNCHANGED adapter
  \/ InitDriver /\ UNCHANGED adapter
  \/ Identify

\* A service whose library was not found runs the real netsh, and reports
\* the real adapters.
ServiceRuns ==
  /\ LibraryIn
  /\ Netsh \/ Report
  /\ UNCHANGED startup

Next ==
  \/ LaunchGui /\ UNCHANGED adapter
  \/ LauncherRuns \/ InjectorRuns \/ LibraryRuns \/ ServiceRuns
  \/ ProcessExits /\ Memory
  \/ LauncherDies /\ UNCHANGED adapter
  \/ BridgeRestarts /\ UNCHANGED startup

\* The launcher is a process that only waits for others, and so runs on.
Fairness == WF_vars(LauncherRuns)

Spec == Init /\ [][Next]_vars /\ Fairness

-----------------------------------------------------------------------------
TypeOK == StartupTypeOK /\ AdapterTypeOK

\* The service's own code runs with everything or with nothing: DllMain has
\* returned, with the identity made up and every function hooked that could
\* be, or LoadLibraryA has failed, which inject_exe.c:91 only prints, and not
\* one function is hooked.  It never runs while hooks are being installed.
AllHooksOrNone ==
  main =>
    \/ load = "missing" /\ iat \cup entry = {}
    \/ /\ load = "loaded" /\ mem.initialized
       /\ Cardinality(Funcs \ (iat \cup entry)) <= HookFaults
=============================================================================
