------------------------------ MODULE Startup ------------------------------
(***************************************************************************)
(* How a session starts and ends.  start_rvpn.exe launches the GUI and     *)
(* inject.exe, looks for the service that inject.exe starts, and waits.    *)
(* inject.exe starts the service with its main thread suspended and a      *)
(* thread of its own that loads hooklib.dll, and resumes the main thread.  *)
(* DllMain of hooklib.dll installs the hooks, one function after another.  *)
(***************************************************************************)
EXTENDS Naturals, Sequences, FiniteSets

CONSTANT HookFaults    (* bound: functions that cannot be hooked           *)

ASSUME HookFaultsAssumption == HookFaults \in Nat

Procs == {"gui", "injector", "service"}

-----------------------------------------------------------------------------
(* The hooks.  One function stands for each way in which a function is     *)
(* hooked: by an entry of an import table, with the original's address     *)
(* fetched before (ReadFile, or CreateProcessW, hooked only if it is       *)
(* exported) or after (RegCloseKey, for the twenty of the registry); by a  *)
(* jump over its first bytes, for good (VariantInit) or with a copy of     *)
(* them, the trampoline (SetSecurityInfo, whose address is not fetched     *)
(* before, and GetLengthSid).                                              *)

Funcs ==
  {"ReadFile", "RegCloseKey", "CreateProcessW", "VariantInit",
   "SetSecurityInfo", "GetLengthSid"}

\* Their hooks do not call the original function.
Final == {"VariantInit", "SetSecurityInfo"}

\* Their hooks run before their originals' addresses are fetched, and so look
\* at the pointer before they use it.
Late == {"RegCloseKey"}

\* The steps of InstallHooks, EmulateDriverRunning_InstallHooks with
\* Register_InstallHooks, and InstallSecurityHooks.
Plan ==
  << <<"fetch", "ReadFile">>, <<"patch", "ReadFile">>,
     <<"patch", "RegCloseKey">>, <<"fetch", "RegCloseKey">>,
     <<"fetch", "CreateProcessW">>, <<"patch", "CreateProcessW">>,
     <<"replace", "VariantInit">>,
     <<"trampoline", "SetSecurityInfo">>, <<"jump", "SetSecurityInfo">>,
     <<"patch", "SetSecurityInfo">>,
     <<"fetch", "GetLengthSid">>, <<"trampoline", "GetLengthSid">>,
     <<"jump", "GetLengthSid">>, <<"patch", "GetLengthSid">> >>

VARIABLES
  launcher,   (* where main of start_rvpn.c is                             *)
  kills,      (* the processes it has still to terminate                   *)
  injector,   (* where main of inject_exe.c is                             *)
  up,         (* the processes that run                                    *)
  main,       (* the service's main thread has been resumed                *)
  load,       (* how far run_injection of hooklib.dll is                   *)
  at,         (* the next step of Plan                                     *)
  real,       (* Real_f: nothing, the exported address or a trampoline     *)
  iat,        (* functions whose import table entry is the hook            *)
  entry       (* functions whose first bytes jump to the hook              *)

processes == <<launcher, kills, injector, up, main>>
hooks == <<load, at, real, iat, entry>>
startup == <<processes, hooks>>

NoHooks ==
  [load |-> "none", at |-> 1, real |-> [f \in Funcs |-> "null"],
   iat |-> {}, entry |-> {}]

StartupInit ==
  /\ launcher = "idle" /\ kills = <<>> /\ injector = "gone"
  /\ up = {} /\ main = FALSE
  /\ load = "none" /\ at = 1
  /\ real = NoHooks.real /\ iat = {} /\ entry = {}

-----------------------------------------------------------------------------
(* start_rvpn.c *)

Over == {"idle", "ended", "failed", "dead"}

\* The launcher is started when nothing is left of an earlier session.  A
\* file may be missing.
LaunchGui ==
  /\ launcher \in Over /\ up = {}
  /\ \/ launcher' = "inject" /\ up' = {"gui"}
     \/ launcher' = "failed" /\ up' = {}
  /\ UNCHANGED <<kills, injector, main, hooks>>

\* The processes ps end; with the service goes what it had of hooklib.dll.
Exit(ps) ==
  /\ up' = up \ ps
  /\ IF "service" \in ps
     THEN /\ load' = NoHooks.load /\ at' = NoHooks.at /\ real' = NoHooks.real
          /\ iat' = NoHooks.iat /\ entry' = NoHooks.entry
          /\ main' = FALSE
     ELSE UNCHANGED <<main, hooks>>

Terminates(how, ps) == launcher' = how /\ kills' = ps

LaunchInjector ==
  /\ launcher = "inject"
  /\ \/ /\ launcher' = "find" /\ injector' = "create"
        /\ up' = up \cup {"injector"}
        /\ UNCHANGED kills
     \/ Terminates("giveup", <<"gui">>) /\ UNCHANGED <<injector, up>>
  /\ UNCHANGED <<main, hooks>>

\* FindProcessByNameAndParent sees the service, or its ten seconds are over.
FindService ==
  /\ launcher = "find"
  /\ \/ "service" \in up /\ launcher' = "open" /\ UNCHANGED kills
     \/ Terminates("giveup", <<"gui", "injector">>)
  /\ UNCHANGED <<injector, up, main, hooks>>

OpenService ==
  /\ launcher = "open"
  /\ \/ "service" \in up /\ launcher' = "watch" /\ UNCHANGED kills
     \/ Terminates("giveup", <<"gui", "injector">>)
  /\ UNCHANGED <<injector, up, main, hooks>>

\* Faulty variant: the service is left to the injector.
WatchKillsTwo ==
  /\ launcher = "watch"
  /\ Procs \ up # {}
  /\ Terminates("kill", <<"gui", "injector">>)
  /\ UNCHANGED <<injector, up, main, hooks>>

\* Faulty variant: WaitForMultipleObjects waits for all three.
WatchAll ==
  /\ launcher = "watch"
  /\ up = {}
  /\ Terminates("kill", <<"gui", "injector", "service">>)
  /\ UNCHANGED <<injector, up, main, hooks>>

\* WaitForMultipleObjects returns when one of the three has exited.
Watch ==
  /\ launcher = "watch"
  /\ Procs \ up # {}
  /\ Terminates("kill", <<"gui", "injector", "service">>)
  /\ UNCHANGED <<injector, up, main, hooks>>

Kill ==
  /\ launcher \in {"kill", "giveup"}
  /\ \/ /\ kills # <<>>
        /\ Exit({Head(kills)}) /\ kills' = Tail(kills)
        /\ UNCHANGED launcher
     \/ /\ kills = <<>>
        /\ launcher' = IF launcher = "kill" THEN "ended" ELSE "failed"
        /\ UNCHANGED <<up, kills, main, hooks>>
  /\ UNCHANGED injector

LauncherStep ==
  LaunchInjector \/ FindService \/ OpenService \/ Watch \/ Kill

-----------------------------------------------------------------------------
(* inject_exe.c *)

\* CreateProcess with CREATE_SUSPENDED.
CreateService ==
  /\ injector = "create" /\ "injector" \in up
  /\ \/ up' = up \cup {"service"} /\ injector' = "inject"
     \/ up' = up /\ injector' = "return"
  /\ UNCHANGED <<launcher, kills, main, hooks>>

\* Memory for the path, its copy, LoadLibraryA's address, the thread: if one
\* of them fails, the service is terminated.
Inject ==
  /\ injector = "inject" /\ "injector" \in up
  /\ \/ /\ "service" \in up
        /\ injector' = "load"
        /\ load' \in {"hooks", "missing"}
        /\ UNCHANGED <<up, main, at, real, iat, entry>>
     \/ injector' = "return" /\ Exit({"service"})
  /\ UNCHANGED <<launcher, kills>>

\* Faulty variant: the main thread is resumed without waiting.
WaitForNothing ==
  /\ injector = "load" /\ "injector" \in up
  /\ injector' = "resume"
  /\ UNCHANGED <<launcher, kills, up, main, hooks>>

\* The wait for LoadLibraryA, whose failure is printed and not heeded.
WaitForLoad ==
  /\ injector = "load" /\ "injector" \in up
  /\ \/ load \in {"loaded", "missing"}
     \/ "service" \notin up
  /\ injector' = "resume"
  /\ UNCHANGED <<launcher, kills, up, main, hooks>>

Resume ==
  /\ injector = "resume" /\ "injector" \in up
  /\ main' = ("service" \in up) /\ injector' = "wait"
  /\ UNCHANGED <<launcher, kills, up, hooks>>

InjectorReturns ==
  /\ "injector" \in up
  /\ \/ injector = "return"
     \/ injector = "wait" /\ "service" \notin up
  /\ injector' = "gone" /\ up' = up \ {"injector"}
  /\ UNCHANGED <<launcher, kills, main, hooks>>

InjectorStep ==
  CreateService \/ Inject \/ WaitForLoad \/ Resume \/ InjectorReturns

-----------------------------------------------------------------------------
(* hooklib.dll *)

\* GetProcAddress, which may not know the function.  A function the service
\* imports is exported: a process that imports another one does not start.
Fetch(f) ==
  /\ \/ real' = [real EXCEPT ![f] = "export"]
     \/ f \notin iat /\ real' = real
  /\ UNCHANGED <<iat, entry>>

\* An import table may not have the function.
Patch(f) ==
  /\ \/ (real[f] # "null" \/ f \in Late) /\ iat' = iat \cup {f}
     \/ iat' = iat
  /\ UNCHANGED <<real, entry>>

\* InstallTrampolineHook: no memory, no trampoline.
MakeTrampoline(f) ==
  /\ real' \in {real, [real EXCEPT ![f] = "trampoline"]}
  /\ f \notin Final /\ real[f] = "null" => real' = real
  /\ UNCHANGED <<iat, entry>>

\* Faulty variant: the jump is written although there is no trampoline.
JumpAlways(f) == entry' = entry \cup {f} /\ UNCHANGED <<real, iat>>

Jump(f) ==
  /\ entry' = IF real[f] = "trampoline" THEN entry \cup {f} ELSE entry
  /\ UNCHANGED <<real, iat>>

Replace(f) == entry' = entry \cup {f} /\ UNCHANGED <<real, iat>>

\* Functions for which a step before the i-th was without effect.
Unhooked(i) ==
  {f \in Funcs :
     \E j \in 1..(i - 1) :
       /\ Plan[j][2] = f
       /\ \/ Plan[j][1] = "fetch" /\ real[f] = "null"
          \/ Plan[j][1] = "patch" /\ f \notin iat
          \/ Plan[j][1] = "trampoline" /\ real[f] # "trampoline"}

InstallHook ==
  /\ "service" \in up /\ load = "hooks"
  /\ LET step == Plan[at][1]
         f == Plan[at][2]
     IN  \/ step = "fetch" /\ Fetch(f)
         \/ step = "patch" /\ Patch(f)
         \/ step = "trampoline" /\ MakeTrampoline(f)
         \/ step = "jump" /\ Jump(f)
         \/ step = "replace" /\ Replace(f)
  /\ at' = at + 1
  /\ Cardinality(Unhooked(at)') <= HookFaults
  /\ load' = IF at = Len(Plan) THEN "driver" ELSE load
  /\ UNCHANGED processes

\* InitDriver always succeeds: a configuration that cannot be read leaves the
\* defaults, and no answer of the bridge is waited for.
InitDriver ==
  /\ "service" \in up /\ load = "driver"
  /\ load' = "identity"
  /\ UNCHANGED <<processes, at, real, iat, entry>>

\* DllMain returns after InitFakeMac.
Loaded ==
  /\ "service" \in up /\ load = "identity"
  /\ load' = "loaded"
  /\ UNCHANGED <<processes, at, real, iat, entry>>

-----------------------------------------------------------------------------
\* The service's main thread runs, with the library in its process.
LibraryIn == main /\ load # "missing"

\* A process ends by itself or by the user's hand, so may the launcher.
ProcessExits ==
  /\ \E p \in up : Exit({p})
  /\ UNCHANGED <<launcher, kills, injector>>

LauncherDies ==
  /\ launcher \notin Over
  /\ launcher' = "dead" /\ kills' = <<>>
  /\ UNCHANGED <<injector, up, main, hooks>>

-----------------------------------------------------------------------------
(* Properties *)

StartupTypeOK ==
  /\ launcher \in Over \cup {"inject", "find", "open", "watch", "kill",
                             "giveup"}
  /\ kills \in Seq(Procs)
  /\ injector \in {"create", "inject", "load", "resume", "wait", "return",
                   "gone"}
  /\ up \in SUBSET Procs /\ main \in BOOLEAN
  /\ load \in {"none", "hooks", "driver", "identity", "loaded", "missing"}
  /\ at \in 1..(Len(Plan) + 1)
  /\ real \in [Funcs -> {"null", "export", "trampoline"}]
  /\ iat \in SUBSET Funcs /\ entry \in SUBSET Funcs

\* A call of a hooked function never comes back to its own hook, and the
\* original is never called through a null pointer: at each moment the address
\* a hook calls is the trampoline, or the exported one with its first bytes
\* untouched (InstallTrampolineHook sets Real_ before it writes the jump).
\* Only while the hooks are being installed may it be null, and only for
\* hooks that then answer without the original (register.c:1184).
HooksReachOriginals ==
  \A f \in (iat \cup entry) \ Final :
    \/ real[f] = "trampoline"
    \/ real[f] = "export" /\ f \notin entry
    \/ real[f] = "null" /\ f \in Late /\ load = "hooks"

\* "Monitors all three; if any exits, the others are killed"
\* (start_rvpn.c:5): a launcher that has watched leaves no process, and one
\* that gave up leaves at most the service it did not find or open.
NoneLeft ==
  /\ launcher = "ended" => up = {}
  /\ launcher = "failed" => up \subseteq {"service"}

\* ... and while the launcher lives, the end of one process ends them all.
SessionEnds ==
  launcher = "watch" /\ up # Procs ~> up = {} \/ launcher = "dead"
=============================================================================
