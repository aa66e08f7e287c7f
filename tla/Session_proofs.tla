--------------------------- MODULE Session_proofs ---------------------------
(* The safety of a session, for any commands, addresses and faults.        *)
EXTENDS Session, FiniteSetTheorems, TLAPS

-----------------------------------------------------------------------------
(* Start and end                                                           *)

(***************************************************************************)
(* AllHooksOrNone speaks of the running service only; what makes it hold   *)
(* is where the injector is while the library loads.                       *)
(***************************************************************************)
Loading ==
  /\ main => "service" \in up /\ load \in {"loaded", "missing"}
  /\ injector = "resume" /\ "service" \in up => load \in {"loaded", "missing"}
  /\ load # "none" => "service" \in up
  /\ "injector" \in up /\ injector \in {"create", "inject", "load", "resume"}
       => ~main
  /\ "injector" \in up /\ injector \in {"create", "inject"} => load = "none"
  /\ launcher = "inject" => up \subseteq {"gui"}

\* How far the hooks are, which functions could not be hooked so far, that a
\* function is fetched before it is jumped over, and that RegCloseKey is hooked
\* without its address only between the third step and the fourth.
Hooking ==
  /\ load \in {"none", "missing"} => at = 1 /\ iat = {} /\ entry = {}
  /\ load = "hooks" => at <= Len(Plan)
  /\ load \in {"driver", "identity", "loaded"} => at = Len(Plan) + 1
  /\ Cardinality(Unhooked(at)) <= HookFaults
  /\ at > 7 => "VariantInit" \in entry
  /\ at <= 3 => "RegCloseKey" \notin iat
  /\ "RegCloseKey" \in iat /\ real["RegCloseKey"] = "null" => at = 4
  /\ {"ReadFile", "RegCloseKey", "CreateProcessW"} \cap entry = {}
  /\ at <= 13 => "GetLengthSid" \notin entry
  /\ HooksReachOriginals

\* What is still to be terminated: in "kill" nobody starts a service any more.
Ending ==
  /\ launcher \in {"open", "watch", "kill", "ended"} \/ "service" \in up
       => injector # "create"
  /\ launcher = "kill" => \A p \in up : \E i \in 1..Len(kills) : kills[i] = p
  /\ launcher = "giveup" =>
       \A p \in up \ {"service"} : \E i \in 1..Len(kills) : kills[i] = p
  /\ NoneLeft

StartupInv == StartupTypeOK /\ Loading /\ Hooking /\ Ending

\* A step of Startup, whatever the adapter does.
StartupNext ==
  \/ LaunchGui \/ LauncherStep \/ InjectorStep
  \/ InstallHook \/ InitDriver \/ Loaded
  \/ ProcessExits \/ LauncherDies

LEMMA PlanLength == Len(Plan) = 14
  BY DEF Plan

LEMMA StartupInits == StartupInit => StartupInv
<1> SUFFICES ASSUME StartupInit PROVE StartupInv
  OBVIOUS
<1> USE DEF StartupInit, NoHooks
<1>1. StartupTypeOK
  <2>1. kills \in Seq(Procs)
    OBVIOUS
  <2>2. at \in 1..(Len(Plan) + 1)
    BY PlanLength
  <2>3. real \in [Funcs -> {"null", "export", "trampoline"}]
    OBVIOUS
  <2> QED BY <2>1, <2>2, <2>3 DEF StartupTypeOK, Over
<1>2. Loading
  BY DEF Loading
<1>3. Hooking
  <2>1. Unhooked(at) = {}
    BY DEF Unhooked
  <2>2. Cardinality(Unhooked(at)) <= HookFaults
    BY <2>1, FS_EmptySet, HookFaultsAssumption
  <2> QED BY <2>2 DEF Hooking, HooksReachOriginals
<1>4. Ending
  BY DEF Ending, NoneLeft
<1> QED BY <1>1, <1>2, <1>3, <1>4 DEF StartupInv

LEMMA HooksKept == ASSUME StartupInv, UNCHANGED hooks PROVE Hooking'
<1>1. Unhooked(at)' = Unhooked(at)
  BY DEF hooks, Unhooked
<1> QED BY <1>1 DEF hooks, StartupInv, Hooking, HooksReachOriginals

LEMMA NothingHooked ==
  ASSUME load' \in {"none", "missing", "hooks"}, at' = 1, iat' = {}, entry' = {}
  PROVE  Hooking'
<1>1. Unhooked(at)' = {}
  BY DEF Unhooked
<1>2. Cardinality(Unhooked(at)') <= HookFaults
  BY <1>1, FS_EmptySet, HookFaultsAssumption
<1> QED BY <1>2, PlanLength DEF Hooking, HooksReachOriginals

\* The end of processes keeps what the hooks and the loading rely on.
LEMMA ExitKeepsHooks ==
  ASSUME StartupInv, NEW ps \in SUBSET Procs, Exit(ps),
         UNCHANGED <<launcher, injector>>
  PROVE  /\ up' \in SUBSET Procs /\ main' \in BOOLEAN
         /\ load' \in {"none", "hooks", "driver", "identity", "loaded", "missing"}
         /\ at' \in 1..(Len(Plan) + 1)
         /\ real' \in [Funcs -> {"null", "export", "trampoline"}]
         /\ iat' \in SUBSET Funcs /\ entry' \in SUBSET Funcs
         /\ Loading' /\ Hooking'
<1> USE PlanLength
<1>1. CASE "service" \in ps
  <2>1. /\ up' = up \ ps /\ load' = "none" /\ at' = 1 /\ main' \in BOOLEAN
        /\ ~main'
        /\ real' = [f \in Funcs |-> "null"] /\ iat' = {} /\ entry' = {}
    BY <1>1 DEF Exit, NoHooks
  <2>2. Loading'
    BY <1>1, <2>1 DEF Loading, StartupInv
  <2>3. Hooking'
    BY <2>1, NothingHooked
  <2>4. StartupTypeOK
    BY DEF StartupInv
  <2> QED BY <2>1, <2>2, <2>3, <2>4 DEF StartupTypeOK
<1>2. CASE "service" \notin ps
  <2>1. up' = up \ ps /\ UNCHANGED <<load, at, main, real, iat, entry>>
    BY <1>2 DEF Exit, hooks
  <2>2. Loading'
    BY <1>2, <2>1 DEF Loading, StartupInv
  <2>3. Hooking'
    BY <2>1, HooksKept DEF hooks
  <2>4. StartupTypeOK
    BY DEF StartupInv
  <2> QED BY <2>1, <2>2, <2>3, <2>4 DEF StartupTypeOK
<1> QED BY <1>1, <1>2

-----------------------------------------------------------------------------
\* The launcher and the injector, which leave the hooks alone unless they end
\* the service.

LEMMA TypesKept ==
  ASSUME StartupInv, UNCHANGED <<load, at, real, iat, entry>>,
         launcher' \in Over \cup {"inject", "find", "open", "watch", "kill",
                                  "giveup"},
         kills' \in Seq(Procs),
         injector' \in {"create", "inject", "load", "resume", "wait",
                        "return", "gone"},
         up' \in SUBSET Procs, main' \in BOOLEAN
  PROVE  StartupTypeOK'
  BY DEF StartupInv, StartupTypeOK

LEMMA LaunchGuiKeeps == ASSUME StartupInv, LaunchGui PROVE StartupInv'
<1> USE DEF LaunchGui, hooks
<1>1. StartupTypeOK'
  <2>1. StartupTypeOK
    BY DEF StartupInv
  <2>2. up' \in SUBSET Procs
    BY DEF Procs
  <2> QED BY <2>1, <2>2, TypesKept DEF StartupTypeOK, Over
<1>2. Loading'
  BY DEF StartupInv, Loading
<1>3. Ending'
  BY DEF StartupInv, Ending, NoneLeft
<1> QED BY <1>1, <1>2, <1>3, HooksKept DEF StartupInv

LEMMA LaunchInjectorKeeps == ASSUME StartupInv, LaunchInjector PROVE StartupInv'
<1> USE DEF LaunchInjector, hooks, Terminates
<1>1. StartupTypeOK'
  <2>1. StartupTypeOK
    BY DEF StartupInv
  <2>2. up' \in SUBSET Procs
    BY <2>1 DEF Procs, StartupTypeOK
  <2>3. <<"gui">> \in Seq(Procs)
    BY DEF Procs
  <2> QED BY <2>1, <2>2, <2>3, TypesKept DEF StartupTypeOK, Over
<1>2. Loading'
  BY DEF StartupInv, Loading
<1>3. Ending'
  <2>1. Len(<<"gui">>) = 1 /\ <<"gui">>[1] = "gui"
    OBVIOUS
  <2> QED BY <2>1 DEF StartupInv, Ending, NoneLeft, Loading
<1> QED BY <1>1, <1>2, <1>3, HooksKept DEF StartupInv

\* The launcher waits, and decides what to terminate.
LEMMA LauncherWaitsKeeps ==
  ASSUME StartupInv, FindService \/ OpenService \/ Watch PROVE StartupInv'
<1> DEFINE two == <<"gui", "injector">>
           all == <<"gui", "injector", "service">>
<1> USE DEF FindService, OpenService, Watch, hooks, Terminates
<1>1. /\ two \in Seq(Procs) /\ Len(two) = 2
      /\ two[1] = "gui" /\ two[2] = "injector"
  BY DEF Procs
<1>2. /\ all \in Seq(Procs) /\ Len(all) = 3
      /\ all[1] = "gui" /\ all[2] = "injector" /\ all[3] = "service"
  BY DEF Procs
<1>3. StartupTypeOK
  BY DEF StartupInv
<1>4. StartupTypeOK'
  BY <1>1, <1>2, <1>3, TypesKept DEF StartupTypeOK
<1>5. Loading'
  BY DEF StartupInv, Loading
<1>6. /\ UNCHANGED <<up, injector>>
      /\ \/ launcher' = "open" /\ "service" \in up
         \/ launcher' = "watch" /\ "service" \in up
         \/ launcher' = "giveup" /\ kills' = two
         \/ launcher' = "kill" /\ kills' = all /\ launcher = "watch"
  BY DEF two, all
<1>7. \A q \in up : q = "gui" \/ q = "injector" \/ q = "service"
  BY <1>3 DEF StartupTypeOK, Procs
<1> HIDE DEF two, all, FindService, OpenService, Watch
<1>8. Ending'
  <2>1. \A q \in up \ {"service"} : \E i \in 1..Len(two) : two[i] = q
    BY <1>1, <1>7
  <2>2. \A q \in up : \E i \in 1..Len(all) : all[i] = q
    BY <1>2, <1>7
  <2> HIDE DEF two, all
  <2>3. launcher' \in {"open", "watch", "kill"} => injector' # "create"
    BY <1>6 DEF StartupInv, Ending
  <2>4. "service" \in up' => injector' # "create"
    BY <1>6 DEF StartupInv, Ending
  <2> QED BY <1>6, <2>1, <2>2, <2>3, <2>4 DEF Ending, NoneLeft
<1> QED BY <1>4, <1>5, <1>8, HooksKept DEF StartupInv, FindService, OpenService, Watch

LEMMA KillKeeps == ASSUME StartupInv, Kill PROVE StartupInv'
<1>1. CASE kills = <<>>
  <2>1. /\ UNCHANGED <<up, kills, main, injector>> /\ UNCHANGED hooks
        /\ \/ launcher = "kill" /\ launcher' = "ended"
           \/ launcher = "giveup" /\ launcher' = "failed"
    BY <1>1 DEF Kill
  <2>2. Len(kills) = 0
    BY <1>1
  <2>3. StartupTypeOK'
    BY <2>1, TypesKept DEF hooks, StartupInv, StartupTypeOK, Over
  <2>4. Loading'
    BY <2>1 DEF hooks, StartupInv, Loading
  <2>5. Ending'
    BY <2>1, <2>2 DEF StartupInv, Ending, NoneLeft
  <2> QED BY <2>1, <2>3, <2>4, <2>5, HooksKept DEF StartupInv
<1>2. CASE kills # <<>>
  <2>1. /\ kills \in Seq(Procs) /\ Len(kills) \in Nat \ {0}
        /\ Head(kills) = kills[1] /\ Head(kills) \in Procs
        /\ Tail(kills) \in Seq(Procs) /\ Len(Tail(kills)) = Len(kills) - 1
        /\ \A i \in 1..(Len(kills) - 1) : Tail(kills)[i] = kills[i + 1]
    BY <1>2 DEF StartupInv, StartupTypeOK
  <2>2. /\ Exit({Head(kills)}) /\ kills' = Tail(kills)
        /\ UNCHANGED <<launcher, injector>>
        /\ launcher \in {"kill", "giveup"}
    BY <1>2 DEF Kill
  <2>3. up' = up \ {kills[1]}
    BY <2>1, <2>2 DEF Exit
  <2>4. StartupTypeOK' /\ Loading' /\ Hooking'
    <3>1. {Head(kills)} \in SUBSET Procs
      BY <2>1
    <3>2. StartupTypeOK
      BY DEF StartupInv
    <3> QED BY <2>1, <2>2, <3>1, <3>2, ExitKeepsHooks DEF StartupTypeOK
  <2>5. ASSUME NEW p \in up', NEW i \in 1..Len(kills), kills[i] = p
        PROVE  \E j \in 1..Len(kills') : kills'[j] = p
    <3>1. i # 1
      BY <2>3, <2>5
    <3>2. i - 1 \in 1..Len(kills') /\ kills'[i - 1] = p
      BY <3>1, <2>1, <2>2, <2>5
    <3> QED BY <3>2
  <2>6. Ending'
    BY <2>2, <2>3, <2>5 DEF StartupInv, Ending, NoneLeft
  <2> QED BY <2>4, <2>6 DEF StartupInv
<1> QED BY <1>1, <1>2

LEMMA InjectorStepKeeps == ASSUME StartupInv, InjectorStep PROVE StartupInv'
<1>0. StartupTypeOK
  BY DEF StartupInv
<1>1. CASE CreateService
  <2>1. StartupTypeOK'
    BY <1>0, <1>1, TypesKept DEF CreateService, hooks, StartupTypeOK, Procs
  <2>2. Loading'
    BY <1>1 DEF CreateService, hooks, StartupInv, Loading
  <2>3. Ending'
    BY <1>1 DEF CreateService, StartupInv, Ending, NoneLeft, Loading
  <2> QED BY <1>1, <2>1, <2>2, <2>3, HooksKept DEF StartupInv, CreateService
<1>2. CASE Inject
  <2>1. CASE injector' = "load"
    <3>1. StartupTypeOK'
      BY <1>0, <1>2, <2>1 DEF Inject, StartupTypeOK
    <3>2. Loading'
      BY <1>2, <2>1 DEF Inject, StartupInv, Loading
    <3>3. Hooking'
      BY <1>2, <2>1, NothingHooked DEF Inject, StartupInv, Hooking, Loading
    <3>4. Ending'
      BY <1>2, <2>1 DEF Inject, StartupInv, Ending, NoneLeft
    <3> QED BY <3>1, <3>2, <3>3, <3>4 DEF StartupInv
  <2>2. CASE injector' = "return"
    <3>1. Exit({"service"}) /\ UNCHANGED <<launcher, kills>>
      BY <1>2, <2>2 DEF Inject
    <3>2. /\ up' = up \ {"service"} /\ load' = "none" /\ at' = 1 /\ ~main'
          /\ main' \in BOOLEAN
          /\ real' = [f \in Funcs |-> "null"] /\ iat' = {} /\ entry' = {}
      BY <3>1 DEF Exit, NoHooks
    <3>3. StartupTypeOK'
      BY <1>0, <2>2, <3>1, <3>2, PlanLength DEF StartupTypeOK
    <3>4. Loading'
      BY <2>2, <3>1, <3>2 DEF StartupInv, Loading
    <3>5. Hooking'
      BY <3>2, NothingHooked
    <3>6. Ending'
      BY <2>2, <3>1, <3>2 DEF StartupInv, Ending, NoneLeft
    <3> QED BY <3>3, <3>4, <3>5, <3>6 DEF StartupInv
  <2> QED BY <1>2, <2>1, <2>2 DEF Inject
<1>3. CASE WaitForLoad
  <2>1. StartupTypeOK'
    BY <1>0, <1>3, TypesKept DEF WaitForLoad, hooks, StartupTypeOK
  <2>2. Loading'
    BY <1>3 DEF WaitForLoad, hooks, StartupInv, Loading
  <2>3. Ending'
    BY <1>3 DEF WaitForLoad, StartupInv, Ending, NoneLeft
  <2> QED BY <1>3, <2>1, <2>2, <2>3, HooksKept DEF StartupInv, WaitForLoad
<1>4. CASE Resume
  <2>1. /\ main' \in BOOLEAN /\ main' => "service" \in up
    BY <1>4 DEF Resume
  <2>2. StartupTypeOK'
    BY <1>0, <1>4, <2>1, TypesKept DEF Resume, hooks, StartupTypeOK
  <2>3. Loading'
    BY <1>4, <2>1 DEF Resume, hooks, StartupInv, Loading
  <2>4. Ending'
    BY <1>4 DEF Resume, StartupInv, Ending, NoneLeft
  <2> QED BY <1>4, <2>2, <2>3, <2>4, HooksKept DEF StartupInv, Resume
<1>5. CASE InjectorReturns
  <2>1. StartupTypeOK'
    BY <1>0, <1>5, TypesKept DEF InjectorReturns, hooks, StartupTypeOK
  <2>2. Loading'
    BY <1>5 DEF InjectorReturns, hooks, StartupInv, Loading
  <2>3. Ending'
    BY <1>5 DEF InjectorReturns, StartupInv, Ending, NoneLeft
  <2> QED BY <1>5, <2>1, <2>2, <2>3, HooksKept DEF StartupInv, InjectorReturns
<1> QED BY <1>1, <1>2, <1>3, <1>4, <1>5 DEF InjectorStep

-----------------------------------------------------------------------------
\* The library.  A function is fetched before its first bytes are changed.
LEMMA PlanSteps ==
  ASSUME NEW i \in 1..14
  PROVE  /\ Plan[i][2] \in Funcs
         /\ Plan[i][1] = "fetch" =>
              \/ Plan[i][2] \in {"ReadFile", "CreateProcessW"}
              \/ Plan[i][2] = "RegCloseKey" /\ i = 4
              \/ Plan[i][2] = "GetLengthSid" /\ i = 11
         /\ Plan[i][1] = "patch" /\ Plan[i][2] = "RegCloseKey" => i = 3
         /\ Plan[i][1] = "trampoline" =>
              Plan[i][2] \in {"SetSecurityInfo", "GetLengthSid"}
         /\ Plan[i][1] = "jump" =>
              \/ Plan[i][2] = "SetSecurityInfo"
              \/ Plan[i][2] = "GetLengthSid" /\ i = 13
         /\ Plan[i][1] = "replace" => Plan[i][2] = "VariantInit"
         /\ i = 3 => Plan[i] = <<"patch", "RegCloseKey">>
         /\ i = 4 => Plan[i] = <<"fetch", "RegCloseKey">>
         /\ i = 7 => Plan[i] = <<"replace", "VariantInit">>
<1>1. \/ i = 1 \/ i = 2 \/ i = 3 \/ i = 4 \/ i = 5 \/ i = 6 \/ i = 7
      \/ i = 8 \/ i = 9 \/ i = 10 \/ i = 11 \/ i = 12 \/ i = 13 \/ i = 14
  OBVIOUS
<1> QED BY <1>1 DEF Plan, Funcs

\* One step of InstallHooks, whichever it is, keeps the hooks sound.
LEMMA InstallHookKeeps == ASSUME StartupInv, InstallHook PROVE StartupInv'
<1> DEFINE step == Plan[at][1]
           f == Plan[at][2]
           rck == "RegCloseKey"
<1>1. /\ at \in 1..14 /\ at' = at + 1 /\ load = "hooks"
      /\ real \in [Funcs -> {"null", "export", "trampoline"}]
      /\ iat \in SUBSET Funcs /\ entry \in SUBSET Funcs
      /\ Hooking
  BY PlanLength DEF InstallHook, StartupInv, StartupTypeOK, Hooking
<1>2. /\ f \in Funcs
      /\ step = "fetch" =>
           \/ f \in {"ReadFile", "CreateProcessW"}
           \/ f = rck /\ at = 4
           \/ f = "GetLengthSid" /\ at = 11
      /\ step = "patch" /\ f = rck => at = 3
      /\ step = "trampoline" => f \in {"SetSecurityInfo", "GetLengthSid"}
      /\ step = "jump" =>
           \/ f = "SetSecurityInfo"
           \/ f = "GetLengthSid" /\ at = 13
      /\ step = "replace" => f = "VariantInit"
      /\ at = 3 => step = "patch" /\ f = rck
      /\ at = 4 => step = "fetch" /\ f = rck
      /\ at = 7 => step = "replace" /\ f = "VariantInit"
  BY <1>1, PlanSteps
<1>3. \/ step = "fetch" /\ Fetch(f)
      \/ step = "patch" /\ Patch(f)
      \/ step = "trampoline" /\ MakeTrampoline(f)
      \/ step = "jump" /\ Jump(f)
      \/ step = "replace" /\ Replace(f)
  BY DEF InstallHook
<1>4. /\ "service" \in up /\ UNCHANGED processes
      /\ load' = IF at = 14 THEN "driver" ELSE "hooks"
      /\ Cardinality(Unhooked(at)') <= HookFaults
  BY <1>1, PlanLength DEF InstallHook
<1> HIDE DEF step, f
<1>5. /\ real' \in [Funcs -> {"null", "export", "trampoline"}]
      /\ iat' \in SUBSET Funcs /\ entry' \in SUBSET Funcs
      /\ at' > 7 => "VariantInit" \in entry'
      /\ at' <= 3 => rck \notin iat'
      /\ rck \in iat' /\ real'[rck] = "null" => at' = 4
      /\ {"ReadFile", rck, "CreateProcessW"} \cap entry' = {}
      /\ at' <= 13 => "GetLengthSid" \notin entry'
      /\ \A g \in (iat' \cup entry') \ Final :
           \/ real'[g] = "trampoline"
           \/ real'[g] = "export" /\ g \notin entry'
           \/ g = rck
  <2>0. \A g \in (iat \cup entry) \ Final :
           \/ real[g] = "trampoline"
           \/ real[g] = "export" /\ g \notin entry
           \/ g = rck
    BY <1>1 DEF Hooking, HooksReachOriginals, Late
  <2> USE <1>1, <1>2, <2>0 DEF Hooking
  <2>1. CASE step = "fetch" /\ Fetch(f)
    <3>1. f \notin entry /\ UNCHANGED <<iat, entry>>
      BY <2>1 DEF Fetch
    <3>2. /\ real' \in [Funcs -> {"null", "export", "trampoline"}]
          /\ real' = real \/ real' = [real EXCEPT ![f] = "export"]
          /\ f \in iat => real' = [real EXCEPT ![f] = "export"]
      BY <2>1 DEF Fetch
    <3>3. rck \in iat' /\ real'[rck] = "null" => at' = 4
      BY <2>1, <3>1, <3>2
    <3>4. at' > 7 => "VariantInit" \in entry'
      BY <2>1, <3>1
    <3>5. at' <= 3 => rck \notin iat'
      BY <3>1
    <3> QED BY <3>1, <3>2, <3>3, <3>4, <3>5
  <2>2. CASE step = "patch" /\ Patch(f)
    <3>1. /\ UNCHANGED <<real, entry>>
          /\ \/ iat' = iat
             \/ iat' = iat \cup {f} /\ (real[f] # "null" \/ f = rck)
      BY <2>2 DEF Patch, Late
    <3>2. rck \in iat' /\ real'[rck] = "null" => at' = 4
      BY <2>2, <3>1
    <3>3. at' > 7 => "VariantInit" \in entry'
      BY <2>2, <3>1
    <3>4. at' <= 3 => rck \notin iat'
      BY <2>2, <3>1
    <3>5. \A g \in (iat' \cup entry') \ Final :
            \/ real'[g] = "trampoline"
            \/ real'[g] = "export" /\ g \notin entry'
            \/ g = rck
      <4> SUFFICES ASSUME NEW g \in (iat' \cup entry') \ Final, g # rck
                   PROVE  \/ real[g] = "trampoline"
                          \/ real[g] = "export" /\ g \notin entry
        BY <3>1
      <4>1. CASE g \in iat \cup entry
        BY <4>1
      <4>2. CASE g = f /\ g \notin iat \cup entry
        <5>1. real[g] # "null"
          BY <3>1, <4>2
        <5> QED BY <4>2, <5>1
      <4> QED BY <3>1, <4>1, <4>2
    <3> QED BY <3>1, <3>2, <3>3, <3>4, <3>5
  <2>3. CASE step = "trampoline" /\ MakeTrampoline(f)
    BY <2>3 DEF MakeTrampoline
  <2>4. CASE step = "jump" /\ Jump(f)
    BY <2>4 DEF Jump
  <2>5. CASE step = "replace" /\ Replace(f)
    BY <2>5 DEF Replace, Final
  <2> QED BY <1>3, <2>1, <2>2, <2>3, <2>4, <2>5
<1>6. Hooking'
  <2>1. HooksReachOriginals'
    <3> SUFFICES ASSUME NEW g \in ((iat \cup entry) \ Final)'
                 PROVE  (\/ real[g] = "trampoline"
                         \/ real[g] = "export" /\ g \notin entry
                         \/ real[g] = "null" /\ g \in Late /\ load = "hooks")'
      BY DEF HooksReachOriginals
    <3>1. CASE g = rck
      <4>1. real'[rck] = "null" => load' = "hooks"
        BY <1>1, <1>4, <1>5, <3>1 DEF Final
      <4>2. real'[rck] # "trampoline" /\ real'[rck] # "null" => real'[rck] = "export"
        BY <1>5 DEF Funcs
      <4>3. rck \notin entry'
        BY <1>5
      <4> QED BY <3>1, <4>1, <4>2, <4>3 DEF Late
    <3>2. CASE g # rck
      BY <1>5, <3>2 DEF Final
    <3> QED BY <3>1, <3>2
  <2> QED BY <1>1, <1>4, <1>5, <2>1, PlanLength DEF Hooking
<1>7. StartupTypeOK'
  BY <1>1, <1>4, <1>5, PlanLength DEF processes, StartupInv, StartupTypeOK
<1>8. Loading'
  BY <1>1, <1>4 DEF processes, StartupInv, Loading
<1>9. Ending'
  BY <1>4 DEF processes, StartupInv, Ending, NoneLeft
<1> QED BY <1>6, <1>7, <1>8, <1>9 DEF StartupInv

LEMMA LoadingOnKeeps ==
  ASSUME StartupInv, InitDriver \/ Loaded PROVE StartupInv'
<1>1. /\ "service" \in up /\ load \in {"driver", "identity"}
      /\ load' \in {"identity", "loaded"}
      /\ UNCHANGED <<processes, at, real, iat, entry>>
  BY DEF InitDriver, Loaded
<1>2. StartupTypeOK'
  BY <1>1 DEF processes, StartupInv, StartupTypeOK
<1>3. Loading'
  BY <1>1 DEF processes, StartupInv, Loading
<1>4. Hooking'
  <2>1. Unhooked(at)' = Unhooked(at)
    BY <1>1 DEF Unhooked
  <2> QED BY <1>1, <2>1 DEF StartupInv, Hooking, HooksReachOriginals
<1>5. Ending'
  BY <1>1 DEF processes, StartupInv, Ending, NoneLeft
<1> QED BY <1>2, <1>3, <1>4, <1>5 DEF StartupInv

LEMMA ProcessExitsKeeps == ASSUME StartupInv, ProcessExits PROVE StartupInv'
<1>1. PICK p \in up : Exit({p})
  BY DEF ProcessExits
<1>2. UNCHANGED <<launcher, kills, injector>> /\ up' = up \ {p}
  BY <1>1 DEF ProcessExits, Exit
<1>3. StartupTypeOK
  BY DEF StartupInv
<1>4. StartupTypeOK' /\ Loading' /\ Hooking'
  <2>1. {p} \in SUBSET Procs
    BY <1>3 DEF StartupTypeOK
  <2> QED BY <1>1, <1>2, <1>3, <2>1, ExitKeepsHooks DEF StartupTypeOK
<1>5. Ending'
  BY <1>2 DEF StartupInv, Ending, NoneLeft
<1> QED BY <1>4, <1>5 DEF StartupInv

LEMMA LauncherDiesKeeps == ASSUME StartupInv, LauncherDies PROVE StartupInv'
<1> USE DEF LauncherDies, hooks
<1>1. StartupTypeOK'
  BY TypesKept DEF StartupInv, StartupTypeOK, Over
<1>2. Loading'
  BY DEF StartupInv, Loading
<1>3. Ending'
  BY DEF StartupInv, Ending, NoneLeft
<1> QED BY <1>1, <1>2, <1>3, HooksKept DEF StartupInv

LEMMA StartupKeeps == ASSUME StartupInv, StartupNext PROVE StartupInv'
<1>1. CASE LauncherStep
  BY <1>1, LaunchInjectorKeeps, LauncherWaitsKeeps, KillKeeps DEF LauncherStep
<1>2. CASE ~LauncherStep
  BY <1>2, LaunchGuiKeeps, InjectorStepKeeps, InstallHookKeeps,
     LoadingOnKeeps, ProcessExitsKeeps, LauncherDiesKeeps DEF StartupNext
<1> QED BY <1>1, <1>2

LEMMA StartupStutters ==
  ASSUME StartupInv, UNCHANGED startup PROVE StartupInv'
<1>1. UNCHANGED <<launcher, kills, injector, up, main>> /\ UNCHANGED hooks
  BY DEF startup, processes
<1>2. StartupTypeOK'
  BY <1>1 DEF hooks, StartupInv, StartupTypeOK
<1>3. Loading'
  BY <1>1 DEF hooks, StartupInv, Loading
<1>4. Ending'
  BY <1>1 DEF StartupInv, Ending, NoneLeft
<1> QED BY <1>1, <1>2, <1>3, <1>4, HooksKept DEF StartupInv

-----------------------------------------------------------------------------
(* The adapter                                                             *)

\* What a mask is turned into and back again is the mask.
LEMMA MaskSize ==
  ASSUME NEW k \in 0..Width
  PROVE  MaskToPrefix(PrefixToMask(k)) = k
<1>1. Width \in Nat /\ k \in Nat
  BY AdapterAssumption
<1>2. {n \in 1..Width : \A i \in 1..n : PrefixToMask(k)[i] = 1} = 1..k
  <2>1. \A i \in 1..Width : PrefixToMask(k)[i] = (IF i <= k THEN 1 ELSE 0)
    BY DEF PrefixToMask
  <2>2. ASSUME NEW n \in 1..Width, n > k
        PROVE  \E i \in 1..n : PrefixToMask(k)[i] # 1
    <3>1. k + 1 \in 1..n /\ k + 1 \in 1..Width
      BY <1>1, <2>2
    <3> QED BY <1>1, <2>1, <3>1
  <2>3. \A n \in 1..k : n \in 1..Width /\ \A i \in 1..n : PrefixToMask(k)[i] = 1
    BY <1>1, <2>1
  <2> QED BY <1>1, <2>2, <2>3
<1>3. Cardinality(1..k) = k
  BY <1>1, FS_Interval
<1> QED BY <1>2, <1>3 DEF MaskToPrefix

LEMMA MaskThereAndBack ==
  ASSUME NEW m \in Masks
  PROVE  MaskToPrefix(m) \in Nat /\ PrefixToMask(MaskToPrefix(m)) = m
<1>1. PICK k \in 0..Width : m = PrefixToMask(k)
  BY DEF Masks
<1> QED BY <1>1, MaskSize, AdapterAssumption

Hosts6 == {x.addr : x \in Texts6}

Datagrams ==
  [op : {"v4"}, addr : Addrs4, prefix : Nat]
    \cup [op : {"v6"}, addr : Hosts6, prefix : Nat]
    \cup [op : {"up", "down"}]

\* The datagrams that tell the bridge what memory m holds.
Owed(m) ==
  {SetIPv4(m.addr, MaskToPrefix(m.mask))}
    \cup {SetIPv6(a.addr, Prefix6(a)) : a \in {m.six} \cap Texts6}
    \cup {LinkUp, LinkDown}

MemType ==
  [addr : Addrs4, mask : Masks, six : Texts6 \cup {NIL},
   mac : {FixedMac, MadeMac}, guid : Guids \cup {ZeroGuid},
   initialized : BOOLEAN, settled : BOOLEAN]

BridgeType ==
  [v4 : (Addrs4 \cup {NIL}) \X (Nat \cup {NIL}), v6 : SUBSET (Hosts6 \X Nat),
   mac : {NIL, FixedMac, MadeMac}]

AdapterTypes ==
  /\ mem \in MemType
  /\ cmd \in [step : {"none", "store", "send"}, of : Commands \cup {NIL},
              out : Seq(Datagrams)]
  /\ bridge \in BridgeType
  /\ doubt \in SUBSET Settings
  /\ wmi \in SUBSET (Guids \cup DeviceIDs \cup {ZeroGuid})
  /\ named \in SUBSET (DeviceIDs \cup {ZeroGuid})
  /\ seen \in SUBSET ({FixedMac, MadeMac} \cup wmi \cup Guids \cup {ZeroGuid})

\* Of a command being parsed the address is stored, the settings it may
\* change are in doubt, and what is still to be sent is what memory holds.
Parsing ==
  /\ cmd.step = "store" =>
       /\ cmd.of \in Commands
       /\ IsV4(cmd.of.addr) => mem.addr = cmd.of.addr
       /\ IsV6(cmd.of.addr) => mem.six = cmd.of.addr
       /\ cmd.of.mask # NIL => "v4" \in doubt
  /\ cmd.out \in Seq(Owed(mem))

\* BridgeAgrees without the way by which the functions report it.
Known ==
  /\ "v4" \notin doubt => bridge.v4 = <<mem.addr, MaskToPrefix(mem.mask)>>
  /\ "v6" \notin doubt => /\ mem.six \in Texts6
                          /\ <<mem.six.addr, Prefix6(mem.six)>> \in bridge.v6
  /\ "mac" \notin doubt => bridge.mac = mem.mac

\* Nothing is shown, and no object made, before the identity is made up.
Shown ==
  /\ IdentityStable
  /\ wmi \subseteq {mem.guid} \cup named
  /\ mem.initialized => mem.settled
  /\ ~mem.initialized => wmi = {} /\ seen = {}

AdapterInv == AdapterTypes /\ Parsing /\ Known /\ Shown

LEMMA AdapterInits == AdapterInit => AdapterInv
<1> SUFFICES ASSUME AdapterInit PROVE AdapterInv
  OBVIOUS
<1> USE DEF AdapterInit, DefaultMem, NoCommand, NewBridge
<1>1. AdapterTypes
  <2>1. mem \in MemType
    BY DefaultAssumption DEF MemType
  <2>2. cmd = [step |-> "none", of |-> NIL, out |-> <<>>]
    OBVIOUS
  <2>3. bridge \in BridgeType
    BY DEF BridgeType
  <2>4. <<>> \in Seq(Datagrams)
    OBVIOUS
  <2> QED BY <2>1, <2>2, <2>3, <2>4 DEF AdapterTypes, shown
<1>2. Parsing
  BY DEF Parsing
<1>3. Known
  BY DEF Known, Settings
<1>4. Shown
  BY DEF Shown, IdentityStable, shown
<1> QED BY <1>1, <1>2, <1>3, <1>4 DEF AdapterInv

LEMMA OwedAreDatagrams ==
  ASSUME NEW m \in MemType PROVE Owed(m) \subseteq Datagrams
<1>1. MaskToPrefix(m.mask) \in Nat
  BY MaskThereAndBack DEF MemType
<1>2. \A a \in Texts6 : Prefix6(a) \in Nat /\ a.addr \in Hosts6
  BY AdapterAssumption DEF Prefix6, Hosts6
<1> QED BY <1>1, <1>2
        DEF Owed, Datagrams, SetIPv4, SetIPv6, LinkUp, LinkDown, MemType

Identities == [op : {"mac"}, mac : {FixedMac, MadeMac}]

\* What is not in doubt after a datagram was sent is what the datagram says,
\* or was not in doubt before and is as it was.
LEMMA SendChanges ==
  ASSUME bridge \in BridgeType, doubt \in SUBSET Settings,
         NEW d \in Datagrams \cup Identities, Send(d)
  PROVE  /\ bridge' \in BridgeType /\ doubt' \in SUBSET Settings
         /\ doubt \ {d.op} \subseteq doubt'
         /\ "v4" \notin doubt' =>
              IF d.op = "v4" THEN bridge'.v4 = <<d.addr, d.prefix>>
              ELSE "v4" \notin doubt /\ bridge'.v4 = bridge.v4
         /\ "v6" \notin doubt' =>
              IF d.op = "v6" THEN <<d.addr, d.prefix>> \in bridge'.v6
              ELSE "v6" \notin doubt /\ bridge'.v6 = bridge.v6
         /\ "mac" \notin doubt' =>
              IF d.op = "mac" THEN bridge'.mac = d.mac
              ELSE "mac" \notin doubt /\ bridge'.mac = bridge.mac
<1> USE DEF Sure, Unsure, Settings, BridgeType
<1>1. CASE bridge' = bridge /\ Unsure(d.op)
  BY <1>1 DEF Datagrams, Identities
<1>2. CASE d.op = "down" /\ HandleLinkDown
  <2>1. bridge' = [bridge EXCEPT !.v6 = {}] /\ doubt' = doubt \cup {"v6"}
    BY <1>2 DEF HandleLinkDown
  <2> QED BY <1>2, <2>1
<1>3. CASE d.op = "mac" /\ HandleMAC(d)
  <2>1. /\ bridge' = [bridge EXCEPT !.mac = d.mac]
        /\ doubt' = doubt \ {"mac"}
        /\ d.mac \in {FixedMac, MadeMac}
    BY <1>3 DEF HandleMAC, Identities, Datagrams
  <2> QED BY <1>3, <2>1
<1>4. CASE d.op = "v4" /\ HandleIPv4(d)
  <2>1. d.addr \in Addrs4 /\ d.prefix \in Nat
    BY <1>4 DEF Identities, Datagrams
  <2>2. CASE bridge' = [bridge EXCEPT !.v4 = <<d.addr, d.prefix>>] /\ Sure("v4")
    BY <1>4, <2>1, <2>2
  <2>3. CASE bridge' = [bridge EXCEPT !.v4 = <<d.addr, NIL>>] /\ Unsure("v4")
    <3>1. "v4" \in doubt' /\ doubt' = doubt \cup {"v4"}
      BY <2>3
    <3> QED BY <1>4, <2>1, <2>3, <3>1
  <2> QED BY <1>4, <2>2, <2>3 DEF HandleIPv4
<1>5. CASE d.op = "v6" /\ HandleIPv6(d)
  <2>1. /\ bridge' = [bridge EXCEPT !.v6 = @ \cup {<<d.addr, d.prefix>>}]
        /\ doubt' = doubt \ {"v6"}
        /\ d.addr \in Hosts6 /\ d.prefix \in Nat
    BY <1>5 DEF HandleIPv6, Identities, Datagrams
  <2> QED BY <1>5, <2>1
<1> QED BY <1>1, <1>2, <1>3, <1>4, <1>5 DEF Send, Told

LEMMA SendKeeps ==
  ASSUME AdapterTypes, Known, NEW d \in Owed(mem), Send(d), UNCHANGED mem
  PROVE  /\ Known' /\ bridge' \in BridgeType /\ doubt' \in SUBSET Settings
         /\ doubt \ {d.op} \subseteq doubt'
<1>1. /\ mem \in MemType /\ bridge \in BridgeType /\ doubt \in SUBSET Settings
  BY DEF AdapterTypes, shown
<1>2. d \in Datagrams
  BY <1>1, OwedAreDatagrams
<1>3. /\ d.op = "v4" => /\ d.addr = mem.addr
                        /\ d.prefix = MaskToPrefix(mem.mask)
      /\ d.op = "v6" => /\ mem.six \in Texts6 /\ d.addr = mem.six.addr
                        /\ d.prefix = Prefix6(mem.six)
      /\ d.op # "mac"
  BY DEF Owed, SetIPv4, SetIPv6, LinkUp, LinkDown
<1>4. Known'
  BY <1>1, <1>2, <1>3, SendChanges DEF Known
<1> QED BY <1>1, <1>2, <1>4, SendChanges

-----------------------------------------------------------------------------
\* What a command is owed is what memory holds when its mask is stored.
LEMMA ToSendIsOwed ==
  ASSUME NEW c \in Commands, NEW m \in MemType,
         IsV4(c.addr) => m.addr = c.addr, IsV6(c.addr) => m.six = c.addr,
         c.mask # NIL => m.mask = c.mask
  PROVE  ToSend(c) \in Seq(Owed(m))
<1> DEFINE D == Owed(m)
           first == IF IsV4(c.addr) /\ c.mask # NIL
                    THEN <<SetIPv4(c.addr, MaskToPrefix(c.mask))>>
                    ELSE IF IsV6(c.addr)
                    THEN <<SetIPv6(c.addr.addr, Prefix6(c.addr)), LinkUp>>
                    ELSE <<>>
           second == IF c.link = "up" THEN <<LinkUp>>
                     ELSE IF c.link = "down" THEN <<LinkDown>> ELSE <<>>
<1>1. /\ LinkUp \in D /\ LinkDown \in D
      /\ SetIPv4(m.addr, MaskToPrefix(m.mask)) \in D
  BY DEF Owed
<1>2. IsV6(c.addr) => SetIPv6(c.addr.addr, Prefix6(c.addr)) \in D
  BY DEF IsV6, Owed
<1>3. ToSend(c) = first \o second
  BY DEF ToSend
<1> HIDE DEF D
<1>4. first \in Seq(D)
  <2>1. CASE IsV4(c.addr) /\ c.mask # NIL
    BY <1>1, <2>1
  <2>2. CASE ~(IsV4(c.addr) /\ c.mask # NIL) /\ IsV6(c.addr)
    BY <1>1, <1>2, <2>2
  <2> QED BY <2>1, <2>2
<1>5. second \in Seq(D)
  BY <1>1
<1> HIDE DEF first, second
<1> QED BY <1>3, <1>4, <1>5 DEF D

LEMMA ParseAddressKeeps ==
  ASSUME AdapterInv, NEW c \in Commands, ParseAddress(c) PROVE AdapterInv'
<1> USE DEF AdapterInv
<1>1. /\ mem \in MemType /\ doubt \in SUBSET Settings
      /\ bridge \in BridgeType /\ UNCHANGED <<bridge, shown>>
      /\ cmd' = [step |-> "store", of |-> c, out |-> <<>>]
  BY DEF AdapterTypes, ParseAddress, NoCommand
<1>2. /\ mem' \in MemType
      /\ UNCHANGED <<mem.mask, mem.mac, mem.guid, mem.initialized, mem.settled>>
      /\ IF IsV4(c.addr) THEN mem'.addr = c.addr ELSE UNCHANGED mem.addr
      /\ IF IsV6(c.addr) THEN mem'.six = c.addr ELSE UNCHANGED mem.six
  BY <1>1, AdapterAssumption DEF ParseAddress, MemType, IsV4, IsV6
<1>3. /\ doubt \subseteq doubt' /\ doubt' \in SUBSET Settings
      /\ IsV4(c.addr) \/ c.mask # NIL => "v4" \in doubt'
      /\ IsV6(c.addr) => "v6" \in doubt'
  BY <1>1 DEF ParseAddress, Settings
<1>4. AdapterTypes'
  <2>1. <<>> \in Seq(Datagrams)
    OBVIOUS
  <2> QED BY <1>1, <1>2, <1>3, <2>1 DEF AdapterTypes, shown
<1>5. Parsing'
  <2>1. <<>> \in Seq(Owed(mem'))
    OBVIOUS
  <2> QED BY <1>1, <1>2, <1>3, <2>1 DEF Parsing
<1>6. Known'
  BY <1>1, <1>2, <1>3 DEF Known
<1>7. Shown'
  BY <1>1, <1>2 DEF Shown, IdentityStable, shown
<1> QED BY <1>4, <1>5, <1>6, <1>7

LEMMA StoreRestKeeps == ASSUME AdapterInv, StoreRest PROVE AdapterInv'
<1> USE DEF AdapterInv
<1> DEFINE c == cmd.of
<1>1. /\ mem \in MemType /\ c \in Commands /\ cmd.step = "store"
      /\ IsV4(c.addr) => mem.addr = c.addr
      /\ IsV6(c.addr) => mem.six = c.addr
      /\ c.mask # NIL => "v4" \in doubt
      /\ UNCHANGED <<bridge, doubt, shown>>
  BY DEF AdapterTypes, Parsing, StoreRest
<1>2. /\ cmd'.step = "send" /\ cmd'.of = c /\ cmd'.out = ToSend(c)
      /\ cmd' = [step |-> "send", of |-> c, out |-> ToSend(c)]
  BY DEF StoreRest, AdapterTypes
<1>3. c.mask \in Masks \cup {NIL}
  BY <1>1, AdapterAssumption
<1>4. /\ mem' \in MemType
      /\ UNCHANGED <<mem.addr, mem.six, mem.mac, mem.guid, mem.initialized,
                     mem.settled>>
      /\ mem'.mask = IF c.mask = NIL THEN mem.mask ELSE c.mask
  BY <1>1, <1>3 DEF StoreRest, MemType
<1>5. ToSend(c) \in Seq(Owed(mem'))
  BY <1>1, <1>4, ToSendIsOwed
<1>6. Owed(mem') \subseteq Datagrams
  BY <1>4, OwedAreDatagrams
<1> HIDE DEF c
<1>7. ToSend(c) \in Seq(Datagrams)
  BY <1>5, <1>6
<1>8. AdapterTypes'
  BY <1>1, <1>2, <1>4, <1>7 DEF AdapterTypes, shown
<1>9. Parsing'
  BY <1>2, <1>5 DEF Parsing
<1>10. Known'
  BY <1>1, <1>4 DEF Known, c
<1>11. Shown'
  BY <1>1, <1>4 DEF Shown, IdentityStable, shown
<1> QED BY <1>8, <1>9, <1>10, <1>11

LEMMA SendNextKeeps == ASSUME AdapterInv, SendNext PROVE AdapterInv'
<1> USE DEF AdapterInv
<1> DEFINE d == Head(cmd.out)
<1>1. /\ mem \in MemType /\ cmd.out \in Seq(Owed(mem)) /\ cmd.out # <<>>
      /\ cmd.out \in Seq(Datagrams)
      /\ UNCHANGED <<mem, shown>> /\ Send(d)
      /\ cmd.step = "send" /\ cmd' = [cmd EXCEPT !.out = Tail(@)]
  BY DEF AdapterTypes, Parsing, SendNext
<1>2. d \in Owed(mem) /\ Tail(cmd.out) \in Seq(Owed(mem))
      /\ Tail(cmd.out) \in Seq(Datagrams)
  BY <1>1
<1> HIDE DEF d
<1>3. Known' /\ bridge' \in BridgeType /\ doubt' \in SUBSET Settings
  BY <1>1, <1>2, SendKeeps
<1>4. /\ cmd'.step = "send" /\ cmd'.out = Tail(cmd.out)
      /\ cmd' \in [step : {"none", "store", "send"}, of : Commands \cup {NIL},
                   out : Seq(Datagrams)]
  BY <1>1, <1>2 DEF AdapterTypes, shown
<1>5. AdapterTypes'
  BY <1>1, <1>3, <1>4 DEF AdapterTypes, shown
<1>6. Parsing'
  BY <1>1, <1>2, <1>4 DEF Parsing
<1>7. Shown'
  BY <1>1 DEF Shown, IdentityStable, shown
<1> QED BY <1>3, <1>5, <1>6, <1>7

LEMMA CommandDoneKeeps == ASSUME AdapterInv, CommandDone PROVE AdapterInv'
<1> USE DEF AdapterInv, CommandDone, NoCommand
<1>1. AdapterTypes'
  BY DEF AdapterTypes, shown
<1>2. Parsing'
  BY DEF Parsing
<1>3. Known'
  BY DEF Known
<1>4. Shown'
  BY DEF Shown, IdentityStable, shown
<1> QED BY <1>1, <1>2, <1>3, <1>4

\* An initialised identity is shown as it is, or as the service named it.
LEMMA ReportKeeps ==
  ASSUME AdapterInv, mem.initialized, Report PROVE AdapterInv'
<1> USE DEF AdapterInv
<1>1. mem' = mem /\ UNCHANGED <<cmd, bridge, doubt>>
  BY DEF Report, GetNetAdapter, ExecQuery, ReportMac, ReportGuid, InitFakeMac,
         InitSettingID, Shown
<1>2. /\ wmi \subseteq wmi' /\ named \subseteq named'
      /\ wmi' \subseteq {mem.guid} \cup named'
      /\ wmi' \in SUBSET (Guids \cup DeviceIDs \cup {ZeroGuid})
      /\ named' \in SUBSET (DeviceIDs \cup {ZeroGuid})
  <2> USE DEF AdapterTypes, Shown, MemType
  <2>1. CASE \E id \in DeviceIDs : GetNetAdapter(id)
    BY <2>1 DEF GetNetAdapter
  <2>2. CASE ExecQuery
    BY <2>2 DEF ExecQuery
  <2>3. CASE ReportMac \/ ReportGuid
    BY <2>3 DEF ReportMac, ReportGuid
  <2> QED BY <2>1, <2>2, <2>3 DEF Report
<1>3. seen' \subseteq seen \cup {mem.guid, mem.mac} \cup wmi
  <2>1. CASE (\E id \in DeviceIDs : GetNetAdapter(id)) \/ ExecQuery
    BY <2>1 DEF GetNetAdapter, ExecQuery
  <2>2. CASE ReportMac
    BY <1>1, <2>2 DEF ReportMac, WbemClassGet, NetAdapterGet, GetAdaptersInfo,
                      GetAdaptersAddresses
  <2>3. CASE ReportGuid
    BY <1>1, <2>3 DEF ReportGuid, WbemClassGet, NetAdapterGet, ConnGetProperties
  <2> QED BY <2>1, <2>2, <2>3 DEF Report
<1>4. AdapterTypes'
  <2>1. seen' \in SUBSET ({FixedMac, MadeMac} \cup wmi' \cup Guids \cup {ZeroGuid})
    BY <1>2, <1>3 DEF AdapterTypes, MemType
  <2> QED BY <1>1, <1>2, <2>1 DEF AdapterTypes
<1>5. Parsing'
  BY <1>1 DEF Parsing
<1>6. Known'
  BY <1>1 DEF Known
<1>7. Shown'
  BY <1>1, <1>2, <1>3 DEF Shown, IdentityStable
<1> QED BY <1>4, <1>5, <1>6, <1>7

\* The identity is made up once, before anything was shown, and sent.
LEMMA StartIdentityKeeps ==
  ASSUME AdapterInv, StartIdentity PROVE AdapterInv' /\ mem'.initialized
<1> USE DEF AdapterInv
<1>1. /\ mem \in MemType /\ bridge \in BridgeType /\ doubt \in SUBSET Settings
      /\ UNCHANGED <<cmd, shown>>
      /\ mem' \in InitFakeMac(mem) /\ Send(SetMAC(mem'.mac))
  BY DEF AdapterTypes, StartIdentity
<1>2. /\ mem' \in MemType /\ mem'.initialized
      /\ UNCHANGED <<mem.addr, mem.mask, mem.six>>
      /\ mem' = mem \/ (~mem.initialized /\ mem'.settled)
  <2>1. CASE mem.initialized
    BY <1>1, <2>1 DEF InitFakeMac
  <2>2. CASE ~mem.initialized
    <3>1. PICK g \in Guids :
            mem' = [mem EXCEPT !.initialized = TRUE, !.settled = TRUE,
                               !.mac = MadeMac, !.guid = g]
      BY <1>1, <2>2 DEF InitFakeMac
    <3>2. mem' = [addr |-> mem.addr, mask |-> mem.mask, six |-> mem.six,
                  mac |-> MadeMac, guid |-> g, initialized |-> TRUE,
                  settled |-> TRUE]
      BY <1>1, <3>1 DEF MemType
    <3>3. mem'.initialized = TRUE /\ mem'.settled = TRUE
      BY <3>2
    <3>4. mem' \in MemType /\ UNCHANGED <<mem.addr, mem.mask, mem.six>>
      BY <1>1, <3>2 DEF MemType
    <3> QED BY <2>2, <3>3, <3>4
  <2> QED BY <2>1, <2>2
<1>3. /\ SetMAC(mem'.mac) \in Identities
      /\ SetMAC(mem'.mac).op = "mac" /\ SetMAC(mem'.mac).mac = mem'.mac
  BY <1>2 DEF Identities, SetMAC, MemType
<1>4. /\ bridge' \in BridgeType /\ doubt' \in SUBSET Settings
      /\ doubt \ {"mac"} \subseteq doubt'
      /\ "v4" \notin doubt' => "v4" \notin doubt /\ bridge'.v4 = bridge.v4
      /\ "v6" \notin doubt' => "v6" \notin doubt /\ bridge'.v6 = bridge.v6
      /\ "mac" \notin doubt' => bridge'.mac = mem'.mac
  BY <1>1, <1>3, SendChanges
<1>5. AdapterTypes'
  BY <1>1, <1>2, <1>4 DEF AdapterTypes, shown
<1>6. Parsing'
  <2>1. Owed(mem') = Owed(mem)
    BY <1>2 DEF Owed
  <2> QED BY <1>1, <1>2, <1>4, <2>1 DEF Parsing
<1>7. Known'
  BY <1>2, <1>4 DEF Known
<1>8. Shown'
  BY <1>1, <1>2 DEF Shown, IdentityStable, shown
<1> QED BY <1>2, <1>5, <1>6, <1>7, <1>8

LEMMA LibraryGoneKeeps == ASSUME AdapterInv, LibraryGone PROVE AdapterInv'
<1> USE DEF AdapterInv, LibraryGone, DefaultMem, NoCommand
<1>1. mem' \in MemType
  BY DefaultAssumption DEF MemType
<1>2. /\ <<>> \in Seq(Datagrams) /\ <<>> \in Seq(Owed(mem'))
      /\ cmd' = [step |-> "none", of |-> NIL, out |-> <<>>]
  OBVIOUS
<1>3. AdapterTypes'
  BY <1>1, <1>2 DEF AdapterTypes, shown
<1>4. Parsing'
  BY <1>2 DEF Parsing
<1>5. Known'
  BY DEF Known, Settings
<1>6. Shown'
  BY DEF Shown, IdentityStable, shown
<1> QED BY <1>3, <1>4, <1>5, <1>6

LEMMA BridgeRestartsKeeps ==
  ASSUME AdapterInv, BridgeRestarts PROVE AdapterInv' /\ UNCHANGED mem
<1> USE DEF AdapterInv, BridgeRestarts, NewBridge
<1>1. bridge' \in BridgeType
  BY DEF BridgeType
<1>2. AdapterTypes'
  BY <1>1 DEF AdapterTypes, shown
<1>3. Parsing'
  BY DEF Parsing, Settings
<1>4. Known'
  BY DEF Known, Settings
<1>5. Shown'
  BY DEF Shown, IdentityStable, shown
<1> QED BY <1>2, <1>3, <1>4, <1>5

LEMMA AdapterStutters ==
  ASSUME AdapterInv, UNCHANGED adapter PROVE AdapterInv'
<1> USE DEF AdapterInv, adapter
<1>1. AdapterTypes'
  BY DEF AdapterTypes, shown
<1>2. Parsing'
  BY DEF Parsing
<1>3. Known'
  BY DEF Known
<1>4. Shown'
  BY DEF Shown, IdentityStable, shown
<1> QED BY <1>1, <1>2, <1>3, <1>4

-----------------------------------------------------------------------------
(* The session                                                             *)

IInv == StartupInv /\ AdapterInv /\ (load = "loaded" => mem.initialized)

LEMMA MemoryKeeps ==
  ASSUME AdapterInv, Memory PROVE AdapterInv' /\ ("service" \in up \ up' \/ UNCHANGED mem)
  BY LibraryGoneKeeps, AdapterStutters DEF Memory, adapter

\* Without the step Loaded the library is loaded only if it was before.
LEMMA LoadedBefore ==
  ASSUME StartupInv, StartupInv', LauncherStep \/ InjectorStep \/ ProcessExits,
         load' = "loaded"
  PROVE  load = "loaded" /\ "service" \in up'
<1>1. "service" \in up'
  BY DEF StartupInv, Loading
<1>2. CASE LauncherStep
  BY <1>1, <1>2 DEF LauncherStep, LaunchInjector, FindService, OpenService, Watch,
              Kill, Exit, NoHooks, hooks
<1>3. CASE InjectorStep
  BY <1>1, <1>3 DEF InjectorStep, CreateService, Inject, WaitForLoad, Resume,
              InjectorReturns, Exit, NoHooks, hooks
<1>4. CASE ProcessExits
  BY <1>1, <1>4 DEF ProcessExits, Exit, NoHooks, hooks
<1> QED BY <1>1, <1>2, <1>3, <1>4

\* Every state of a session satisfies the strengthened invariant.
THEOREM Invariance == Spec => []IInv
<1>1. Init => IInv
  BY StartupInits, AdapterInits DEF Init, IInv, StartupInit
<1>2. IInv /\ [Next]_vars => IInv'
  <2> SUFFICES ASSUME IInv, [Next]_vars PROVE IInv'
    OBVIOUS
  <2> USE DEF IInv
  <2>1. CASE UNCHANGED vars
    BY <2>1, StartupStutters, AdapterStutters DEF vars, startup, hooks, adapter
  <2>2. CASE LaunchGui /\ UNCHANGED adapter
    BY <2>2, StartupKeeps, AdapterStutters
       DEF StartupNext, LaunchGui, hooks, adapter
  <2>3. ASSUME LauncherStep \/ InjectorStep \/ ProcessExits, Memory
        PROVE  IInv'
    <3>1. StartupInv'
      BY <2>3, StartupKeeps DEF StartupNext
    <3>2. AdapterInv' /\ ("service" \in up \ up' \/ UNCHANGED mem)
      BY <2>3, MemoryKeeps
    <3>3. load' = "loaded" => mem'.initialized
      BY <2>3, <3>1, <3>2, LoadedBefore
    <3> QED BY <3>1, <3>2, <3>3
  <2>4. CASE (InstallHook \/ InitDriver) /\ UNCHANGED adapter
    <3>1. load' # "loaded"
      BY <2>4 DEF InstallHook, InitDriver
    <3> QED BY <2>4, <3>1, StartupKeeps, AdapterStutters DEF StartupNext
  <2>5. CASE Identify
    BY <2>5, StartupKeeps, StartIdentityKeeps DEF StartupNext, Identify
  <2>6. CASE ServiceRuns
    <3>1. UNCHANGED startup /\ load = "loaded" /\ mem.initialized
      BY <2>6 DEF ServiceRuns, LibraryIn, StartupInv, Loading
    <3>2. AdapterInv'
      BY <2>6, <3>1, ParseAddressKeeps, StoreRestKeeps, SendNextKeeps,
         CommandDoneKeeps, ReportKeeps DEF ServiceRuns, Netsh
    <3>3. mem'.initialized
      BY <2>6, <3>1 DEF ServiceRuns, Netsh, ParseAddress, StoreRest, SendNext,
         CommandDone, Report, GetNetAdapter, ExecQuery, ReportMac, ReportGuid,
         InitFakeMac, InitSettingID, AdapterInv, AdapterTypes, MemType
    <3> QED BY <3>1, <3>2, <3>3, StartupStutters
  <2>7. CASE LauncherDies /\ UNCHANGED adapter
    BY <2>7, StartupKeeps, AdapterStutters
       DEF StartupNext, LauncherDies, hooks, adapter
  <2>8. CASE BridgeRestarts /\ UNCHANGED startup
    BY <2>8, StartupStutters, BridgeRestartsKeeps DEF startup, hooks
  <2> QED BY <2>1, <2>2, <2>3, <2>4, <2>5, <2>6, <2>7, <2>8
          DEF Next, LauncherRuns, InjectorRuns, LibraryRuns
<1> QED BY <1>1, <1>2, PTL DEF Spec

\* The variables of launcher, injector, library and adapter keep their types.
THEOREM SessionTypes == Spec => []TypeOK
<1>1. IInv => TypeOK
  <2> SUFFICES ASSUME IInv PROVE TypeOK
    OBVIOUS
  <2>1. AdapterTypes
    BY DEF IInv, AdapterInv
  <2>2. Datagrams \subseteq
          [op : {"v4", "v6"}, addr : Addrs4 \cup {x.addr : x \in Texts6},
           prefix : Nat] \cup [op : {"up", "down"}]
    BY DEF Datagrams, Hosts6
  <2>3. cmd.out \in Seq(Datagrams)
    BY <2>1 DEF AdapterTypes, shown
  <2>4. cmd.out \in
          Seq([op : {"v4", "v6"}, addr : Addrs4 \cup {x.addr : x \in Texts6},
               prefix : Nat] \cup [op : {"up", "down"}])
    BY <2>2, <2>3
  <2>5. AdapterTypeOK
    BY <2>1, <2>4 DEF AdapterTypes, AdapterTypeOK, MemType
  <2> QED BY <2>5 DEF TypeOK, IInv, StartupInv
<1> QED BY <1>1, Invariance, PTL

\* A service that runs with the library has at most HookFaults functions
\* without a hook: the others were patched or jumped over.
LEMMA WithoutHook ==
  ASSUME StartupInv, load = "loaded"
  PROVE  Cardinality(Funcs \ (iat \cup entry)) <= HookFaults
<1>1. /\ at = 15 /\ Cardinality(Unhooked(at)) <= HookFaults
      /\ "VariantInit" \in entry
  BY PlanLength DEF StartupInv, Hooking
<1>2. /\ Plan[2] = <<"patch", "ReadFile">>
      /\ Plan[3] = <<"patch", "RegCloseKey">>
      /\ Plan[6] = <<"patch", "CreateProcessW">>
      /\ Plan[10] = <<"patch", "SetSecurityInfo">>
      /\ Plan[14] = <<"patch", "GetLengthSid">>
  BY DEF Plan
<1>3. ASSUME NEW g \in Funcs \ (iat \cup entry)
      PROVE  \E j \in 1..14 : Plan[j][1] = "patch" /\ Plan[j][2] = g
  BY <1>1, <1>2 DEF Funcs
<1>4. Funcs \ (iat \cup entry) \subseteq Unhooked(at)
  BY <1>1, <1>3 DEF Unhooked
<1>5. IsFiniteSet(Funcs)
  <2> DEFINE A == {"ReadFile"}
             B == A \cup {"RegCloseKey"}
             C == B \cup {"CreateProcessW"}
             D == C \cup {"VariantInit"}
             E == D \cup {"SetSecurityInfo"}
             F == E \cup {"GetLengthSid"}
  <2>1. IsFiniteSet(A)
    BY FS_Singleton
  <2>2. IsFiniteSet(B) /\ IsFiniteSet(C) /\ IsFiniteSet(D) /\ IsFiniteSet(E)
        /\ IsFiniteSet(F)
    <3> HIDE DEF A
    <3>1. IsFiniteSet(B)
      BY <2>1, FS_AddElement
    <3> HIDE DEF B
    <3>2. IsFiniteSet(C)
      BY <3>1, FS_AddElement
    <3> HIDE DEF C
    <3>3. IsFiniteSet(D)
      BY <3>2, FS_AddElement
    <3> HIDE DEF D
    <3>4. IsFiniteSet(E)
      BY <3>3, FS_AddElement
    <3> HIDE DEF E
    <3>5. IsFiniteSet(F)
      BY <3>4, FS_AddElement
    <3> QED BY <3>1, <3>2, <3>3, <3>4, <3>5
  <2>3. F = Funcs
    BY DEF Funcs
  <2> QED BY <2>2, <2>3
<1>6. IsFiniteSet(Unhooked(at))
  <2>1. Unhooked(at) \subseteq Funcs
    BY DEF Unhooked
  <2> QED BY <1>5, <2>1, FS_Subset
<1>7. /\ Cardinality(Funcs \ (iat \cup entry)) <= Cardinality(Unhooked(at))
      /\ Cardinality(Funcs \ (iat \cup entry)) \in Nat
      /\ Cardinality(Unhooked(at)) \in Nat
  BY <1>4, <1>6, FS_Subset, FS_CardinalityType
<1> QED BY <1>1, <1>7, HookFaultsAssumption

\* When inject.exe has resumed the service, every function that could be hooked
\* is, with the made-up identity, or, without the library, none is: whatever
\* fails or is killed meanwhile.
THEOREM AllOrNothing == Spec => []AllHooksOrNone
<1>1. IInv => AllHooksOrNone
  <2> SUFFICES ASSUME IInv, main
               PROVE  \/ load = "missing" /\ iat \cup entry = {}
                      \/ /\ load = "loaded" /\ mem.initialized
                         /\ Cardinality(Funcs \ (iat \cup entry)) <= HookFaults
    BY DEF AllHooksOrNone
  <2>1. CASE load = "missing"
    BY <2>1 DEF IInv, StartupInv, Hooking
  <2>2. CASE load = "loaded"
    BY <2>2, WithoutHook DEF IInv
  <2> QED BY <2>1, <2>2 DEF IInv, StartupInv, Loading
<1> QED BY <1>1, Invariance, PTL

\* At every step of their installation hooks call the original function, not
\* themselves and not a null pointer, however many functions cannot be hooked;
\* those that have none yet are the ones whose hooks look.
THEOREM OriginalsReached == Spec => []HooksReachOriginals
<1>1. IInv => HooksReachOriginals
  BY DEF IInv, StartupInv, Hooking
<1> QED BY <1>1, Invariance, PTL

\* A launcher that returns leaves nothing but a service it never found.
THEOREM NothingLeft == Spec => []NoneLeft
<1>1. IInv => NoneLeft
  BY DEF IInv, StartupInv, Ending
<1> QED BY <1>1, Invariance, PTL

\* The service is always shown the same GUID and MAC, besides GUIDs that it
\* named itself.
THEOREM SameIdentity == Spec => []IdentityStable
<1>1. IInv => IdentityStable
  BY DEF IInv, AdapterInv, Shown
<1> QED BY <1>1, Invariance, PTL

\* For addresses of any width and any commands, what the bridge has configured
\* and is not in doubt is what the hooked functions report.
THEOREM BridgeInStep == Spec => []BridgeAgrees
<1>1. IInv => BridgeAgrees
  <2> SUFFICES ASSUME IInv PROVE BridgeAgrees
    OBVIOUS
  <2>1. AdapterTypes /\ Known /\ mem.mask \in Masks
    BY DEF IInv, AdapterInv, AdapterTypes, MemType
  <2>2. "v4" \notin doubt =>
          /\ bridge.v4[1] = GetAdaptersInfo(mem).addr
          /\ PrefixToMask(bridge.v4[2]) = WbemClassGet(mem).mask
    <3>1. PrefixToMask(MaskToPrefix(mem.mask)) = mem.mask
      BY <2>1, MaskThereAndBack
    <3> QED BY <2>1, <3>1 DEF Known, GetAdaptersInfo, WbemClassGet
  <2>3. "v6" \notin doubt /\ mem.six.len = NIL =>
          GetAdaptersAddresses(mem).six \in bridge.v6
    <3>1. mem.six \in Texts6 => mem.six # NIL
      BY AdapterAssumption
    <3> QED BY <2>1, <3>1 DEF Known, GetAdaptersAddresses, Reported6, Prefix6
  <2>4. "mac" \notin doubt => bridge.mac = WbemClassGet(mem).mac
    BY <2>1 DEF Known, WbemClassGet
  <2> QED BY <2>2, <2>3, <2>4 DEF BridgeAgrees
<1> QED BY <1>1, Invariance, PTL
=============================================================================
