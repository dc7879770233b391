----------------------------- MODULE PatchedDevice -----------------------------
(***************************************************************************)
(* What becomes of a shipped image: it is installed and the device boots   *)
(* it, or it is handed to the tool a second time.                          *)
(*                                                                         *)
(* The launcher script starts systemd-inhibit, which starts Evil (through  *)
(* env).  The dynamic linker loads what LD_PRELOAD names into every        *)
(* program it starts, and libnam_preload's constructor                     *)
(* (patch/nam_preload.cpp) runs there before main.  Evil calls process()   *)
(* of a pedal through its vtable and, if hijacked, through the trampoline  *)
(* (patch/trampoline_gonk.S).  The shell, systemd-inhibit, env and Evil    *)
(* itself are external.                                                    *)
(***************************************************************************)
EXTENDS PatchPipeline

CONSTANTS MaxRounds,   \* how often the tool is run on its own output
          MaxStarts    \* how often the device starts Evil

VARIABLES round,       \* runs of the tool so far
          requested,   \* what the installed image was built for
          installed,   \* the root file system on the device
          exe,         \* the program the main process executes
          line,        \* the line of the launcher it executes
          environ,     \* hook slot variables in its environment, by name
          program,     \* the binary that was loaded
          atMain,      \* the constructors are done
          helper,      \* environment of a child process of Evil
          writes,      \* stores into hook slots: program, address, value
          starts       \* starts of Evil so far

deviceVars == <<round, requested, installed, exe, line, environ, program,
                atMain, helper, writes, starts>>

allVars == <<vars, deviceVars>>

\* The binary at /usr/Evil/Evil of a stock image, if it holds one.
StockBinaries ==
    {x.elf : x \in {Dump(OldImage(s).of, "Evil", "Evil") :
                       s \in {t \in Stocks : /\ Parses(t) /\ HasImages(Props(t))
                                             /\ OldImage(t).kind = "xz"
                                             /\ Exists(OldImage(t).of, "Evil", "Evil")
                                             /\ Dump(OldImage(t).of, "Evil", "Evil").kind = "elf"}}}

\* Stock binaries carry no trampoline (images the tool has made come in
\* through PatchAgain) and none of the functions the table names lies in the
\* dead space behind the code.  A binary is of one device, and the one that
\* has its first pedal has the vtable of the second, too.
ASSUME DeviceAssumption ==
    /\ MaxRounds \in Nat /\ MaxStarts \in Nat
    /\ \A e \in StockBinaries :
          /\ e.tramp = {}
          /\ \A m \in DOMAIN Targets, c \in CodeSegments(e) :
                \A pedal \in {Targets[m].v1, Targets[m].v2} :
                   pedal.orig \notin TrampVaddr(e, c) .. TrampVaddr(e, c) + TrampLen
          /\ \A m \in DOMAIN Targets : Holds(e, Targets[m].v1) =>
                /\ SlotFileOffset(Targets[m].v2.vtable) \in DOMAIN e.word
                /\ \A other \in DOMAIN Targets \ {m} : ~ Holds(e, Targets[other].v1)

Off == "off"

DeviceInit ==
    /\ Init
    /\ round = 1
    /\ requested = {} /\ installed = Nothing
    /\ exe = Off /\ line = Nothing /\ environ = <<>> /\ program = Nothing
    /\ atMain = FALSE /\ helper = Nothing /\ writes = {} /\ starts = 0

Pipeline == Next /\ UNCHANGED deviceVars

\* The image the tool has made is offered to it as a stock image.
PatchAgain ==
    /\ stage = "shipped" /\ round < MaxRounds /\ installed = Nothing
    /\ round' = round + 1
    /\ stage' = "read" /\ offer' = out
    /\ request' \in [model : DOMAIN Targets \cup {NoModel}, v2 : BOOLEAN]
    /\ target' = NoModel
    /\ evil' = Nothing /\ launcher' = Nothing /\ slots' = <<>> /\ fs' = Nothing
    /\ injected' = <<>> /\ built' = <<>> /\ out' = <<>>
    /\ UNCHANGED <<mishaps, requested, installed, exe, line, environ, program,
                   atMain, helper, writes, starts>>

\* The device's updater writes the root file system.
InstallUpdate ==
    /\ stage = "shipped" /\ installed = Nothing
    /\ installed' = ShippedFs
    /\ requested' = {p[1] : p \in RequestedPedals}
    /\ UNCHANGED <<vars, round, exe, line, environ, program, atMain, helper, writes, starts>>

\* The shell enters a round of the launcher's loop.
RunLauncher ==
    /\ installed # Nothing /\ exe = Off
    /\ Exists(installed, "Scripts", "evil")
    /\ Dump(installed, "Scripts", "evil").kind = "script"
    /\ line' \in Starts(Dump(installed, "Scripts", "evil").lines)
    /\ exe' = "systemd-inhibit"
    /\ environ' = <<>>
    /\ UNCHANGED <<vars, round, requested, installed, program, atMain, helper, writes, starts>>

\* exec of Evil with the environment the line sets; .bss is zero.
ExecEvil ==
    /\ exe = "systemd-inhibit" /\ starts < MaxStarts
    /\ Dump(installed, "Evil", "Evil").kind = "elf"
    /\ exe' = "Evil"
    /\ program' = Dump(installed, "Evil", "Evil").elf
    /\ environ' = line.env
    /\ atMain' = FALSE /\ writes' = {}
    /\ starts' = starts + 1
    /\ UNCHANGED <<vars, round, requested, installed, line, helper>>

Preloaded == Exists(installed, "Evil", "libnam_preload.so")
             /\ Dump(installed, "Evil", "libnam_preload.so") = PreloadLibrary

\* running_inside_evil: /proc/self/exe, not the environment, decides.
RunningInsideEvil(self) == self = "Evil"

OpensHookLibrary == Exists(installed, "Evil", "libnam_hook.so")
                    /\ Dump(installed, "Evil", "libnam_hook.so") = HookLibrary

\* The variables in the order install_nam_hooks goes through them, each with
\* the function of libnam_hook.so it gets.
HookVariables ==
    <<<<"NAML", "nam_process_naml">>, <<"NAML_TRIM_IN", "nam_set_input_trim">>,
      <<"NAML_TRIM_OUT", "nam_set_output_trim">>, <<"GONK", "nam_process_gonk">>,
      <<"GONK_V2", "nam_process_gonk">>, <<"ADDR", "nam_process">>>>

\* install_one_hook for every variable that is set.
HookWrites(self, env) ==
    {[exe |-> self, at |-> env[v[1]], value |-> v[2]] :
        v \in {w \in Range(HookVariables) : w[1] \in DOMAIN env}}

\* Variant: the constructor trusts the environment.
TrustingConstructor(self, env) ==
    IF DOMAIN env # {} /\ Preloaded /\ OpensHookLibrary THEN HookWrites(self, env) ELSE {}

\* install_nam_hooks, in whatever program the linker runs it.
Constructor(self, env) ==
    IF DOMAIN env # {} /\ Preloaded /\ RunningInsideEvil(self) /\ OpensHookLibrary
    THEN HookWrites(self, env) ELSE {}

\* LD_PRELOAD stands in the environment together with the slots; a library
\* that is missing or broken is passed over by the linker.
StartMain ==
    /\ exe = "Evil" /\ ~atMain
    /\ writes' = writes \cup Constructor("Evil", environ)
    /\ atMain' = TRUE
    /\ UNCHANGED <<vars, round, requested, installed, exe, line, environ, program, helper, starts>>

\* Evil starts another program, which inherits the environment.
SpawnHelper ==
    /\ exe = "Evil" /\ atMain /\ helper = Nothing
    /\ helper' = [kind |-> "helper", env |-> environ]
    /\ writes' = writes \cup Constructor("helper", environ)
    /\ UNCHANGED <<vars, round, requested, installed, exe, line, environ, program, atMain, starts>>

\* Evil ends or crashes; the launcher's loop starts it again.
EvilExits ==
    /\ exe = "Evil"
    /\ exe' = Off /\ environ' = <<>> /\ program' = Nothing
    /\ atMain' = FALSE /\ writes' = {} /\ helper' = Nothing
    /\ UNCHANGED <<vars, round, requested, installed, line, starts>>

DeviceNext ==
    \/ Pipeline \/ PatchAgain \/ InstallUpdate \/ RunLauncher \/ ExecEvil
    \/ StartMain \/ SpawnHelper \/ EvilExits

DeviceSpec == DeviceInit /\ [][DeviceNext]_allVars

-----------------------------------------------------------------------------
(* The call                                                                 *)

\* What the word at `at` holds in Evil's memory.
Pointer(at) == {w.value : w \in {v \in writes : v.exe = "Evil" /\ v.at = at}}

\* Where process() of a pedal ends up: at once where it always did, or in a
\* trampoline, which goes through its hook slot if that is not zero and else
\* on to the function it remembers.  {} is an address without code.
Called(pedal) ==
    LET at    == SlotFileOffset(pedal.vtable)
        entry == program.word[at]
        stock == Dump(StockFs, "Evil", "Evil").elf.word[at]
    IN  IF entry = stock THEN {"original"}
        ELSE UNION {IF Pointer(t.slot) # {} THEN Pointer(t.slot)
                    ELSE {IF t.orig = stock THEN "original" ELSE "wrong"} :
                    t \in {u \in program.tramp : u.vaddr = entry}}

Pedals == {Targets[target].v1, Targets[target].v2}

-----------------------------------------------------------------------------
(* Properties                                                               *)

\* Whatever was lost on the way, whenever Evil runs (before its constructors,
\* after them, or without a hook library) a call of either pedal's process()
\* ends in exactly one function: the pedal's own or the hook
\* (trampoline_gonk.S, nam_preload.cpp:93-120).
CallsAnswered ==
    exe = "Evil" => \A p \in Pedals : Called(p) \in {{"original"}, {"nam_process_gonk"}}

\* Without mishap, and from a healthy stock file system, every requested pedal
\* reaches the hook as soon as main runs, and no other pedal does.
HooksReached ==
    (exe = "Evil" /\ atMain /\ mishaps = {} /\ StockHealthy) =>
        \A p \in Pedals : p \in requested <=> Called(p) = {"nam_process_gonk"}

\* Constructors store into hook slots of the running Evil and nowhere else: in
\* no child process, and, whatever mishap there was on a healthy stock file
\* system, in no other word of Evil (nam_preload.cpp:53, 83).
WritesInHookSlots ==
    \A w \in writes :
        /\ w.exe = "Evil"
        /\ StockHealthy => \E t \in program.tramp : t.slot = w.at

\* An image the tool has made is never patched a second time, not even one
\* that still has its old launcher script (elf_patch.c:131,
\* launcher_script.c:140).
PatchedOnce == round > 1 => stage # "shipped"
===============================================================================
