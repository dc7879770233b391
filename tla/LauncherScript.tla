---------------------------- MODULE LauncherScript ----------------------------
(***************************************************************************)
(* The launcher script of the device (core/launcher_script.c) as a         *)
(* sequence of lines.  Only the kind of a line counts:                     *)
(*   "start", "end"  the markers of a NAM-mod block                        *)
(*   "note"          the text between them                                 *)
(*   "loop"          while [ 1 ]                                           *)
(*   "exec"          systemd-inhibit ... /usr/Evil/Evil                    *)
(*   "launch"        the same through env LD_PRELOAD=... with hook slots   *)
(*   "other"         anything else                                         *)
(***************************************************************************)
EXTENDS Naturals, Sequences, FiniteSets, Functions

\* env: the hook slots the line passes on, a function from the names of the
\* variables it sets to addresses (empty for every kind but "launch").
Line(kind) == [kind |-> kind, env |-> <<>>]

LineKinds == {"start", "end", "note", "loop", "exec", "launch", "other"}

Positions(script, kind) == {i \in DOMAIN script : script[i].kind = kind}

Earliest(S) == {i \in S : \A j \in S : i <= j}

ModBlock == <<Line("start"), Line("note"), Line("end")>>

\* Lines i..j of the script replaced by the block; j = i - 1 inserts it.
WithBlock(script, i, j) ==
    SubSeq(script, 1, i - 1) \o ModBlock \o SubSeq(script, j + 1, Len(script))

\* End markers behind the first start marker.
Ends(script) ==
    {j \in Positions(script, "end") : \E i \in Earliest(Positions(script, "start")) : i < j}

\* The script with its NAM-mod block put in or renewed: a set of at most one
\* script, empty if there is neither a block nor a loop to put it before.
Commented(script) ==
    IF Ends(script) # {}
    THEN {WithBlock(script, i, j) : i \in Earliest(Positions(script, "start")),
                                    j \in Earliest(Ends(script))}
    ELSE {WithBlock(script, i, i - 1) : i \in Earliest(Positions(script, "loop"))}

Relaunched(script, i, env) ==
    [script EXCEPT ![i] = [kind |-> "launch", env |-> env]]

\* Variant: one of the exec lines is rewritten, however many there are.
AnyExecPatched(script, env) ==
    UNION {{Relaunched(s, i, env) : i \in Positions(s, "exec")} : s \in Commented(script)}

\* nam_build_launcher_script: the patched script, if the stock one has
\* exactly one exec line to rewrite; no script otherwise.
Launchers(script, env) ==
    {Relaunched(s, CHOOSE i \in Positions(s, "exec") : TRUE, env) :
        s \in {t \in Commented(script) : Cardinality(Positions(t, "exec")) = 1}}

\* A script the tool may meet: no line but a "launch" sets variables, a
\* "launch" sets none but the two the tool knows, and Evil is started either
\* directly or with hook slots, never both.
IsScript(script) ==
    /\ script \in Seq(Range(script))
    /\ \A i \in DOMAIN script :
          /\ DOMAIN script[i].env \subseteq {"GONK", "GONK_V2"}
          /\ script[i].kind # "launch" => script[i].env = <<>>
    /\ Positions(script, "exec") = {} \/ Positions(script, "launch") = {}

\* The lines that start Evil when the script is run.
Starts(script) == {script[i] : i \in Positions(script, "exec") \cup Positions(script, "launch")}
===============================================================================
