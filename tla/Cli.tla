---------------------------------- MODULE Cli ----------------------------------
(***************************************************************************)
(* bin/ferrings.js: one run of the command line program, from its          *)
(* arguments to its exit status, with zcrx-smoke.js behind one of its      *)
(* commands.  Abstracted: what the arguments say (only the options that    *)
(* change the control flow), and what is printed (only whether a report    *)
(* is, and in which form).                                                 *)
(***************************************************************************)
EXTENDS ZcrxSmoke, FiniteSets

CONSTANTS Interfaces  \* network interfaces the host may have

VARIABLES
    step,     \* what main does next
    opts,     \* the parsed arguments
    native,   \* whether the binding loads: "untried", "loads", "fails"
    report,   \* the report of doctor, capabilities and zcrx-probe
    printed,  \* "nothing", "text" or "json"
    exit      \* exit status; Running before that

cliVars == <<step, opts, native, report, printed, exit>>
vars == <<smokeVars, cliVars>>

Running == 255

\* `ready`, `verdict` and the blockers, by where they come from; the probes.
NoReport == [ready |-> FALSE, verdict |-> "none", transport |-> FALSE,
             blockers |-> {}, probes |-> <<>>]

Commands == {"help", "version", "capabilities", "doctor", "zcrx-probe", "zcrx-smoke", "unknown"}

\* What is wrong with the arguments: nothing, something parseFlags refuses, or
\* a number out of range, which numberOption refuses later.
Faults == {"none", "flag", "number"}

Options == [command : Commands, fault : Faults, help : BOOLEAN, json : BOOLEAN,
            requireReady : BOOLEAN, requireZcrx : BOOLEAN, all : BOOLEAN,
            selfTest : BOOLEAN, smoke : Configs]

\* An option a command does not have stays unset.
Sensible(o) ==
    /\ o.command \in {"help", "version", "unknown"} =>
         ~o.help /\ ~o.json /\ o.fault # "number"
    /\ o.command \notin {"doctor", "zcrx-probe"} => ~o.requireReady
    /\ o.command # "doctor" => ~o.requireZcrx
    /\ o.command # "zcrx-probe" => ~o.all
    /\ o.command # "zcrx-smoke" => ~o.selfTest /\ o.smoke = config
    /\ o.command = "capabilities" => o.fault # "number"
    /\ o.help => ~o.json /\ ~o.requireReady /\ ~o.requireZcrx /\ ~o.all /\ ~o.selfTest
                   /\ o.smoke = config

Init ==
    /\ SmokeInit
    /\ step = "parse"
    /\ opts \in {o \in Options : Sensible(o)}
    /\ native = "untried"
    /\ report = NoReport
    /\ printed = "nothing"
    /\ exit = Running

-----------------------------------------------------------------------------
Exit(status_) == exit' = status_ /\ step' = "exit"

\* handleError: a CliError brings its exit status, anything else gives 1.
CliError(code) == Exit(code)
OtherError == Exit(1)

Continue(next) == step' = next /\ UNCHANGED exit

\* printJson, or one of the functions that print text.
PrintReport == printed' = IF opts.json THEN "json" ELSE "text"

\* parseCommand, main and parseFlags.
Parse ==
    /\ step = "parse"
    /\ \/ opts.command = "help" /\ Exit(0)
       \/ opts.command = "unknown" /\ CliError(64)
       \/ opts.command = "version" /\ Exit(IF opts.fault = "none" THEN 0 ELSE 64)
       \/ /\ opts.command \in {"capabilities", "doctor", "zcrx-probe", "zcrx-smoke"}
          /\ \/ opts.fault = "flag" /\ CliError(64)
             \/ opts.fault # "flag" /\ opts.help /\ Exit(0)
             \/ /\ opts.fault # "flag" /\ ~opts.help
                /\ IF opts.command = "doctor" /\ opts.fault = "number"
                   THEN CliError(64)
                   ELSE Continue("load")
    /\ UNCHANGED <<smokeVars, opts, native, report, printed>>

\* loadFerrings, loadZcrxSmoke: they load the binding.
Load ==
    /\ step = "load"
    /\ native' \in {"loads", "fails"}
    /\ Continue(opts.command)
    /\ UNCHANGED <<smokeVars, opts, report, printed>>

Capabilities ==
    /\ step = "capabilities"
    /\ IF native = "fails"
       THEN /\ printed' = IF opts.json THEN "json" ELSE "nothing"
            /\ OtherError
       ELSE PrintReport /\ Exit(0)
    /\ UNCHANGED <<smokeVars, opts, native, report>>

-----------------------------------------------------------------------------
(* doctor.                                                                 *)

\* buildTransportVerdict and ferrings.zcrxProbe: ready is having no blocker.
DoctorVerdict(transport, zcrx) ==
    CASE ~transport       -> "transport-blocked"
      [] transport /\ zcrx -> "ready"
      [] OTHER -> IF opts.requireZcrx THEN "zcrx-blocked" ELSE "ready-zcrx-optional-blocked"

\* Mutant: the requirement of zero-copy receive is forgotten.
ReportForgetsZcrx(transport, zcrx) ==
    [NoReport EXCEPT !.ready = transport,
                     !.verdict = DoctorVerdict(transport, zcrx),
                     !.transport = transport,
                     !.blockers = IF transport THEN {} ELSE {"transport"},
                     !.probes = <<zcrx>>]

DoctorReport(transport, zcrx) ==
    [NoReport EXCEPT !.ready = transport /\ (~opts.requireZcrx \/ zcrx),
                     !.verdict = DoctorVerdict(transport, zcrx),
                     !.transport = transport,
                     !.blockers = (IF transport THEN {} ELSE {"transport"})
                                    \cup (IF opts.requireZcrx /\ ~zcrx THEN {"zcrx"} ELSE {}),
                     !.probes = <<zcrx>>]

\* buildNativeLoadDoctorReport.
NativeLoadReport ==
    [NoReport EXCEPT !.verdict = "native-load-blocked", !.blockers = {"native"},
                     !.probes = <<FALSE>>]

\* buildDoctorReport.
Doctor ==
    /\ step = "doctor"
    /\ IF native = "fails"
       THEN report' = NativeLoadReport
       ELSE \E transport, zcrx \in BOOLEAN : report' = DoctorReport(transport, zcrx)
    /\ Continue("printDoctor")
    /\ UNCHANGED <<smokeVars, opts, native, printed>>

\* printDoctorReport prints the capabilities first: there are none when the
\* binding did not load, and reading them throws.
PrintDoctor ==
    /\ step = "printDoctor"
    /\ \/ /\ ~opts.json /\ native = "fails"
          /\ OtherError
          /\ UNCHANGED printed
       \/ /\ opts.json \/ native # "fails"
          /\ PrintReport
          /\ Continue("require")
    /\ UNCHANGED <<smokeVars, opts, native, report>>

\* --require-ready, of doctor and of zcrx-probe.
Require ==
    /\ step = "require"
    /\ IF opts.requireReady /\ ~report.ready THEN CliError(2) ELSE Exit(0)
    /\ UNCHANGED <<smokeVars, opts, native, report, printed>>

-----------------------------------------------------------------------------
(* zcrx-probe.                                                             *)

\* One probe, or with --all one for every interface listInterfaces finds; the
\* list may be empty, and then every probe is ready.
ZcrxProbe ==
    /\ step = "zcrx-probe"
    /\ \/ /\ native = "fails"
          /\ printed' = IF opts.json THEN "json" ELSE "nothing"
          /\ OtherError
          /\ UNCHANGED report
       \/ /\ native # "fails" /\ opts.fault = "number"
          /\ CliError(64)
          /\ UNCHANGED <<printed, report>>
       \/ /\ native # "fails" /\ opts.fault # "number"
          /\ \E count \in IF opts.all THEN 0 .. Cardinality(Interfaces) ELSE {1} :
             \E probes \in [1 .. count -> BOOLEAN] :
               report' = [NoReport EXCEPT !.probes = probes,
                                          !.ready = \A n \in 1 .. count : probes[n]]
          /\ PrintReport
          /\ Continue("require")
    /\ UNCHANGED <<smokeVars, opts, native>>

-----------------------------------------------------------------------------
(* zcrx-smoke.                                                             *)

Smoke ==
    /\ step = "zcrx-smoke"
    /\ \/ /\ native = "fails" \/ opts.selfTest
          /\ Exit(IF native = "fails" THEN 1 ELSE 0)
          /\ UNCHANGED smokeVars
       \/ /\ native # "fails" /\ ~opts.selfTest /\ opts.fault = "number"
          /\ CliError(64)
          /\ UNCHANGED smokeVars
       \/ /\ native # "fails" /\ ~opts.selfTest /\ opts.fault # "number"
          /\ SmokeStart(opts.smoke)
          /\ Continue("await")
    /\ UNCHANGED <<opts, native, report, printed>>

\* The promise of runZcrxHardwareSmoke settles, or the process is gone.
Settle ==
    /\ step = "await"
    /\ \/ /\ stage = "settled" /\ rejected = "none"
          /\ PrintReport /\ Exit(0)
       \/ /\ stage = "settled" /\ rejected # "none"
          /\ printed' = IF opts.json /\ rejected = "withReport" THEN "json" ELSE "nothing"
          /\ OtherError
       \/ /\ stage = "crashed"
          /\ OtherError
          /\ UNCHANGED printed
    /\ UNCHANGED <<smokeVars, opts, native, report>>

-----------------------------------------------------------------------------
CliNext ==
    \/ Parse \/ Load \/ Capabilities \/ Doctor \/ PrintDoctor \/ Require
    \/ ZcrxProbe \/ Smoke \/ Settle

Next == CliNext \/ (SmokeNext /\ UNCHANGED cliVars)

Spec == Init /\ [][Next]_vars

\* The program goes on, and timers fire; that an answer comes is not assumed.
FairSpec == Spec /\ WF_vars(CliNext) /\ WF_vars(SmokeStep /\ UNCHANGED cliVars)

-----------------------------------------------------------------------------
(* Properties.                                                             *)

\* The exit status can be trusted by a script: 0 with --require-ready means
\* ready, 2 means that a printed report says it is not; doctor's ready, its
\* verdict and its blockers say the same; and zcrx-smoke gives 0 only for a
\* test that passed or was skipped, with the report printed.
ExitTells ==
    step = "exit" =>
        /\ exit = 0 /\ opts.requireReady => opts.help \/ report.ready
        /\ exit = 2 => opts.requireReady /\ ~report.ready /\ printed # "nothing"
        /\ opts.command = "doctor" /\ report # NoReport =>
             /\ report.ready <=> report.blockers = {}
             /\ report.ready <=> report.verdict \in {"ready", "ready-zcrx-optional-blocked"}
             /\ report.ready /\ opts.requireZcrx => report.probes = <<TRUE>>
        /\ stage # "idle" /\ exit = 0 => status \in {"passed", "skipped"} /\ printed # "nothing"
        /\ status \in {"passed", "skipped"} /\ exit # 0 => config.reportPath = "broken"

\* The program comes to its exit status, whether or not a request of the smoke
\* test is answered.  (main sets process.exitCode and returns; a programmable
\* server that an assertion of the smoke test left running holds the process.)
RunEnds == <>(step = "exit")
=============================================================================
