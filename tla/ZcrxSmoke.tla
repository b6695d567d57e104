------------------------------- MODULE ZcrxSmoke -------------------------------
(***************************************************************************)
(* zcrx-smoke.js: the hardware test of zero-copy receive.  It looks for a  *)
(* reason not to start, checks that the traffic would go through the       *)
(* selected interface, probes it, runs one server after the other with one *)
(* request each, and compares the counters of the receive queue before and *)
(* after.  What the host, the network and the NIC do is chosen when the    *)
(* test meets it.  Abstracted: addresses, routes and counters (only what   *)
(* the test concludes from them), the contents of requests, the report's   *)
(* wording.                                                                *)
(***************************************************************************)
EXTENDS Naturals, Sequences

CONSTANTS ReportPaths  \* what can be asked of the report file: "none" (no
                       \* file), "good", "broken" (cannot be written)

VARIABLES
    stage,      \* what the test does next
    config,     \* normalizeSmokeOptions
    status,     \* report.status
    smokes,     \* report.smokes: status of every server started so far
    running,    \* the server that is running, or "none"
    before,     \* whether the counters could be read before the traffic
    rose,       \* whether a counter of the queue went up
    through,    \* servers whose request came in by zero-copy receive
    written,    \* the report is in its file
    rejected    \* error the promise is rejected with

smokeVars == <<stage, config, status, smokes, running, before, rose, through, written, rejected>>

Servers == <<"http", "native-echo", "programmable-tcp">>
ServerNames == {Servers[n] : n \in 1 .. Len(Servers)}

\* Where connectHost comes from decides whether the test may run.
SmokeHosts == {"default", "loopback", "wildcard", "unresolvable", "elsewhere", "routed"}

\* badEnv: a ZCRX_* variable holds a number out of range.
Configs == [interface : BOOLEAN, host : SmokeHosts, requireStats : BOOLEAN,
            reportPath : ReportPaths, badEnv : BOOLEAN]

SmokeInit ==
    /\ stage = "idle"
    /\ config = [interface |-> FALSE, host |-> "default", requireStats |-> FALSE,
                 reportPath |-> "none", badEnv |-> FALSE]
    /\ status = "running"
    /\ smokes = <<>>
    /\ running = "none"
    /\ before = FALSE /\ rose = FALSE
    /\ through = {}
    /\ written = FALSE
    /\ rejected = "none"

\* The catch block: the report is attached to the error.
SmokeFails ==
    /\ stage' = "finally"
    /\ status' = "failed"
    /\ rejected' = "withReport"

Proceed(next) ==
    /\ stage' = next
    /\ UNCHANGED <<status, rejected>>

Quiet == UNCHANGED <<config, smokes, running, before, rose, through, written>>

\* runZcrxHardwareSmoke is called: normalizeSmokeOptions may throw before
\* there is a report.
SmokeStart(given) ==
    /\ stage = "idle"
    /\ config' = given
    /\ stage' = (IF given.badEnv THEN "settled" ELSE "start")
    /\ rejected' = (IF given.badEnv THEN "withoutReport" ELSE "none")
    /\ UNCHANGED <<status, smokes, running, before, rose, through, written>>

\* Without an interface the test is skipped; zcrxTrafficRouteBlocker.
CheckConfig ==
    /\ stage = "start"
    /\ \/ /\ ~config.interface
          /\ stage' = "finally" /\ status' = "skipped"
          /\ UNCHANGED rejected
       \/ config.interface /\ config.host \in {"default", "loopback", "wildcard"} /\ SmokeFails
       \/ /\ config.interface /\ config.host \notin {"default", "loopback", "wildcard"}
          /\ Proceed("route")
    /\ Quiet

\* validateZcrxTrafficRoute: the name resolves, not to loopback, and `ip route
\* get` names the selected interface.
ValidateRoute ==
    /\ stage = "route"
    /\ IF config.host = "routed" THEN Proceed("probe") ELSE SmokeFails
    /\ Quiet

\* zcrxProbe with an active registration: only that one must succeed, other
\* blockers become a warning.
Probe ==
    /\ stage = "probe"
    /\ Proceed("before") \/ SmokeFails
    /\ Quiet

\* readSelectedRxQueueCounters, before any traffic.
ReadBefore ==
    /\ stage = "before"
    /\ \E available \in BOOLEAN :
        /\ before' = available
        /\ IF available \/ ~config.requireStats THEN Proceed("server") ELSE SmokeFails
    /\ UNCHANGED <<config, smokes, running, rose, through, written>>

\* The next of smokeHttp, smokeNativeEcho and smokeProgrammableTcp: its server
\* starts; or start throws and there is nothing to stop; or the server starts
\* and an assertion about what start returned fails, before the try whose
\* finally would stop it and before the smoke is in the report.
StartServer ==
    /\ stage = "server" /\ Len(smokes) < Len(Servers)
    /\ LET name == Servers[Len(smokes) + 1] IN
       \/ /\ running' = name
          /\ smokes' = Append(smokes, "running")
          /\ Proceed("request")
       \/ SmokeFails /\ UNCHANGED <<running, smokes>>
       \/ running' = name /\ SmokeFails /\ UNCHANGED smokes
    /\ UNCHANGED <<config, before, rose, through, written>>

\* requestHttp, tcpRoundTrip: an answer comes, by way of the zero-copy ring of
\* the selected queue or not, and counts there or not.
Answer ==
    /\ stage = "request"
    /\ \E zerocopy, counted \in BOOLEAN, right \in BOOLEAN :
        /\ through' = IF zerocopy THEN through \cup {running} ELSE through
        /\ rose' = (rose \/ counted)
        /\ stage' = IF right THEN "stats" ELSE "stopFailed"
    /\ UNCHANGED <<config, status, smokes, running, before, written, rejected>>

\* Mutant: only the HTTP request has its timer.
NoAnswerHttp ==
    /\ stage = "request" /\ running = "http"
    /\ stage' = "stopFailed"
    /\ UNCHANGED <<config, status, smokes, running, before, rose, through, written, rejected>>

\* withTimeout, or an error of the connection.
NoAnswer ==
    /\ stage = "request"
    /\ stage' = "stopFailed"
    /\ UNCHANGED <<config, status, smokes, running, before, rose, through, written, rejected>>

\* The request arrives in pieces: the assertion in the event callback of the
\* programmable server fails outside of any promise.
Crash ==
    /\ stage = "request" /\ running = "programmable-tcp"
    /\ stage' = "crashed"
    /\ running' = "none"
    /\ UNCHANGED <<config, status, smokes, before, rose, through, written, rejected>>

\* The finally block of a smoke: its server is stopped.
StopServer(result) ==
    /\ smokes' = [smokes EXCEPT ![Len(smokes)] = result]
    /\ running' = "none"
    /\ UNCHANGED <<config, before, rose, through, written>>

\* assertZcrxTransportStats.
StatsPass == running \in through

\* Mutant: an answer is enough.
CheckNothing ==
    /\ stage = "stats"
    /\ Proceed("server") /\ StopServer("passed")

CheckStats ==
    /\ stage = "stats"
    /\ \/ StatsPass /\ Proceed("server") /\ StopServer("passed")
       \/ ~StatsPass /\ SmokeFails /\ StopServer("failed")

\* Mutant: the server is stopped at the end of try, not in finally.
StopOnlyPassed ==
    /\ stage = "stopFailed"
    /\ SmokeFails
    /\ smokes' = [smokes EXCEPT ![Len(smokes)] = "failed"]
    /\ UNCHANGED <<config, running, before, rose, through, written>>

StopFailed ==
    /\ stage = "stopFailed"
    /\ SmokeFails /\ StopServer("failed")

\* diffCounters after all three: only where they could be read before.  They
\* may have become unreadable, which leaves no increase.
ReadAfter ==
    /\ stage = "server" /\ Len(smokes) = Len(Servers)
    /\ \/ /\ before => rose
          /\ stage' = "finally" /\ status' = "passed"
          /\ UNCHANGED rejected
       \/ before /\ SmokeFails
    /\ Quiet

\* writeReport in the finally block: an error of it replaces what the promise
\* would have said, also a failure with its report.
Finally ==
    /\ stage = "finally"
    /\ stage' = "settled"
    /\ written' = (config.reportPath = "good")
    /\ rejected' = IF config.reportPath = "broken" THEN "withoutReport" ELSE rejected
    /\ UNCHANGED <<config, status, smokes, running, before, rose, through>>

\* What the test does by itself; NoAnswer is its timer.
SmokeStep ==
    \/ CheckConfig \/ ValidateRoute \/ Probe \/ ReadBefore \/ StartServer
    \/ NoAnswer \/ CheckStats \/ StopFailed \/ ReadAfter \/ Finally

SmokeNext == SmokeStep \/ Answer \/ Crash

\* A report that says "passed" has the evidence: every server got its request
\* by zero-copy receive on the selected route, none is left running, and the
\* queue's counters rose wherever they could be read, which they could if it
\* was required.
PassedIsMeasured ==
    status = "passed" =>
        /\ config.interface /\ config.host = "routed"
        /\ through = ServerNames
        /\ smokes = [n \in 1 .. Len(Servers) |-> "passed"]
        /\ running = "none"
        /\ before => rose
        /\ config.requireStats => before

\* Whatever fails once a smoke is in the report, its server is stopped and its
\* outcome noted by the time the next one starts or the test ends.  A server
\* that an assertion left running before that is not in the report.
ReportedAreStopped ==
    stage \in {"server", "finally", "settled"} =>
        \A n \in 1 .. Len(smokes) : smokes[n] # "running" /\ running # Servers[n]
=============================================================================
