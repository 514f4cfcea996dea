-------------------------- MODULE MCKuadrantFilter --------------------------
(* Small action sets that between them have every kind of action.          *)
EXTENDS KuadrantFilter, TLC

Plain(op) == [op |-> op, pred |-> "ready", expr |-> "ready", target |-> "request",
              terminal |-> FALSE, guard |-> FALSE, mode |-> "allow"]
Guard(mode) == [Plain("grpc") EXCEPT !.guard = TRUE, !.mode = mode]
DenyAction == [Plain("deny") EXCEPT !.terminal = TRUE]
Set(actions, tracing) == [actions |-> actions, tracing |-> tracing]

\* Authorization, then a rate limit whose reply sets response headers.
AuthThenRateLimit ==
    Set((<<1>> :> Guard("deny")) @@ (<<1, 1>> :> DenyAction) @@ (<<1, 2>> :> Plain("store"))
        @@ (<<2>> :> Guard("allow"))
        @@ (<<2, 1>> :> [Plain("headers") EXCEPT !.target = "response"]), "off")

\* A check, then a report that reads the response body, with tracing.
CheckThenReport ==
    Set((<<1>> :> Guard("allow"))
        @@ (<<2>> :> [Plain("grpc") EXCEPT !.expr = "response_body", !.mode = "deny"]), "export")

\* A guard whose reply makes a nested guard call while the next one runs.
NestedGuard ==
    Set((<<1>> :> Guard("allow")) @@ (<<1, 1>> :> Guard("deny")) @@ (<<2>> :> Guard("deny")), "off")

\* A call that does not guard the request before one that does.
LateGuard == Set((<<1>> :> Plain("grpc")) @@ (<<2>> :> Guard("deny")), "header")

\* A terminal call in a reply: its answer is never awaited.
TerminalCall ==
    Set((<<1>> :> Guard("allow")) @@ (<<1, 1>> :> [Guard("allow") EXCEPT !.terminal = TRUE]), "export")

\* No gRPC action at all.
Local ==
    Set((<<1>> :> DenyAction)
        @@ (<<2>> :> [Plain("headers") EXCEPT !.target = "response", !.terminal = TRUE])
        @@ (<<3>> :> [Plain("store") EXCEPT !.pred = "response_headers"]), "off")

\* The fallback set of a configuration with a header identifier.
DevMode == Set(<<>>, "header")

\* Two calls in a reply, the first with a reply of its own, and a last call
\* that waits for the response headers; traced.
Deep ==
    Set((<<1>> :> Guard("deny"))
        @@ (<<1, 1>> :> Guard("allow")) @@ (<<1, 1, 1>> :> Plain("grpc"))
        @@ (<<1, 2>> :> Plain("grpc"))
        @@ (<<2>> :> Plain("grpc")) @@ (<<2, 1>> :> DenyAction)
        @@ (<<3>> :> [Guard("allow") EXCEPT !.pred = "response_headers"]), "export")

\* Predicates on data that the filter never sees, or not for this action.
Unseen ==
    Set((<<1>> :> [Plain("store") EXCEPT !.pred = "request_body"])
        @@ (<<2>> :> Guard("deny"))
        @@ (<<3>> :> [Plain("headers") EXCEPT !.pred = "response_body"]), "off")

\* Actions that may fail where no failure mode applies, before one that
\* depends on them.
ReportThenCall ==
    Set((<<1>> :> [Plain("grpc") EXCEPT !.pred = "response_body"]) @@ (<<2>> :> Plain("grpc")), "off")

AllBlueprints ==
    {AuthThenRateLimit, CheckThenReport, NestedGuard, LateGuard, TerminalCall, Local, DevMode,
     Deep, Unseen, ReportThenCall}

CheckBlueprints == {CheckThenReport}

ReportBlueprints == {ReportThenCall}
=============================================================================
