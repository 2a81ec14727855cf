---------------------------- MODULE ReportPromise ----------------------------
(****************************************************************************)
(* What ParamExtractor promises its caller (document/user_manual.md,        *)
(* api/results.py), without saying how it gets there: one answer to every   *)
(* request, which is either refused before anything is reported, or         *)
(* completed with one result for every call site, in address order, each    *)
(* with as many arguments as were asked for, in index order, and each of    *)
(* them an answer of one engine, never a blend.                             *)
(****************************************************************************)
EXTENDS Integers, Sequences, FiniteSets

VARIABLES
    outcome, \* "open", "refused" or "complete"
    calls,   \* the addresses of the call sites
    count,   \* the number of arguments asked for
    report   \* [call, arguments], one per site reported

vars == <<outcome, calls, count, report>>

Known(v) == v.tag # "Unknown"

IsArgument(a) ==
    /\ a.source \in {"raw", "hexrays_fallback"}
    /\ a.source = "hexrays_fallback" => Known(a.raw)
    /\ Known(a.processed) => Known(a.raw)

Init == outcome = "open" /\ report = <<>> /\ IsFiniteSet(calls) /\ calls \subseteq Int

Reported == {report[n].call : n \in DOMAIN report}

Report ==
    /\ outcome = "open"
    /\ \E site \in calls \ Reported :
          /\ \A other \in calls \ Reported : site <= other
          /\ Len(report') = Len(report) + 1
          /\ SubSeq(report', 1, Len(report)) = report
          /\ LET result == report'[Len(report) + 1]
             IN  /\ result.call = site
                 /\ DOMAIN result.arguments = 1..count
                 /\ \A k \in 1..count : /\ result.arguments[k].index = k - 1
                                        /\ IsArgument(result.arguments[k])
    /\ UNCHANGED <<outcome, calls, count>>

Refuse ==
    /\ outcome = "open" /\ report = <<>>
    /\ outcome' = "refused"
    /\ UNCHANGED <<calls, count, report>>

Complete ==
    /\ outcome = "open" /\ Reported = calls
    /\ outcome' = "complete"
    /\ UNCHANGED <<calls, count, report>>

Next == Report \/ Refuse \/ Complete

Safety == Init /\ [][Next]_vars

\* Every request is answered in the end.
Answered == <>(outcome # "open")

Spec == Safety /\ Answered

=============================================================================
