--------------------------- MODULE MCPolicyStatus ---------------------------
(* Small instances of PolicyStatus. *)
EXTENDS PolicyStatus

Make(n, asks, enforce, c, nc) ==
    [n |-> n, asks |-> asks, enforce |-> enforce, compliant |-> c, noncompliant |-> nc]

\* two templates with watches for one compliance only, watches, and polling
ReportSpecs == {Make(2, TRUE, TRUE, "watch", "poll"), Make(1, FALSE, FALSE, "watch", "watch"),
                Make(1, FALSE, TRUE, "poll", "poll")}
\* an enforced policy on watches, and one without templates, which is not evaluated again
SafetySpecs == {Make(1, TRUE, TRUE, "watch", "watch"), Make(0, FALSE, FALSE, "never", "watch")}
=============================================================================
