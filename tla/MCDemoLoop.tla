------------------------------ MODULE MCDemoLoop ------------------------------
(* The instance of the closed loop for TLC: the demonstration as it ships. *)
EXTENDS DemoSafety

\* A scale of the deployment that crashes, and a restart that repairs nothing.
OddReports ==
    {Shell("high_cpu", "crash-demo"), Shell("crashloop_backoff", "cert-demo"),
     Shell("high_memory", "cpu-demo")}
=============================================================================
