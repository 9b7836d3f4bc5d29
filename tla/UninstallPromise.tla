-------------------------- MODULE UninstallPromise --------------------------
(***************************************************************************)
(* What the trigger-uninstall command promises, in terms of the finalizers *)
(* on the policies and of the stage the command has reached; module        *)
(* TriggerUninstall has the command and the controller.                    *)
(***************************************************************************)
EXTENDS Naturals, Sequences

CONSTANT Policies

VARIABLES
    policies, \* the policies on the API server, with their finalizers in order
    tpc,      \* the stage of TriggerUninstall, "done" without an error
    slipped   \* history: got the finalizer when the Deployment was annotated

Own == "prune-object"
HasOwn(policy) == \E i \in 1 .. Len(policy.fins) : policy.fins[i] = Own

\* When TriggerUninstall returns without an error, the controller's finalizer
\* is on no policy in any of the namespaces, but for the evaluations that had
\* not seen the Deployment's annotation when they put it there.
DoneMeansClean ==
    tpc = "done" => \A p \in Policies : HasOwn(policies[p]) => p \in slipped
=============================================================================
