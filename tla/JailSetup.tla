----------------------------- MODULE JailSetup -----------------------------
(***************************************************************************)
(* child_main from do_mounts to execvp: the mounts, the new root, Landlock *)
(* and the seccomp filter, in that order, and then one system call of the  *)
(* payload under the filter.  Scenes are the command lines with the call   *)
(* that is made.                                                           *)
(***************************************************************************)
EXTENDS JailView, SeccompFilter

CONSTANT Scenes      \* records [opt, call]

vars == <<jailVars, filterVars>>

Init == \E s \in Scenes : JailInit(s.opt) /\ FilterInit(s.call)

\* seccomp_apply loads the program; --no-seccomp leaves it out.
Confine ==
  /\ stage = "seccomp"
  /\ stage' = IF opt.no_seccomp THEN "unfiltered" ELSE "payload"
  /\ UNCHANGED <<opt, plan, mounts, rules, kept, filterVars>>

Filtered == stage = "payload" /\ FilterNext /\ UNCHANGED jailVars

Next ==
  \/ JailNext /\ UNCHANGED filterVars
  \/ Confine
  \/ Filtered

Spec == Init /\ [][Next]_vars
=============================================================================
