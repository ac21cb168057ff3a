----------------------------- MODULE MCInstaller -----------------------------
(* Values for the constants of Installer that a cfg cannot write down. *)
EXTENDS Installer

init(flags) == [verb |-> "init", flags |-> flags]
uninstall(flags) == [verb |-> "uninstall", flags |-> flags]

\* All the parts, the operator alone, Prometheus without it; all of it away, and no more
\* than the operator.
SomeCommands ==
  {init({"with-opencost"}), init({}), init({"crd-only", "with-prometheus"}),
   uninstall({"with-opencost", "with-prometheus"}), uninstall({"keep-crds"}),
   uninstall({"dry-run"})}
=============================================================================
