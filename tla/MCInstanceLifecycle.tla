-------------------------- MODULE MCInstanceLifecycle --------------------------
(* Small instances of InstanceLifecycle for TLC. *)
EXTENDS InstanceLifecycle, TLC

Deployments == {"deploy", "undeploy", "list", "delete_rule", "import"}
CaptureOps  == {"deploy", "undeploy", "start_pcap", "stop_pcap", "delete_pcap", "list"}
Undeploying == {"deploy", "undeploy"}
AllFaults   == {"port_unavailable", "reject", "lost", "disk", "exit", "unnamed"}
NoFaults    == {}
TimedOps    == {"deploy", "undeploy", "start_pcap", "stop_pcap", "list"}
Capturing   == {"deploy", "undeploy", "start_pcap", "stop_pcap"}

\* Ids are only compared for equality.
Symmetry ==
    Permutations(Instances) \cup Permutations(Rules) \cup Permutations(Ports)
        \cup Permutations(Captures) \cup Permutations(Tasks)
===============================================================================
