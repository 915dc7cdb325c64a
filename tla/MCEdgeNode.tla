----------------------------- MODULE MCEdgeNode -----------------------------
(* Instances of EdgeNode for TLC.  The families share no state. *)
EXTENDS EdgeNode

Machine == {"edgeNetwork", "edgeNetworkDNS", "undeployDNS", "edgeStoragePool",
            "undeployPool", "undeployNetwork", "onPrem", "undeployOnPrem",
            "ven", "undeployVen"}
Onboarding == {"onboard", "onboardStream"}
AllCommands ==
    {Machine, Onboarding, DOMAIN Program \ (Machine \cup Onboarding)}
=============================================================================
