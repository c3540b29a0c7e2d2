-------------------------- MODULE MCLanguageServer --------------------------
(* Two projects, one of two contracts, the other of one. *)
EXTENDS LanguageServer, TLC

CONSTANTS ca, cb, m1, m2, plain, simnet, bad

Project(contracts, boots, version, deployer, settings, remote) ==
    [contracts |-> contracts, boots |-> boots, version |-> version, deployer |-> deployer,
     settings |-> settings, remote |-> remote]

MCProjects ==
    (m1 :> {Project({ca}, {}, 1, "d1", "s1", FALSE), Project({}, {ca}, 2, "d1", "s2", FALSE)}) @@
    (m2 :> {Project({cb}, {}, 1, "d1", "s1", FALSE), Project({cb}, {}, 1, "d2", "s1", TRUE)})
MCFirst ==
    (m1 :> Project({ca}, {}, 1, "d1", "s1", FALSE)) @@ (m2 :> Project({cb}, {}, 1, "d1", "s1", FALSE))

\* The second contract is in both projects, at first.
MCShared ==
    (m1 :> {Project({ca, cb}, {}, 1, "d1", "s1", FALSE)}) @@
    (m2 :> {Project({cb}, {}, 1, "d1", "s1", FALSE), Project({}, {}, 1, "d1", "s1", FALSE)})
MCSharedFirst ==
    (m1 :> Project({ca, cb}, {}, 1, "d1", "s1", FALSE)) @@ (m2 :> Project({cb}, {}, 1, "d1", "s1", FALSE))
MCHome == (ca :> m1) @@ (cb :> m2)

=============================================================================
