--------------------------- MODULE MCServerLauncher ---------------------------
(* Two connections, one with keys, an AbixIO server, a cluster and two other servers.  The *)
(* parts of the application that share state are used together, with fewer acts; the     *)
(* launched servers are probed in vain, which keeps their answers few.                    *)
EXTENDS ServerLauncher, TLC

CONSTANTS home, work, s3, other, disk, cluster

Listening(server, auto) == [listen |-> server, volumes |-> 1, auto_connect |-> auto]

MCConfigs == {Listening(s3, TRUE), Listening(other, TRUE), Listening(other, FALSE),
              [listen |-> other, volumes |-> 0, auto_connect |-> FALSE]}
MCFirst   == {[connections |-> (home :> cluster @@ work :> s3), server |-> Listening(s3, TRUE),
               keychain |-> (home :> [access |-> 1, secret |-> 1]
                             @@ work :> [access |-> None, secret |-> None])]}
MCParts   == {{"save"}, {"browse"}, {"launch"}, {"browse", "launch"}, {"save", "launch"}}
MCActs    == [p \in MCParts |-> IF p \in {{"save", "launch"}, {"browse", "launch"}} THEN 2 ELSE 3]
=============================================================================
