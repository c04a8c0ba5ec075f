---------------------------- MODULE MCIpcServers ----------------------------
(* IpcServers for TLC: servers are numbers, so that configurations are sequences. *)
EXTENDS IpcServers, TLC

\* Servers 1 and 3 use one port, one after the other; keys and files are their own.
OwnPorts == <<1, 2, 1>>
OwnKeys == <<1, 2, 3>>
OwnFiles == <<1, 2, 3>>
CONSTANTS c1, c2
OwnCasts == {{1, 2, c1}, {1, 3, c1}, {1, c1, c2}}
OwnFailures == ({2} \X {"listening", "accepted"})
                 \union ({3} \X {"off", "allocated", "opened", "published", "waiting"})

\* A server and its next run, with one configuration.
OnePort == <<1, 1>>
OneKey == <<1, 1>>
OneFile == <<1, 1>>
BothServers == {{1, 2}}
NoFailure == {}

=============================================================================
