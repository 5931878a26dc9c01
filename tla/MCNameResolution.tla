-------------------------- MODULE MCNameResolution --------------------------
(* Two interfaces, one of them with an IPv6 address and two IPv4 addresses; *)
(* a host that lmHosts knows, one it does not, and an address.             *)
EXTENDS NameResolution, TLC

CONSTANTS listed, unlisted, here, there

OneListed == (listed :> there) @@ (unlisted :> None) @@ (here :> None)

TwoInterfaces == << [name |-> "eth0", isIpv4 |-> FALSE], [name |-> "eth0", isIpv4 |-> TRUE],
                    [name |-> "eth0", isIpv4 |-> TRUE], [name |-> "wlan0", isIpv4 |-> TRUE] >>
=============================================================================
