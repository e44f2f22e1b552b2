--------------------------- MODULE MCSocksSession ---------------------------
(* Destinations and rules for SocksSession: 0.0.0.1 is what SOCKS4A clients     *)
(* that give a name ask for.                                                    *)
EXTENDS SocksSession

SomeAddresses == {<<0, 0, 0, 1>>, <<140, 113, 1, 1>>, <<140, 114, 1, 1>>}

Permit(command, pattern) == [command |-> command, pattern |-> pattern]

\* the default, the rules of the assignment, one host, and an empty file
SomeConfs == {
    {Permit("CONNECT", <<Star, Star, Star, Star>>), Permit("BIND", <<Star, Star, Star, Star>>)},
    {Permit("CONNECT", <<140, 113, Star, Star>>), Permit("BIND", <<Star, Star, Star, Star>>)},
    {Permit("CONNECT", <<140, 114, 1, 1>>)},
    {} }
=============================================================================
