--------------------------- MODULE MCGroupSecrets ---------------------------
(* A small instance of GroupSecrets: one external pre-shared key, of which  *)
(* one client has another value.                                           *)
EXTENDS GroupSecrets

CONSTANTS a, b, c

MCClients == {a, b, c}
MCInvited == {<<b, 1>>}
MCKeyPackages == {<<b, 2>>, <<c, 1>>}
MCPskStore == [m \in MCClients |-> [id \in {"psk"} |-> IF m = c THEN <<2>> ELSE <<1>>]]

=============================================================================
