-------------------------- MODULE MCServerLifecycle --------------------------
(* An instance of ServerLifecycle for TLC: no file, one in order, one that says *)
(* the port twice, the last beyond a short, one whose last port is beyond 16    *)
(* bits, one without a database, one with an unusable port.                     *)
EXTENDS ServerLifecycle

CONSTANTS ip, word

Keys == {"listenip", "listenport", "mysqlhost", "mysqlport"}
Words == {ip, word}
Addresses == {ip}

Pair(k, v) == [key |-> k, value |-> v]
NoPair == Pair(Empty, Empty)
Listen(port) == <<Pair("listenip", ip), NoPair, Pair("listenport", port)>>
Mysql(host) == <<Pair("mysqlhost", host), Pair("mysqlport", 3306)>>
Again(port) == <<Pair("listenport", port)>>

ConfigFiles ==
  { Missing,
    Listen(23610) \o Mysql(ip),
    Listen(23610) \o Mysql(ip) \o Again(40000) \o Again(Empty),
    Listen(23610) \o Mysql(ip) \o Again(70000),
    Listen(23610) \o Mysql(Empty),
    Listen(word) \o Mysql(ip) }
=============================================================================
