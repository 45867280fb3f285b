--------------------------- MODULE MCReverseProxy ---------------------------
(* Small instances of ReverseProxy: two web servers.                       *)
EXTENDS ReverseProxy

TwoServers == <<1, 1>>
=============================================================================
