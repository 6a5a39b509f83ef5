--------------------------- MODULE MCNetworkGate ---------------------------
(***************************************************************************)
(* An instance of NetworkGate for TLC: the three platforms, which differ   *)
(* in how a source is opened, and a transfer of two requests.              *)
(***************************************************************************)
EXTENDS NetworkInvariant

Every == {"linux", "windows", "mac"}
All   == {"absent", "fail", "ask", "crash", "bus"}
=============================================================================
