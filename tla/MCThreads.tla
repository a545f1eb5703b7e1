------------------------------- MODULE MCThreads -------------------------------
(* Three places where threads meet: the pool of gzip readers of a TAR        *)
(* archive, the bridges of the tunnel, and the registry of what connections  *)
(* have open.  They share no state, so that a behaviour is of one of them,   *)
(* as `part` says.                                                           *)
(*                                                                           *)
(* There are as many streams as readers: two of the same file and one of     *)
(* another, with the headers of the archive before and between them.         *)
EXTENDS GzipPool, Bridge, Registry

VARIABLE part

MCFileAt == [s \in Streams |-> IF s = "c" THEN 5 ELSE 1]
MCFileSize == [s \in Streams |-> IF s = "c" THEN 1 ELSE 2]

MCInit == part \in { "gzip", "tunnel", "registry" } /\ GzipInit /\ BridgeInit /\ RegistryInit

Only(p) == /\ part = p /\ UNCHANGED part
           /\ p # "gzip"     => UNCHANGED gzipVars
           /\ p # "tunnel"   => UNCHANGED tunVars
           /\ p # "registry" => UNCHANGED registryVars

MCNext == \/ Only("gzip")     /\ GzipNext
          \/ Only("tunnel")   /\ BridgeNext
          \/ Only("registry") /\ RegistryNext

\* Each part is fair by itself; of the registry nothing has to happen.
MCSpec == /\ MCInit /\ [][MCNext]_<< part, gzipVars, tunVars, registryVars >>
          /\ part = "gzip"   => GzipFairness
          /\ part = "tunnel" => BridgeFairness
=============================================================================
