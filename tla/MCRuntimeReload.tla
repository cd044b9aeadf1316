---------------------------- MODULE MCRuntimeReload ----------------------------
(* Small instances of RuntimeReload for TLC.                                 *)
EXTENDS RuntimeReload

CONSTANTS r1, r2, s1

Config(s, t, f) == [static |-> s, tun |-> t, fwd |-> f]

(* One configuration of each kind next to a running "a": other forwarding,   *)
(* other timeouts too, a restart-only field, a graph that does not compile.  *)
MCConfigs == {Config("s", "t", "a"), Config("s", "u", "b"),
              Config("z", "t", "b"), Config("s", "t", "bad")}

MCBuildable == {"a", "b"}
===============================================================================
