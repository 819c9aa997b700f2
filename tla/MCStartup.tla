------------------------------ MODULE MCStartup ------------------------------
(* A rolling update: two processes of one version and one of the next. *)
EXTENDS Startup, TLC

CONSTANTS a, b, c

TwoVersions == (a :> 2) @@ (b :> 2) @@ (c :> 1)
AllAuto == (a :> "auto") @@ (b :> "auto") @@ (c :> "auto")
=============================================================================
