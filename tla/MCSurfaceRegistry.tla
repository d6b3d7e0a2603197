-------------------------- MODULE MCSurfaceRegistry -------------------------
(* Two threads of one process and one of another.                          *)
EXTENDS SurfaceRegistry, TLC

CONSTANTS t1, t2, t3, maker, viewer

ThreadSet    == {t1, t2, t3}
ProcessTable == t1 :> maker @@ t2 :> maker @@ t3 :> viewer
==============================================================================
