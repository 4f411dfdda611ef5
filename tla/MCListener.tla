----------------------------- MODULE MCListener -----------------------------
(* Two receivers of one channel and one of another.                         *)
EXTENDS Listener, TLC
CONSTANTS s1, s2, s3

MCSubs == {s1, s2, s3}
MCChan == s1 :> "session_event" @@ s2 :> "session_event" @@ s3 :> "task_queued"
=============================================================================
