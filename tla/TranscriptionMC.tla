----------------------------- MODULE TranscriptionMC -----------------------------
(***************************************************************************)
(* Two files, one of which keeps its recording, and one microphone session *)
(* with a single connection.                                               *)
(***************************************************************************)
EXTENDS Transcription

CONSTANTS f1, f2, m1, k1

MCSocketOf == [k \in {k1} |-> m1]
=============================================================================
