------------------------------ MODULE MCTracer ------------------------------
(***************************************************************************)
(* Two threads, and lines of one and of two units; two units are the       *)
(* threshold and six the buffer of a stream.                               *)
(***************************************************************************)
EXTENDS Tracer

CONSTANTS t1, t2

MCThreads == {t1, t2}
=============================================================================
