---------------------------- MODULE MCWavPlayer ----------------------------
(***************************************************************************)
(* Values for the constants of WavPlayer: files that are longer and        *)
(* shorter than the ALSA buffer, and files that cannot be played.          *)
(***************************************************************************)
EXTENDS WavPlayer, TLC

CONSTANTS long, short, odd, bad, missing   \* names of files

Kinds ==
  [f \in File |-> CASE f = bad -> "bad" [] f = missing -> "missing" [] OTHER -> "wave"]

\* Bytes; with a buffer of four frames, long has seven frames, short one, and
\* odd has two and a byte.
FileBytes ==
  [f \in File |-> CASE f = long -> 14 [] f = short -> 2 [] f = odd -> 5 [] OTHER -> 0]

\* What may go wrong (a bound)
Everything == {"calloc", "fopen", "underrun", "suspend", "prepare"}
=============================================================================
