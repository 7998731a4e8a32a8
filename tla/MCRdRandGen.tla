----------------------------- MODULE MCRdRandGen -----------------------------
(***************************************************************************)
(* RdRandGen for TLC.  The C ranges are scaled down together: size_t has   *)
(* 64 values, unsigned int 8, K is 2 and T is 16, so that a suffix can     *)
(* push a number past size_t and a thread count past unsigned int.  The    *)
(* key lengths are those of the code.                                      *)
(***************************************************************************)
EXTENDS RdRandGen

MCAmountArgs == {-1, 0, 1, 3, 6, 7, 9, 19, 38, 127, 128}
MCThreadArgs == {-1, 0, 1, 2, 3, 5, 6, 10}

(* Empty; too short; too short for OpenSSL; a nonce of half bytes; keys of  *)
(* 8 bytes; of 8 and one digit more; of 16 bytes; lines too long.         *)
MCDigitCounts == {0, 9, 12, 15, 24, 25, 48, 65, 66}
=============================================================================
