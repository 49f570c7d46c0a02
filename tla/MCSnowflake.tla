----------------------------- MODULE MCSnowflake -----------------------------
(* Snowflake ids at a scaled width of 7 bits: 4 timestamp bits, 1 node    *)
(* bit and 2 sequence bits (MAX_SEQ_ID = 3), the code's 40/10/14 split    *)
(* in miniature.  The sign bit is reached at timestamp 2^(TsBits-1) = 8.  *)
EXTENDS Snowflake
=============================================================================
