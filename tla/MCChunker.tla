------------------------------ MODULE MCChunker ------------------------------
(* A target of three bytes and lines of up to four are enough for lines    *)
(* that fill a chunk exactly, exceed it, or are refused.                   *)
EXTENDS Chunker
=============================================================================
