----------------------------- MODULE MCComposer -----------------------------
(* Both shells; two mountings of the input, three words, two recordings, *)
(* two demo replies of two words, one config set after the default one.    *)
EXTENDS Composer
=============================================================================
