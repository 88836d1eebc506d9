------------------------------- MODULE MCImgd -------------------------------
(* Instances of Imgd. *)
EXTENDS Imgd

\* The boot loader looks for a file of its own first, which is not there.
Loader == <<"uuid", "kernel", "initrd">>
Short  == <<"kernel", "initrd">>
Single == <<"initrd">>

\* A name reads as a number like any other: here as that of the last chunk.
LastChunk == [f \in Files |-> Chunks]
=============================================================================
