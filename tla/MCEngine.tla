------------------------------ MODULE MCEngine ------------------------------
(* Small instances of Engine for TLC. *)
EXTENDS Engine, TLC

\* An image with a text beside it, a new text while the image stays, and a file list with
\* a text, which alone counts where file lists cannot be read.
MixedCopies == {[img |-> "i1", files |-> NoVal, text |-> "t1"],
                [img |-> "i1", files |-> NoVal, text |-> "t2"],
                [img |-> NoVal, files |-> <<"f1">>, text |-> "t1"]}

\* An image, and a list of a large and a small file.
BlobCopies == {[img |-> "i1", files |-> NoVal, text |-> NoVal],
               [img |-> NoVal, files |-> <<"big1", "small">>, text |-> NoVal]}

NoSends == {}

FileSends == {[kind |-> "files", val |-> "big2"]}

NoClips == {}

PeerClips == {[kind |-> "text", val |-> "r1"], [kind |-> "img", val |-> "r2"],
              [kind |-> "files", val |-> "r3"]}
=============================================================================
