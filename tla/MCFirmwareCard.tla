--------------------------- MODULE MCFirmwareCard ---------------------------
(***************************************************************************)
(* FirmwareCard for model checking: the image that runs, and a release     *)
(* that can also be uploaded from a file.                                  *)
(***************************************************************************)
EXTENDS FirmwareCard

Img(a, f, b) == [app |-> a, fw |-> f, build |-> b]
MCFactory    == Img("a0", "v0", "b0")
MCRelease    == Img("a1", "v1", "b1")
MCImage      == {MCFactory, MCRelease}
MCFile       == {[img |-> MCRelease, big |-> FALSE, magic |-> TRUE, desc |-> TRUE, chip |-> TRUE]}
=============================================================================
