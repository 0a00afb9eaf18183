---------------------------- MODULE CommittedImage ----------------------------
(***************************************************************************)
(* What the conditional commit (DeleteTmpFileIfNotChanged, boot_image_     *)
(* utils.cc 54-75) promises the composite-disk generator, which rebuilds   *)
(* the disk, and drops userdata, whenever a component file is younger      *)
(* than the disk: the committed image is only ever replaced whole, only    *)
(* by a signed image, and its modification time moves exactly when its     *)
(* content changes.                                                        *)
(***************************************************************************)
EXTENDS Naturals

CONSTANTS
    SignedImages,   \* the images a finished repack may produce
    NoFile          \* the committed path does not exist yet

VARIABLES
    committed,      \* content of the committed image file
    mtime           \* how many times that file has been written

Init ==
    /\ committed = NoFile
    /\ mtime = 0

\* The file is replaced by a different signed image and becomes younger.
Replace ==
    /\ committed' \in SignedImages \ {committed}
    /\ mtime' = mtime + 1

Spec == Init /\ [][Replace]_<<committed, mtime>>

=============================================================================
