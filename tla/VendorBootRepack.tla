--------------------------- MODULE VendorBootRepack ---------------------------
(***************************************************************************)
(* RepackVendorBootImage and RepackVendorBootImageWithEmptyRamdisk         *)
(* (src/host/commands/assemble_cvd/boot_image_utils.cc), invoked again and *)
(* again on one persistent unpack directory, as assemble_cvd does on every *)
(* launch.  One invocation is a sequence of blocking external-tool steps   *)
(* (pc); between them, and inside them, a tool may fail or the process may *)
(* die, and whatever files it had written stay for the next invocation.   *)
(*                                                                         *)
(* File contents are abstracted to what they were built from: a ramdisk   *)
(* is the concatenated vendor ramdisk it came from, the kernel-modules     *)
(* ramdisk appended to it and whether it was written whole; an image is    *)
(* its ramdisk, its command line, whether bootconfig was supported, and    *)
(* its AVB footer.                                                         *)
(***************************************************************************)
EXTENDS Naturals, FiniteSets

CONSTANTS
    ModuleRamdisks, \* kernel-modules ramdisks callers pass as new_ramdisk
    NoRamdisk,      \* new_ramdisk == "" (use the vendor ramdisk as is)
    EmptyRamdisk,   \* unpack_dir/empty_ramdisk of ...WithEmptyRamdisk
    Salts,          \* the salts avbtool add_hash_footer may pick
    NoSalt,         \* no AVB footer yet
    Faults,         \* the failures the environment may inject (see below)
    MaxRuns,        \* invocations considered
    Absent          \* a file that does not exist

(***************************************************************************)
(* Faults:                                                                 *)
(*   "tool_fail"   mkbootimg, avbtool, rm, mkbootfs, lz4 exit non-zero, a  *)
(*                 checked file creation or the rename fails, or the       *)
(*                 process is killed between two steps;                    *)
(*   "unpack_fail" unpack_bootimg or cat exits non-zero, the creation of   *)
(*                 concatenated_vendor_ramdisk fails, or the process dies, *)
(*                 after vendor_boot_params was created;                   *)
(*   "torn_write"  writing vendor_ramdisk_repacked fails part-way (the     *)
(*                 stream error is not checked) or the process dies then.  *)
(***************************************************************************)
FaultKinds == {"tool_fail", "unpack_fail", "torn_write"}

ASSUME Faults \subseteq FaultKinds
ASSUME MaxRuns \in Nat
ASSUME Salts # {}

NewRamdisks == ModuleRamdisks \cup {EmptyRamdisk}

VARIABLES
    pc,                  \* step of the running invocation, "idle" between
    newRamdisk,          \* the invocation's new_ramdisk argument
    bootconfigSupported, \* the invocation's bootconfig_supported argument
    ramdiskPath,         \* "concat" or "repacked": the ramdisk it chose
    vendorBootParams,    \* unpack_dir/vendor_boot_params: Absent, "empty", "full"
    concatRamdisk,       \* unpack_dir/concatenated_vendor_ramdisk
    repackedRamdisk,     \* unpack_dir/vendor_ramdisk_repacked
    tmpImage,            \* new_vendor_boot_image_path + ".tmp"
    finalImage,          \* new_vendor_boot_image_path
    finalMtime,          \* how many times finalImage was renamed over
    runs,                \* invocations started
    result,              \* "none", "ok" or "failed": the last one's outcome
    faulted,             \* whether a fault was injected in the last one
    caller,              \* "vendor_boot" or "gem5": the last invocation's kind
    gem5Input,           \* input_ramdisk_path of the initrd, NoRamdisk if empty
    gem5Ramdisk          \* the vendor ramdisk the initrd carries, or Absent

vars == <<pc, newRamdisk, bootconfigSupported, ramdiskPath, vendorBootParams,
          concatRamdisk, repackedRamdisk, tmpImage, finalImage, finalMtime,
          runs, result, faulted, caller, gem5Input, gem5Ramdisk>>

gem5vars == <<gem5Input, gem5Ramdisk>>

Ramdisks == [base : {"full", "partial"},
             modules : NewRamdisks \cup {NoRamdisk},
             whole : BOOLEAN]

Images == [ramdisk : Ramdisks, cmdline : {"orig", "lost"},
           bootconfig : BOOLEAN, salt : Salts \cup {NoSalt}]

IsSigned(img) == img.salt # NoSalt

\* Content of concatenated_vendor_ramdisk, read as a ramdisk.
ConcatenatedRamdisk ==
    IF concatRamdisk = Absent THEN Absent
    ELSE [base |-> concatRamdisk, modules |-> NoRamdisk, whole |-> TRUE]

\* Content of the ramdisk file mkbootimg is given (lines 303-313).
ChosenRamdisk ==
    IF ramdiskPath = "repacked" THEN repackedRamdisk ELSE ConcatenatedRamdisk

\* ExtractValue(vendor_boot_params, "vendor command line args: ") finds
\* the line only in a complete unpack_bootimg report.
VendorCmdline == IF vendorBootParams = "full" THEN "orig" ELSE "lost"

Fault(kind) == kind \in Faults /\ faulted' = TRUE

\* The invocation returns false (or the process exits through CHECK).
Fail == pc' = "idle" /\ result' = "failed"

-----------------------------------------------------------------------------
Init ==
    /\ pc = "idle"
    /\ newRamdisk = NoRamdisk
    /\ bootconfigSupported = FALSE
    /\ ramdiskPath = "concat"
    /\ vendorBootParams = Absent
    /\ concatRamdisk = Absent
    /\ repackedRamdisk = Absent
    /\ tmpImage = Absent
    /\ finalImage = Absent
    /\ finalMtime = 0
    /\ runs = 0
    /\ result = "none"
    /\ faulted = FALSE
    /\ caller = "vendor_boot"
    /\ gem5Input = NoRamdisk
    /\ gem5Ramdisk = Absent

\* A new invocation with arguments rd and bc.
Begin(rd, bc) ==
    /\ pc' = "unpack"
    /\ newRamdisk' = rd
    /\ bootconfigSupported' = bc
    /\ runs' = runs + 1
    /\ faulted' = FALSE
    /\ UNCHANGED <<ramdiskPath, vendorBootParams, concatRamdisk,
                   repackedRamdisk, tmpImage, finalImage, finalMtime, result>>

\* RepackVendorBootImage(new_ramdisk, ..., bootconfig_supported).
RepackVendorBootImage ==
    /\ pc = "idle"
    /\ runs < MaxRuns
    /\ \E rd \in ModuleRamdisks \cup {NoRamdisk}, bc \in BOOLEAN : Begin(rd, bc)

\* RepackVendorBootImageWithEmptyRamdisk: an empty new_ramdisk file.
RepackVendorBootImageWithEmptyRamdisk ==
    /\ pc = "idle"
    /\ runs < MaxRuns
    /\ \E bc \in BOOLEAN : Begin(EmptyRamdisk, bc)

(***************************************************************************)
(* UnpackVendorBootImageIfNotUnpacked (lines 212-258, called at 298): the  *)
(* sentinel vendor_boot_params is created before unpack_bootimg runs and   *)
(* is left behind by every later failure.                                  *)
(***************************************************************************)
UnpackVendorBootImageIfNotUnpacked ==
    /\ pc = "unpack"
    /\ IF vendorBootParams # Absent
       THEN /\ pc' = "ramdisk"
            /\ UNCHANGED <<vendorBootParams, concatRamdisk, result, faulted>>
       ELSE \/ /\ vendorBootParams' = "full"
               /\ concatRamdisk' = "full"
               /\ pc' = "ramdisk"
               /\ UNCHANGED <<result, faulted>>
            \* SharedFD::Creat of vendor_boot_params fails.
            \/ /\ Fault("tool_fail") /\ Fail
               /\ UNCHANGED <<vendorBootParams, concatRamdisk>>
            \* unpack_bootimg fails: its report never reaches the sentinel.
            \/ /\ Fault("unpack_fail") /\ Fail
               /\ vendorBootParams' = "empty"
               /\ UNCHANGED concatRamdisk
            \* Creat of concatenated_vendor_ramdisk fails, or cat fails.
            \/ /\ Fault("unpack_fail") /\ Fail
               /\ vendorBootParams' = "full"
               /\ concatRamdisk' \in {Absent, "partial"}
    /\ UNCHANGED <<newRamdisk, bootconfigSupported, ramdiskPath,
                   repackedRamdisk, tmpImage, finalImage, finalMtime, runs>>

(***************************************************************************)
(* The ramdisk choice of RepackVendorBootImage (lines 303-313), with       *)
(* RepackVendorRamdisk (77-107) and UnpackRamdisk (135-159) when the       *)
(* repacked ramdisk does not exist yet.  UnpackRamdisk of a missing        *)
(* concatenated ramdisk fails its lz4 CHECK; of a truncated one, lz4 may   *)
(* fail or, for an uncompressed cpio (IsCpioArchive), the extraction loop  *)
(* keeps what it read.  The final concatenation's stream errors are never *)
(* checked.                                                                *)
(***************************************************************************)
UnpackRamdiskAborts ==
    CASE concatRamdisk = Absent    -> {TRUE}
      [] concatRamdisk = "partial" -> {TRUE, FALSE}
      [] OTHER                     -> {FALSE}

RepackVendorRamdisk(next) ==
    \/ /\ TRUE \in UnpackRamdiskAborts
       /\ Fail /\ UNCHANGED <<repackedRamdisk, ramdiskPath, faulted>>
    \* rm -rf lib/modules, mkbootfs or lz4 fails its CHECK.
    \/ /\ FALSE \in UnpackRamdiskAborts
       /\ Fault("tool_fail") /\ Fail
       /\ UNCHANGED <<repackedRamdisk, ramdiskPath>>
    \/ /\ FALSE \in UnpackRamdiskAborts
       /\ \E whole \in BOOLEAN :
             /\ repackedRamdisk' = [base |-> concatRamdisk,
                                    modules |-> newRamdisk, whole |-> whole]
             /\ IF whole THEN UNCHANGED faulted ELSE Fault("torn_write")
       /\ ramdiskPath' = "repacked"
       /\ \/ pc' = next /\ UNCHANGED result
          \/ repackedRamdisk'.whole = FALSE /\ Fail

ChooseRamdisk ==
    /\ pc = "ramdisk"
    /\ \/ /\ newRamdisk = NoRamdisk
          /\ ramdiskPath' = "concat"
          /\ pc' = "repack"
          /\ UNCHANGED <<repackedRamdisk, result, faulted>>
       \/ /\ newRamdisk # NoRamdisk
          /\ repackedRamdisk # Absent
          /\ ramdiskPath' = "repacked"
          /\ pc' = "repack"
          /\ UNCHANGED <<repackedRamdisk, result, faulted>>
       \/ /\ newRamdisk # NoRamdisk
          /\ repackedRamdisk = Absent
          /\ RepackVendorRamdisk("repack")
    /\ UNCHANGED <<newRamdisk, bootconfigSupported, vendorBootParams,
                   concatRamdisk, tmpImage, finalImage, finalMtime, runs>>

(***************************************************************************)
(* mkbootimg --vendor_ramdisk ... --vendor_cmdline ... --vendor_boot tmp   *)
(* (lines 315-356); a missing ramdisk file makes it fail.                  *)
(***************************************************************************)
\* Mutation: mkbootimg's exit status (line 352) not checked.  avbtool then
\* signs whatever .tmp image is there, and fails if there is none.
MkbootimgIgnoringStatus ==
    /\ pc = "repack"
    /\ \/ /\ ChosenRamdisk # Absent
          /\ tmpImage' = [ramdisk |-> ChosenRamdisk, cmdline |-> VendorCmdline,
                          bootconfig |-> bootconfigSupported, salt |-> NoSalt]
          /\ pc' = "sign"
          /\ UNCHANGED <<result, faulted>>
       \/ /\ ChosenRamdisk = Absent \/ Fault("tool_fail")
          /\ IF tmpImage # Absent
             THEN pc' = "sign" /\ UNCHANGED result
             ELSE Fail
          /\ UNCHANGED tmpImage
          /\ IF ChosenRamdisk = Absent THEN UNCHANGED faulted ELSE TRUE
    /\ UNCHANGED <<newRamdisk, bootconfigSupported, ramdiskPath,
                   vendorBootParams, concatRamdisk, repackedRamdisk,
                   finalImage, finalMtime, runs>>

Mkbootimg ==
    /\ pc = "repack"
    /\ \/ /\ ChosenRamdisk # Absent
          /\ tmpImage' = [ramdisk |-> ChosenRamdisk, cmdline |-> VendorCmdline,
                          bootconfig |-> bootconfigSupported, salt |-> NoSalt]
          /\ pc' = "sign"
          /\ UNCHANGED <<result, faulted>>
       \/ /\ ChosenRamdisk = Absent
          /\ Fail /\ UNCHANGED <<tmpImage, faulted>>
       \/ /\ Fault("tool_fail") /\ Fail
          /\ UNCHANGED tmpImage
    /\ UNCHANGED <<newRamdisk, bootconfigSupported, ramdiskPath,
                   vendorBootParams, concatRamdisk, repackedRamdisk,
                   finalImage, finalMtime, runs>>

\* Mutation: avbtool's exit status ignored.
AddHashFooterIgnoringStatus ==
    /\ pc = "sign"
    /\ \/ /\ \E s \in Salts : tmpImage' = [tmpImage EXCEPT !.salt = s]
          /\ UNCHANGED faulted
       \/ /\ Fault("tool_fail")
          /\ UNCHANGED tmpImage
    /\ pc' = "commit"
    /\ UNCHANGED <<result, newRamdisk, bootconfigSupported, ramdiskPath,
                   vendorBootParams, concatRamdisk, repackedRamdisk,
                   finalImage, finalMtime, runs>>

\* avbtool add_hash_footer --image tmp (lines 358-371), without --salt.
AddHashFooter ==
    /\ pc = "sign"
    /\ \/ /\ \E s \in Salts : tmpImage' = [tmpImage EXCEPT !.salt = s]
          /\ pc' = "commit"
          /\ UNCHANGED <<result, faulted>>
       \/ /\ Fault("tool_fail") /\ Fail
          /\ UNCHANGED tmpImage
    /\ UNCHANGED <<newRamdisk, bootconfigSupported, ramdiskPath,
                   vendorBootParams, concatRamdisk, repackedRamdisk,
                   finalImage, finalMtime, runs>>

(***************************************************************************)
(* DeleteTmpFileIfNotChanged(tmp, final) (lines 61-75, called at 373).     *)
(***************************************************************************)
DeleteTmpFileIfNotChanged ==
    /\ pc = "commit"
    /\ pc' = "idle"
    /\ IF finalImage = Absent \/ finalImage # tmpImage
       THEN \/ /\ finalImage' = tmpImage
               /\ tmpImage' = Absent
               /\ finalMtime' = finalMtime + 1
               /\ result' = "ok"
               /\ UNCHANGED faulted
            \/ /\ Fault("tool_fail")
               /\ result' = "failed"
               /\ UNCHANGED <<tmpImage, finalImage, finalMtime>>
       ELSE /\ tmpImage' = Absent
            /\ result' = "ok"
            /\ UNCHANGED <<finalImage, finalMtime, faulted>>
    /\ UNCHANGED <<newRamdisk, bootconfigSupported, ramdiskPath,
                   vendorBootParams, concatRamdisk, repackedRamdisk, runs>>

-----------------------------------------------------------------------------
(***************************************************************************)
(* RepackGem5BootImage(initrd, bootconfig, unpack_dir, input_ramdisk_path) *)
(* (lines 387-457) on the same unpack directory.  Its callers are not in  *)
(* this repository; it is taken to run on a directory an earlier          *)
(* RepackVendorBootImage unpacked (it never unpacks itself).  The         *)
(* bootconfig trailer it appends is BootconfigTrailer's.                   *)
(***************************************************************************)
RepackGem5BootImage ==
    /\ pc = "idle"
    /\ runs < MaxRuns
    /\ vendorBootParams # Absent
    /\ \E rd \in NewRamdisks \cup {NoRamdisk} : newRamdisk' = rd
    /\ pc' = "gem5" /\ runs' = runs + 1 /\ faulted' = FALSE
    /\ caller' = "gem5"
    \* Line 392: the initrd is truncated before anything else.
    /\ gem5Input' = NoRamdisk /\ gem5Ramdisk' = Absent
    /\ UNCHANGED <<bootconfigSupported, ramdiskPath, vendorBootParams,
                   concatRamdisk, repackedRamdisk, tmpImage, finalImage,
                   finalMtime, result>>

\* Lines 396-402: repack the vendor ramdisk when an input ramdisk exists
\* and vendor_ramdisk_repacked does not.
Gem5RepackRamdisk ==
    /\ pc = "gem5"
    /\ IF newRamdisk # NoRamdisk /\ repackedRamdisk = Absent
       THEN RepackVendorRamdisk("gem5write")
       ELSE pc' = "gem5write"
            /\ UNCHANGED <<repackedRamdisk, ramdiskPath, result, faulted>>
    /\ UNCHANGED <<newRamdisk, bootconfigSupported, vendorBootParams,
                   concatRamdisk, tmpImage, finalImage, finalMtime, runs,
                   caller, gem5vars>>

(***************************************************************************)
(* Lines 403-455: the truncated initrd gets the boot ramdisk, then         *)
(* vendor_ramdisk_repacked if it exists and concatenated_vendor_ramdisk   *)
(* otherwise (nothing, if that stream failed to open), then the trailer.  *)
(***************************************************************************)
Gem5WriteInitrd ==
    /\ pc = "gem5write"
    /\ gem5Ramdisk' = IF repackedRamdisk # Absent THEN repackedRamdisk
                      ELSE ConcatenatedRamdisk
    /\ gem5Input' = newRamdisk
    /\ pc' = "idle" /\ result' = "ok"
    /\ UNCHANGED <<newRamdisk, bootconfigSupported, ramdiskPath,
                   vendorBootParams, concatRamdisk, repackedRamdisk, tmpImage,
                   finalImage, finalMtime, runs, faulted, caller>>

\* The process is killed between two steps; every file stays as it is.
Crash ==
    /\ pc \notin {"idle", "unpack"}
    /\ Fault("tool_fail") /\ Fail
    /\ UNCHANGED <<newRamdisk, bootconfigSupported, ramdiskPath,
                   vendorBootParams, concatRamdisk, repackedRamdisk,
                   tmpImage, finalImage, finalMtime, runs>>

\* No further invocation within the bound.
Done ==
    /\ pc = "idle"
    /\ runs = MaxRuns
    /\ UNCHANGED vars

Next ==
    \/ /\ RepackVendorBootImage \/ RepackVendorBootImageWithEmptyRamdisk
       /\ caller' = "vendor_boot" /\ UNCHANGED gem5vars
    \/ /\ \/ UnpackVendorBootImageIfNotUnpacked
          \/ ChooseRamdisk
          \/ Mkbootimg
          \/ AddHashFooter
          \/ DeleteTmpFileIfNotChanged
          \/ Crash
       /\ UNCHANGED <<caller, gem5vars>>
    \/ RepackGem5BootImage
    \/ Gem5RepackRamdisk
    \/ Gem5WriteInitrd
    \/ Done

Spec == Init /\ [][Next]_vars

-----------------------------------------------------------------------------
TypeOK ==
    /\ pc \in {"idle", "unpack", "ramdisk", "repack", "sign", "commit",
              "gem5", "gem5write"}
    /\ newRamdisk \in NewRamdisks \cup {NoRamdisk}
    /\ bootconfigSupported \in BOOLEAN
    /\ ramdiskPath \in {"concat", "repacked"}
    /\ vendorBootParams \in {Absent, "empty", "full"}
    /\ concatRamdisk \in {Absent, "partial", "full"}
    /\ repackedRamdisk \in Ramdisks \cup {Absent}
    /\ tmpImage \in Images \cup {Absent}
    /\ finalImage \in Images \cup {Absent}
    /\ finalMtime \in 0..MaxRuns
    /\ runs \in 0..MaxRuns
    /\ result \in {"none", "ok", "failed"}
    /\ faulted \in BOOLEAN
    /\ caller \in {"vendor_boot", "gem5"}
    /\ gem5Input \in NewRamdisks \cup {NoRamdisk}
    /\ gem5Ramdisk \in Ramdisks \cup {Absent}

(***************************************************************************)
(* A vendor-boot invocation that reports success has committed a signed  *)
(* image of the vendor boot image's own command line, built from the      *)
(* whole vendor ramdisk and, if it was given one, its own kernel-modules  *)
(* ramdisk, whatever earlier invocations left in the unpack directory     *)
(* (spec.md 4.6 and 7).  The code does not keep this promise: see the     *)
(* torn_repacked_ramdisk run.                                              *)
(***************************************************************************)
ExpectedRamdisk(rd) ==
    [base |-> "full", modules |-> rd, whole |-> TRUE]

SuccessMeansCurrent ==
    (pc = "idle" /\ result = "ok" /\ caller = "vendor_boot") =>
        /\ finalImage # Absent
        /\ IsSigned(finalImage)
        /\ finalImage.ramdisk = ExpectedRamdisk(newRamdisk)
        /\ finalImage.cmdline = "orig"
        /\ finalImage.bootconfig = bootconfigSupported

(***************************************************************************)
(* A failure does not outlive its invocation: an invocation in which no   *)
(* tool failed and the process was not killed succeeds, whatever earlier   *)
(* failed invocations left in the unpack directory (spec.md 3 and 4.1).   *)
(* The code does not keep this promise: see the unpack_failure_sticks run. *)
(***************************************************************************)
FailuresDoNotPersist ==
    (pc = "idle" /\ result = "failed") => faulted

(***************************************************************************)
(* The comment above DeleteTmpFileIfNotChanged: the committed image is     *)
(* only rewritten, and made younger than the composite disk, when what it *)
(* is built from changed; repacking the same inputs leaves it alone.  The  *)
(* code does not keep this promise: see the avb_random_salt run.          *)
(***************************************************************************)
BuildInputs(img) == [img EXCEPT !.salt = NoSalt]

StableInputsKeepFile ==
    [][finalMtime' # finalMtime =>
         (finalImage = Absent \/ BuildInputs(finalImage') # BuildInputs(finalImage))]_vars

(***************************************************************************)
(* The committed image behaves as CommittedImage says: replaced whole,     *)
(* only by a signed image, its mtime moving exactly when it changes.       *)
(***************************************************************************)
Committed == INSTANCE CommittedImage WITH
    committed <- finalImage,
    mtime <- finalMtime,
    SignedImages <- {img \in Images : IsSigned(img)},
    NoFile <- Absent

CommitRefinesCommittedImage == Committed!Spec

(***************************************************************************)
(* The .tmp path is fixed (line 334), so a .tmp image left by an earlier   *)
(* invocation killed after mkbootimg or avbtool, or whose rename failed,   *)
(* is still there when the next invocation starts.  Whatever it renames    *)
(* over the committed path was built by its own mkbootimg: from the       *)
(* ramdisk it chose and the command line in the unpack directory as they   *)
(* are now, and with its own bootconfig_supported.  It is mkbootimg's exit *)
(* status check (352-356) that keeps the stale .tmp from being signed and  *)
(* committed.                                                              *)
(***************************************************************************)
CommitsOwnBuild ==
    [][finalMtime' # finalMtime =>
         /\ finalImage'.ramdisk = ChosenRamdisk
         /\ finalImage'.cmdline = VendorCmdline
         /\ finalImage'.bootconfig = bootconfigSupported]_vars

=============================================================================
