------------------------------ MODULE BootImage ------------------------------
(***************************************************************************)
(* The boot image half of src/host/commands/assemble_cvd/boot_image_utils.cc:*)
(* ReadAndroidVersionFromBootImage (462-501) with GetAvbMetadatFromBootImage*)
(* (161-184), then RepackBootImage (260-291) with UnpackBootImage          *)
(* (186-210), both reading tool dumps with ExtractValue (42-52).           *)
(*                                                                         *)
(* Text is a sequence of tokens: a dump is lines of a label token, value   *)
(* tokens and "nl".  An image is what its header and AVB footer hold.      *)
(***************************************************************************)
EXTENDS Naturals, Sequences, SequencesExt

CONSTANTS
    Cmdlines,       \* kernel command lines a boot image may carry
    OsVersions,     \* raw os_version property values avbtool may print
    Kernels,        \* new_kernel_path contents
    Faults,         \* {} or {"tool_fail"}: any tool or file creation fails
    MaxRuns,        \* RepackBootImage invocations
    Absent          \* no os_version property, no file

CmdlineKey == <<"command line args: ">>
OsVersionKey == <<"Prop: com.android.build.boot.os_version -> ">>
NonZeroDigits == {"1", "2"}
Digits == NonZeroDigits \cup {"0"}
DefaultVersion == <<"0", ".", "0", ".", "0">>

Line(label, value) == label \o value \o <<"nl">>

\* What unpack_bootimg prints for a header v4 boot image.
UnpackDump(img) ==
    Line(<<"header version: ">>, <<"4">>) \o Line(CmdlineKey, img.cmdline)
        \o Line(<<"boot.img signature size: ">>, <<"0">>)

\* What avbtool info_image prints: the footer, then the descriptor's props.
AvbDump(img) ==
    Line(<<"Footer version: ">>, <<"1">>)
        \o (IF img.osVersion = Absent THEN <<>>
            ELSE Line(OsVersionKey, img.osVersion))
        \o Line(<<"Prop: com.android.build.boot.fingerprint -> ">>, <<"'", "a", "'">>)

VARIABLES
    image,      \* the boot image at boot_image_path
    tmpDir,     \* the mkdtemp directory exists
    avbParams,  \* tmp_dir/boot_params
    vpc,        \* ReadAndroidVersionFromBootImage: "start", "avb", "read", "parse", "done"
    version,    \* its result
    vfaulted,   \* a tool failed during it
    buildParams,\* build_dir/boot_params
    kernel,     \* new_kernel_path of the current RepackBootImage
    tmpImage,   \* new_boot_image_path + ".tmp"
    finalImage, \* new_boot_image_path
    finalMtime, \* how many times new_boot_image_path was written
    rpc,        \* RepackBootImage: "idle", "unpack", "mkbootimg", "sign", "commit"
    runs,
    result      \* the last RepackBootImage's outcome

vars == <<image, tmpDir, avbParams, vpc, version, vfaulted, buildParams,
          kernel, tmpImage, finalImage, finalMtime, rpc, runs, result>>

Error == [ok |-> FALSE, value |-> <<>>]
Ok(v) == [ok |-> TRUE, value |-> v]

Init ==
    /\ image \in [cmdline : Cmdlines, osVersion : OsVersions \cup {Absent}]
    /\ tmpDir = FALSE /\ avbParams = Absent
    /\ vpc = "start" /\ version = Error /\ vfaulted = FALSE
    /\ buildParams = Absent /\ kernel \in Kernels
    /\ tmpImage = Absent /\ finalImage = Absent /\ finalMtime = 0
    /\ rpc = "idle" /\ runs = 0 /\ result = "none"

-----------------------------------------------------------------------------
\* std::string::find from position from; 0 is npos.
Find(s, k, from) ==
    LET I == {i \in from..(Len(s) - Len(k) + 1) : SubSeq(s, i, i + Len(k) - 1) = k}
    IN IF I = {} THEN 0 ELSE Min(I)

\* Mutation: the value runs to the end of the dump, not to the newline.
ExtractValueToEnd(dictionary, key) ==
    LET index == Find(dictionary, key, 1)
    IN IF index # 0 THEN SubSeq(dictionary, index + Len(key), Len(dictionary))
       ELSE <<>>

\* ExtractValue: from after the first occurrence of key to the next newline.
ExtractValue(dictionary, key) ==
    LET index == Find(dictionary, key, 1)
        end_index == IF index = 0 THEN 0
                     ELSE Find(dictionary, <<"nl">>, index + Len(key))
    IN IF index # 0 /\ end_index # 0
       THEN SubSeq(dictionary, index + Len(key), end_index - 1)
       ELSE <<>>

\* Mutation: the first group may start with 0.
MatchesVersionRegexAnyLeading(v) ==
    /\ v # <<>> /\ v[1] \in Digits
    /\ \A i \in DOMAIN v : v[i] \in Digits \cup {"."}
    /\ \A i \in 1..(Len(v) - 1) : v[i] = "." => v[i + 1] # "."
    /\ v[Len(v)] # "."

\* std::regex_match(os_version, "[1-9][0-9]*([.][0-9]+)*").
MatchesVersionRegex(v) ==
    /\ v # <<>> /\ v[1] \in NonZeroDigits
    /\ \A i \in DOMAIN v : v[i] \in Digits \cup {"."}
    /\ \A i \in 1..(Len(v) - 1) : v[i] = "." => v[i + 1] # "."
    /\ v[Len(v)] # "."

ToolFails == "tool_fail" \in Faults

-----------------------------------------------------------------------------
(* ReadAndroidVersionFromBootImage, one step per blocking call.            *)

\* mkdtemp (465-469): CF_ERR when it fails.
Mkdtemp ==
    /\ vpc = "start"
    /\ \/ tmpDir' = TRUE /\ vpc' = "avb" /\ UNCHANGED <<version, vfaulted>>
       \/ ToolFails /\ vpc' = "done" /\ version' = Error /\ vfaulted' = TRUE
          /\ UNCHANGED tmpDir
    /\ UNCHANGED <<image, avbParams, buildParams, kernel, tmpImage, finalImage,
                   finalMtime, rpc, runs, result>>

\* Mutation: the directory is not removed when the dump fails.
GetAvbMetadatKeepingDir ==
    /\ vpc = "avb"
    /\ \/ avbParams' = AvbDump(image) /\ vpc' = "read"
          /\ UNCHANGED <<tmpDir, version, vfaulted>>
       \/ /\ ToolFails
          /\ vpc' = "done" /\ version' = Error /\ vfaulted' = TRUE
          /\ UNCHANGED <<tmpDir, avbParams>>
    /\ UNCHANGED <<image, buildParams, kernel, tmpImage, finalImage, finalMtime, rpc, runs, result>>

(***************************************************************************)
(* GetAvbMetadatFromBootImage and its caller's check (470-475): Creat of   *)
(* boot_params, then avbtool info_image into it; if either fails, the     *)
(* directory, with whatever part of the dump, is removed and CF_ERR        *)
(* returned.                                                               *)
(***************************************************************************)
GetAvbMetadat ==
    /\ vpc = "avb"
    /\ \/ avbParams' = AvbDump(image) /\ vpc' = "read"
          /\ UNCHANGED <<tmpDir, version, vfaulted>>
       \/ /\ ToolFails
          /\ tmpDir' = FALSE /\ avbParams' = Absent
          /\ vpc' = "done" /\ version' = Error /\ vfaulted' = TRUE
    /\ UNCHANGED <<image, buildParams, kernel, tmpImage, finalImage, finalMtime, rpc, runs, result>>

\* Lines 477-482: ReadFile of boot_params, then the directory is removed.
ReadBootParams ==
    /\ vpc = "read"
    /\ tmpDir' = FALSE /\ vpc' = "parse"
    /\ UNCHANGED <<image, avbParams, version, vfaulted, buildParams, kernel,
                   tmpImage, finalImage, finalMtime, rpc, runs, result>>

(***************************************************************************)
(* Lines 483-500: "None" is 0.0.0; otherwise every quote is erased and the *)
(* rest must match the version pattern.                                    *)
(***************************************************************************)
ParseVersion ==
    /\ vpc = "parse"
    /\ LET os_version == ExtractValue(avbParams, OsVersionKey)
           unquoted == Remove(os_version, "'")
       IN version' = CASE os_version = <<"None">> -> Ok(DefaultVersion)
                       [] MatchesVersionRegex(unquoted) -> Ok(unquoted)
                       [] OTHER -> Error
    /\ vpc' = "done"
    /\ UNCHANGED <<image, tmpDir, avbParams, vfaulted, buildParams, kernel,
                   tmpImage, finalImage, finalMtime, rpc, runs, result>>

-----------------------------------------------------------------------------
(* RepackBootImage, after the version has been read.                       *)

\* An invocation, on a boot image whose command line may differ from the
\* last one's, with a new kernel.
StartRepack ==
    /\ vpc = "done" /\ rpc = "idle" /\ runs < MaxRuns
    /\ \E c \in Cmdlines : image' = [image EXCEPT !.cmdline = c]
    /\ kernel' \in Kernels
    /\ rpc' = "unpack" /\ runs' = runs + 1 /\ result' = "none"
    /\ UNCHANGED <<tmpDir, avbParams, vpc, version, vfaulted,
                   buildParams, tmpImage, finalImage, finalMtime>>

\* A CF_EXPECT (lines 265, 285, 287, 288) returns the error.
Fail == rpc' = "idle" /\ result' = "error"

\* Mutation: boot_params opened without O_TRUNC, the dump appended.
UnpackBootImageAppending ==
    /\ rpc = "unpack"
    /\ \/ /\ buildParams' = IF buildParams = Absent THEN UnpackDump(image)
                            ELSE buildParams \o UnpackDump(image)
          /\ rpc' = "mkbootimg" /\ UNCHANGED result
       \/ ToolFails /\ UNCHANGED buildParams /\ Fail
    /\ UNCHANGED <<image, tmpDir, avbParams, vpc, version, vfaulted, kernel,
                   tmpImage, finalImage, finalMtime, runs>>

\* UnpackBootImage (186-210): Creat truncates boot_params; unpack_bootimg
\* writes it; either may fail, after any part of the dump.
UnpackBootImage ==
    /\ rpc = "unpack"
    /\ \/ buildParams' = UnpackDump(image) /\ rpc' = "mkbootimg"
          /\ UNCHANGED result
       \/ /\ ToolFails
          /\ buildParams' \in {buildParams} \cup {SubSeq(UnpackDump(image), 1, n) :
                                                    n \in 0..Len(UnpackDump(image))}
          /\ Fail
    /\ UNCHANGED <<image, tmpDir, avbParams, vpc, version, vfaulted, kernel,
                   tmpImage, finalImage, finalMtime, runs>>

\* Lines 267-285: the command line read back from boot_params goes to
\* mkbootimg with the new kernel, into the .tmp image.
Mkbootimg ==
    /\ rpc = "mkbootimg"
    /\ \/ tmpImage' = [kernel |-> kernel,
                       cmdline |-> ExtractValue(buildParams, CmdlineKey),
                       signed |-> FALSE]
          /\ rpc' = "sign" /\ UNCHANGED result
       \/ ToolFails /\ Fail /\ UNCHANGED tmpImage
    /\ UNCHANGED <<image, tmpDir, avbParams, vpc, version, vfaulted,
                   buildParams, kernel, finalImage, finalMtime, runs>>

\* Mutation: avbtool's status ignored, the unsigned .tmp image committed.
AddHashFooterIgnoringStatus ==
    /\ rpc = "sign"
    /\ \/ tmpImage' = [tmpImage EXCEPT !.signed = TRUE]
       \/ ToolFails /\ UNCHANGED tmpImage
    /\ rpc' = "commit" /\ UNCHANGED result
    /\ UNCHANGED <<image, tmpDir, avbParams, vpc, version, vfaulted,
                   buildParams, kernel, finalImage, finalMtime, runs>>

\* Line 287: avbtool add_hash_footer on the .tmp image.
AddHashFooter ==
    /\ rpc = "sign"
    /\ \/ tmpImage' = [tmpImage EXCEPT !.signed = TRUE]
          /\ rpc' = "commit" /\ UNCHANGED result
       \/ ToolFails /\ Fail /\ UNCHANGED tmpImage
    /\ UNCHANGED <<image, tmpDir, avbParams, vpc, version, vfaulted,
                   buildParams, kernel, finalImage, finalMtime, runs>>

(***************************************************************************)
(* Line 288: DeleteTmpFileIfNotChanged (61-75).  A missing or different   *)
(* committed file is replaced by the .tmp (its mtime moves), unless the   *)
(* rename fails, which leaves both and fails the repack; an equal one is   *)
(* kept and the .tmp removed.                                              *)
(***************************************************************************)
Commit ==
    /\ rpc = "commit"
    /\ IF finalImage = Absent \/ finalImage # tmpImage
       THEN \/ /\ finalImage' = tmpImage /\ finalMtime' = finalMtime + 1
               /\ tmpImage' = Absent /\ rpc' = "idle" /\ result' = "ok"
            \/ ToolFails /\ Fail /\ UNCHANGED <<finalImage, finalMtime, tmpImage>>
       ELSE /\ tmpImage' = Absent /\ rpc' = "idle" /\ result' = "ok"
            /\ UNCHANGED <<finalImage, finalMtime>>
    /\ UNCHANGED <<image, tmpDir, avbParams, vpc, version, vfaulted,
                   buildParams, kernel, runs>>

Done ==
    /\ vpc = "done" /\ rpc = "idle" /\ runs = MaxRuns
    /\ UNCHANGED vars

Next ==
    \/ Mkdtemp \/ GetAvbMetadat \/ ReadBootParams \/ ParseVersion
    \/ StartRepack \/ UnpackBootImage \/ Mkbootimg \/ AddHashFooter \/ Commit
    \/ Done

Spec == Init /\ [][Next]_vars

-----------------------------------------------------------------------------
(***************************************************************************)
(* The version spec.md 4.7 describes for a dumped value v: "None" is       *)
(* 0.0.0; otherwise the value without its surrounding quotes, if it is    *)
(* dot-separated groups of digits whose first group does not start with 0.*)
(***************************************************************************)
Unquoted(v) ==
    IF Len(v) >= 2 /\ v[1] = "'" /\ v[Len(v)] = "'" THEN SubSeq(v, 2, Len(v) - 1)
    ELSE v

\* The groups of v between its dots.
RECURSIVE SplitDots(_)
SplitDots(v) ==
    LET i == SelectInSeq(v, LAMBDA c : c = ".")
    IN IF i = 0 THEN <<v>>
       ELSE <<SubSeq(v, 1, i - 1)>> \o SplitDots(SubSeq(v, i + 1, Len(v)))

IsGroupSequence(v) ==
    LET groups == SplitDots(v)
    IN /\ \A k \in DOMAIN groups :
             groups[k] # <<>> /\ \A j \in DOMAIN groups[k] : groups[k][j] \in Digits
       /\ groups[1][1] # "0"

SpecVersion(v) ==
    CASE v = <<"None">> -> Ok(DefaultVersion)
      [] IsGroupSequence(Unquoted(v)) -> Ok(Unquoted(v))
      [] OTHER -> Error

(***************************************************************************)
(* ReadAndroidVersionFromBootImage returns the image's os_version as      *)
(* spec.md 4.7 says, whenever the property is present: a version only if  *)
(* it is the image's, and the image's whenever no tool failed.            *)
(***************************************************************************)
VersionFollowsDump ==
    (vpc = "done" /\ image.osVersion # Absent) =>
        /\ version.ok => version = SpecVersion(image.osVersion)
        /\ ~vfaulted => version = SpecVersion(image.osVersion)

(***************************************************************************)
(* No return path of ReadAndroidVersionFromBootImage leaves its mkdtemp    *)
(* directory behind in $TEMP.                                              *)
(***************************************************************************)
NoTempDirLeft == vpc = "done" => ~tmpDir

(***************************************************************************)
(* A repacked boot image carries the new kernel and, verbatim, the command *)
(* line of the boot image it was made from (spec.md 8), across repeated   *)
(* invocations on other boot images, and failed ones, over one build_dir.  *)
(***************************************************************************)
CmdlinePreserved ==
    result = "ok" =>
        /\ finalImage.cmdline = image.cmdline
        /\ finalImage.kernel = kernel

(***************************************************************************)
(* The committed boot image behaves as CommittedImage says: replaced only  *)
(* whole, only by a signed image of a new kernel and an image's command   *)
(* line, with its mtime moving exactly when its content changes, so that  *)
(* the composite disk is not rebuilt for an unchanged repack.              *)
(***************************************************************************)
Committed == INSTANCE CommittedImage WITH
    committed <- finalImage,
    mtime <- finalMtime,
    SignedImages <- {[kernel |-> k, cmdline |-> c, signed |-> TRUE] :
                        k \in Kernels, c \in Cmdlines},
    NoFile <- Absent

CommitRefinesCommittedImage == Committed!Spec

====
