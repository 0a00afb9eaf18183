-------------------------- MODULE BootconfigTrailer --------------------------
(***************************************************************************)
(* The bootconfig trailer that RepackGem5BootImage appends to the gem5     *)
(* initrd (src/host/commands/assemble_cvd/boot_image_utils.cc, 387-457),   *)
(* and the way the kernel finds it again (the reference the trailer is     *)
(* written for).  Bytes are integers 0..255 drawn from a small alphabet;   *)
(* a file that does not exist is the model value Missing.                  *)
(*                                                                         *)
(* The host rebuilds the initrd on every launch, while the guest may       *)
(* rewrite its persistent bootconfig between launches: those are the two   *)
(* actions.                                                                *)
(***************************************************************************)
EXTENDS Integers, Sequences, SequencesExt

CONSTANTS
    Bytes,          \* byte values the bootconfig files may contain
    MaxLen,         \* longest bootconfig file considered
    Preamble,       \* the three fixed "androidboot.*" lines, as bytes
    Magic,          \* the "#BOOTCONFIG\n" trailer, as bytes
    RamdiskBytes,   \* boot ramdisk ++ vendor ramdisk written before it
    CharIsSigned,   \* whether the host's C++ char is signed (x86: TRUE)
    Missing         \* a bootconfig file that does not exist

ASSUME Bytes \subseteq 0..255 /\ 0 \in Bytes
ASSUME MaxLen \in Nat
ASSUME Preamble \in Seq(1..255) /\ Len(Preamble) >= 3
ASSUME CharIsSigned \in BOOLEAN

VARIABLES
    vendorBootconfig,      \* unpack_dir/bootconfig
    persistentBootconfig,  \* bootconfig_path (the guest's persistent one)
    initrd,                \* initrd_path, or <<>> before the first launch
    builtFrom              \* the two files the current initrd was built from

vars == <<vendorBootconfig, persistentBootconfig, initrd, builtFrom>>

FileContents == BoundedSeq(Bytes, MaxLen) \cup {Missing}

(***************************************************************************)
(* std::ifstream(..., ate).tellg(): the size, or -1 when the open failed.  *)
(***************************************************************************)
FileSize(f) == IF f = Missing THEN -1 ELSE Len(f)

(***************************************************************************)
(* The buffer of lines 426-433: the preamble, resized by the two tellg()   *)
(* results (size_t arithmetic, so a -1 shrinks it), the vendor file read   *)
(* at offset |preamble| and the persistent one at |preamble| + vb_size.    *)
(* A read on a stream whose open failed reads nothing; a byte read past    *)
(* the resized end lands on the string's terminator and is not part of it *)
(* (undefined behaviour whose libstdc++ outcome is this truncation).       *)
(***************************************************************************)
BootconfigBuffer(vb, pb) ==
    LET P    == Len(Preamble)
        vbSz == FileSize(vb)
        size == P + vbSz + FileSize(pb)
        InPb(o) == pb # Missing /\ P + vbSz <= o /\ o < P + vbSz + Len(pb)
        InVb(o) == vb # Missing /\ P <= o /\ o < P + Len(vb)
    IN [i \in 1..size |->
          CASE InPb(i - 1)  -> pb[i - P - vbSz]
            [] InVb(i - 1)  -> vb[i - P]
            [] i <= P       -> Preamble[i]
            [] OTHER        -> 0]

(***************************************************************************)
(* bootconfig.erase(bootconfig.find_last_not_of('\0')) (line 435): erases  *)
(* from the last non-NUL byte on, that byte included.  With no non-NUL     *)
(* byte, erase(npos) throws and the process aborts.                        *)
(***************************************************************************)
LastNonNul(buf) == SelectLastInSeq(buf, LAMBDA b : b # 0)

TrimAborts(buf) == LastNonNul(buf) = 0

TrimBootconfig(buf) == SubSeq(buf, 1, LastNonNul(buf) - 1)

(***************************************************************************)
(* A uint32_t, kept as <<low 16 bits, high 16 bits>> so that its full      *)
(* width fits TLC's integers; adding wraps modulo 2^32.                    *)
(***************************************************************************)
U32(n) == <<n % 65536, (n \div 65536) % 65536>>

U32Add(w, v) == LET low == w[1] + v
                IN <<low % 65536, (w[2] + low \div 65536) % 65536>>

\* final_rd.write(&x, sizeof(uint32_t)) on a little-endian host.
LE32(w) == <<w[1] % 256, w[1] \div 256, w[2] % 256, w[2] \div 256>>

(***************************************************************************)
(* bootconfig_csum += bootconfig[i] (lines 447-450): a char added to a     *)
(* uint32_t, so a byte >= 128 counts as b - 256 where char is signed.      *)
(***************************************************************************)
CharValue(b) == IF CharIsSigned /\ b >= 128 THEN b - 256 ELSE b

\* Mutation: the checksum loop starting at index 1.
CsumFromSecondByte(config) ==
    FoldLeft(LAMBDA acc, b : U32Add(acc, CharValue(b)), U32(0), Tail(config))

Csum(config) == FoldLeft(LAMBDA acc, b : U32Add(acc, CharValue(b)), U32(0), config)

\* Lines 438-455: the config, its length (size_t cut to 32 bits), its
\* checksum and the magic.
\* Mutation: the length written one too large.
TrailerBytesLengthPlusOne(config) ==
    config \o LE32(U32(Len(config) + 1)) \o LE32(Csum(config)) \o Magic

TrailerBytes(config) ==
    config \o LE32(U32(Len(config))) \o LE32(Csum(config)) \o Magic

(* The initrd is truncated on open (line 393), before the trimming may     *)
(* abort, so an abort leaves it empty.                                     *)
Gem5Initrd(vb, pb) ==
    LET buf == BootconfigBuffer(vb, pb)
    IN IF TrimAborts(buf) THEN <<>>
       ELSE RamdiskBytes \o TrailerBytes(TrimBootconfig(buf))

-----------------------------------------------------------------------------
Init ==
    /\ vendorBootconfig \in FileContents
    /\ persistentBootconfig \in FileContents
    /\ initrd = <<>>
    /\ builtFrom = <<>>

(***************************************************************************)
(* RepackGem5BootImage: truncate initrd_path and write the ramdisks and    *)
(* the trailer (run on every launch).                                      *)
(***************************************************************************)
RepackGem5BootImage ==
    /\ initrd' = Gem5Initrd(vendorBootconfig, persistentBootconfig)
    /\ builtFrom' = <<vendorBootconfig, persistentBootconfig>>
    /\ UNCHANGED <<vendorBootconfig, persistentBootconfig>>

\* The guest rewrites its persistent bootconfig block between launches.
GuestWritesPersistentBootconfig ==
    /\ \E pb \in FileContents \ {Missing} : persistentBootconfig' = pb
    /\ UNCHANGED <<vendorBootconfig, initrd, builtFrom>>

Next == RepackGem5BootImage \/ GuestWritesPersistentBootconfig

Spec == Init /\ [][Next]_vars

-----------------------------------------------------------------------------
(***************************************************************************)
(* The kernel's reading of an initrd (init/main.c): the magic at the end,  *)
(* before it a little-endian size and checksum, and `size` bytes of        *)
(* bootconfig before those.                                                *)
(***************************************************************************)
FromLE32(s) == <<s[1] + 256 * s[2], s[3] + 256 * s[4]>>

ParsedBootconfig(bytes) ==
    LET n    == Len(bytes)
        ml   == Len(Magic)
        hdr  == n - ml - 8
        size == FromLE32(SubSeq(bytes, hdr + 1, hdr + 4))
        csum == FromLE32(SubSeq(bytes, hdr + 5, hdr + 8))
    IN IF hdr < 0 \/ SubSeq(bytes, hdr + 9, n) # Magic
          \/ size[2] > 0 \/ size[1] > hdr
       THEN [ok |-> FALSE, start |-> 0, data |-> <<>>, csum |-> U32(0)]
       ELSE [ok |-> TRUE, start |-> hdr - size[1] + 1,
             data |-> SubSeq(bytes, hdr - size[1] + 1, hdr), csum |-> csum]

\* The kernel's xbc_calc_checksum sums the bytes as unsigned char.
UnsignedSum(s) == FoldLeft(LAMBDA acc, b : U32Add(acc, b), U32(0), s)

\* What spec.md 4.4 asks for: preamble ++ vendor ++ persistent with the
\* trailing NUL bytes, and only those, removed.
TrimTrailingNuls(s) == SubSeq(s, 1, SelectLastInSeq(s, LAMBDA b : b # 0))

SpecConfig(vb, pb) == TrimTrailingNuls(Preamble \o vb \o pb)

-----------------------------------------------------------------------------
TypeOK ==
    /\ vendorBootconfig \in FileContents
    /\ persistentBootconfig \in FileContents
    /\ initrd \in Seq(0..255)
    /\ builtFrom \in {<<>>} \cup (FileContents \X FileContents)

(***************************************************************************)
(* The length field round-trips: the kernel, reading the initrd from its   *)
(* end, finds the magic and a size that makes the bootconfig start exactly *)
(* where the ramdisks RepackGem5BootImage wrote end (lines 438-444).       *)
(***************************************************************************)
BootloaderFindsBootconfig ==
    initrd # <<>> =>
        LET p == ParsedBootconfig(initrd)
        IN p.ok /\ p.start = Len(RamdiskBytes) + 1

(***************************************************************************)
(* The checksum field RepackGem5BootImage writes (lines 447-452) is the    *)
(* one the kernel computes over the bootconfig it finds, so the kernel     *)
(* accepts it.                                                             *)
(***************************************************************************)
ChecksumMatchesBootloader ==
    initrd # <<>> =>
        LET p == ParsedBootconfig(initrd)
        IN p.ok /\ p.csum = UnsignedSum(p.data)

(***************************************************************************)
(* spec.md 4.4: the bootconfig in the trailer is preamble ++ vendor ++     *)
(* persistent with only the trailing NUL padding trimmed (line 435 is the  *)
(* trimming).  Stated for launches where both files exist.                *)
(***************************************************************************)
ConfigIsTrimmedConcatenation ==
    (initrd # <<>> /\ Missing \notin {builtFrom[1], builtFrom[2]})
        => ParsedBootconfig(initrd).data = SpecConfig(builtFrom[1], builtFrom[2])

=============================================================================
