# TLA+ models of the Cuttlefish host tools

This directory holds TLA+ models of the host-side code in `src/`. They are checked
with TLC. The core is `src/host/commands/assemble_cvd/boot_image_utils.cc`, which
rewrites the boot and vendor-boot images before a Cuttlefish device launches. Its
behaviour is described in `spec.md`. The launcher `launch_cvd`
(`src/host/commands/start/main.cc`) and the gRPC front end `cvd_env`
(`src/host/commands/cvd_env/main.cc`) are modelled too. `PROJECT.json` holds the machine-readable
version of this document:

- components;
- runs;
- mutants;
- the map from each TLA+ definition to its source lines;
- findings;
- hazards.

## 1. The system

### Parts

These are the parts of `boot_image_utils.cc`, with the names spec.md §4 uses.

- **Staging directory.** `UnpackVendorBootImageIfNotUnpacked`, lines 212-258.
  - It runs `unpack_bootimg` into a persistent `unpack_dir` and redirects stdout to
    the sentinel `vendor_boot_params`.
  - It then concatenates `vendor_ramdisk*` into `concatenated_vendor_ramdisk`.
  - The sentinel's existence makes every later call a no-op (line 217).
- **Key-value extractor.** `ExtractValue`, lines 42-52.
  - It returns the text after a key up to the next newline.
  - It is used to find the command line in the unpack report.
- **Ramdisk transformer.**
  - `IsCpioArchive` (109-117) and `UnpackRamdisk` (135-159) detect the format, lz4
    decompress, and extract with a `cpio` loop.
  - `RepackVendorRamdisk` (77-107) strips `lib/modules`, recompresses, and writes the
    stripped ramdisk followed by the kernel-modules ramdisk.
  - `PackRamdisk` is at 121-133.
- **Bootconfig trailer codec.** `RepackGem5BootImage`, lines 387-457. It builds the
  gem5 initrd in this order:
  1. the boot ramdisk;
  2. the vendor ramdisk;
  3. the bootconfig, which is a fixed preamble, then the vendor bootconfig, then the
     persistent bootconfig, with NUL padding trimmed;
  4. a 32-bit length;
  5. a 32-bit checksum;
  6. `#BOOTCONFIG\n`.
- **Commit guard.** `DeleteTmpFileIfNotChanged`, lines 54-75.
  - It renames `X.tmp` over `X` only if the contents differ. Otherwise it deletes
    `X.tmp`.
  - Why it matters: the composite-disk generator rebuilds the disk, and wipes
    userdata, whenever a component is younger than the disk.
- **Orchestrators.**
  - `RepackVendorBootImage` (293-374) runs these steps in order: unpack, choose the
    ramdisk, `mkbootimg`, `avbtool add_hash_footer`, commit.
  - `RepackVendorBootImageWithEmptyRamdisk` (376-385) does the same with an empty
    kernel-modules ramdisk.
  - `RepackBootImage` (260-291) does the same for the boot image.
- **Android-version extractor.** `ReadAndroidVersionFromBootImage` and
  `GetAvbMetadatFromBootImage`, lines 161-184 and 462-501.

The rest of `src/`:

- **Launcher.** `start/main.cc` is `launch_cvd`. Its `main` (339-494) does four
  things in order:
  1. It reads `--system_image_dir` (342-357) and returns -1 if it does not parse.
     It then rewrites bool flags (`IsBoolArg`, `OverrideBoolArg`, 270-335, 364-368).
  2. It asks for metrics consent (`ValidateMetricsConfirmation`, 159-223).
  3. It checks the instance numbers and any previous config (404-427).
  4. It runs a pipeline of child processes:
     - it starts `assemble_cvd` with the file report on its stdin and its stdout on
       a pipe;
     - it writes the report, reads the output to EOF and waits for the child;
     - it starts one `run_cvd` per instance and writes the output to each one's
       stdin;
     - it waits for every runner.
- **cvd_env.** `cvd_env/main.cc` is a gRPC command-line front end.
  - `CvdEnvMain` dispatches `ls`, `call` and `type`.
  - A service is named by any suffix of its full name.
  - `GetServerAddress` finds the one server that offers a matching service.
  - `GetFullServiceName` then finds the one matching service on that server.
- `hal_implementation_test.cpp` is a device test.
- `snapshot_utils.h` holds declarations only.
- `test_cvd_selector_parser_substring.cpp` is a test table.

### How the parts interact

- assemble_cvd calls the orchestrators on every launch. The `unpack_dir` persists
  between launches, and so do the committed images. That persistence is where the
  hard behaviour lives: whatever one invocation leaves in `unpack_dir`, including
  after a failure or a kill, is trusted by the next one.
- Each step is a blocking external tool: `unpack_bootimg`, `cat`, `lz4`, `cpio`,
  `mkbootfs`, `mkbootimg` or `avbtool`.
- Nothing runs concurrently inside one invocation. The interleavings that matter are
  therefore these three:
  - invocation after invocation;
  - failures and kills between any two steps;
  - the guest rewriting its persistent bootconfig between launches.
- `launch_cvd` is the one place where processes really run concurrently.
  `assemble_cvd` and the `run_cvd`s are separate processes. They are joined to the
  launcher by pipes of bounded kernel capacity. Whether the launcher finishes
  depends on who closes which pipe end, and when. It also depends on a child
  failing at any point: a failed child's pipe ends close when it exits.

## 2. The modules

| module | models | state (VARIABLES) | actions |
|---|---|---|---|
| `VendorBootRepack` | `RepackVendorBootImage`, `...WithEmptyRamdisk`, `UnpackVendorBootImageIfNotUnpacked`, `RepackVendorRamdisk` / `UnpackRamdisk` outcomes, `DeleteTmpFileIfNotChanged`, and `RepackGem5BootImage`'s vendor-ramdisk choice | the invocation's kind (`caller`), step `pc` and arguments; the files `vendor_boot_params`, `concatenated_vendor_ramdisk`, `vendor_ramdisk_repacked`, the `.tmp` image and the committed image with its mtime; the last outcome; the gem5 initrd's input and vendor ramdisk | one action per tool step (`UnpackVendorBootImageIfNotUnpacked`, `ChooseRamdisk`, `Mkbootimg`, `AddHashFooter`, `DeleteTmpFileIfNotChanged`), two entry actions, `Crash` (a kill between steps); `RepackGem5BootImage`, `Gem5RepackRamdisk`, `Gem5WriteInitrd` |
| `CommittedImage` | the promise of the commit guard (comment at lines 54-60) | the committed content and its mtime | `Replace`: a different signed image, one mtime tick |
| `BootconfigTrailer` | `RepackGem5BootImage`'s trailer, byte for byte | the two bootconfig files, the initrd, and what it was built from | `RepackGem5BootImage`, `GuestWritesPersistentBootconfig` |
| `MC_BootconfigTrailer` | small byte values for TLC | | |
| `Launcher` | `main` from the `--system_image_dir` extraction (`ExtractSystemImageDir`) and the metrics prompt (`AskMetrics`, through an `INSTANCE` of `MetricsPrompt`) on: setup checks, `StartAssembler`, `WriteFiles`, `ReadAll`, `Wait`, the runner loop and the wait loop | launcher `lpc`, loop index, bytes written and read, `run_cvd_failure`, exit code; every pipe's buffer and the holders of each end; each child's step and status | one action per blocking call of `main`; `assemble_cvd` and each `run_cvd` read, write, exit or fail |
| `LaunchArgs` / `MC_LaunchArgs` | `IsBoolArg`, `FormatBoolString`, `OverrideBoolArg`, the copy into `argv` | the command line, `args`, the loop index, `overrided`, `argv` | one action per loop iteration, then the copy |
| `MetricsPrompt` | `ValidateMetricsConfirmation`, instantiated by `Launcher` as its first step | the flag, the previous config's answer, stdin, `ch`, the answer | the initial choice, then one action per pass of the `for(;;)` switch |
| `BootImage` / `MC_BootImage` | `ReadAndroidVersionFromBootImage`, `GetAvbMetadatFromBootImage`, `RepackBootImage`, `UnpackBootImage`, `ExtractValue` | the temp directory, the avbtool dump, the version result; the boot image, `build_dir/boot_params`, the new kernel, the `.tmp` and committed boot images, the invocation's step and result | one action per blocking call of each function |
| `CvdEnv` / `MC_CvdEnv` | `CvdEnvMain`, `HandleLsCmd`, `HandleCallCmd`, `HandleTypeCmd` and the resolution helpers | which services each server lists, the subcommand and its arguments, the `grpc_cli` commands run, the result | the dispatch, then one action per handler |

### VendorBootRepack

File contents are abstracted to what they were built from.

- A ramdisk is a record with three fields:
  - `base`: the concatenated vendor ramdisk it started from, full or partial;
  - `modules`: the kernel-modules ramdisk appended to it;
  - `whole`: whether the write completed.
- An image is a record with four fields: its ramdisk, its command line (`orig`, or
  `lost` when `ExtractValue` found no line), whether bootconfig was supported, and its
  AVB salt.

Failures come from the constant `Faults`:

- `tool_fail`: any checked tool or file creation fails, or the process is killed
  between steps.
- `unpack_fail`: `unpack_bootimg`, `cat` or the creation of the concatenated ramdisk
  fails after the sentinel exists.
- `torn_write`: the unchecked stream writing `vendor_ramdisk_repacked` fails part-way.

`faulted` records whether the current invocation met a fault. `MaxRuns` bounds the
number of invocations. The `Done` step lets a finished trace stutter instead of
deadlocking.

`VendorBootRepack` instantiates `CommittedImage` with this refinement mapping:

- `committed <- finalImage`;
- `mtime <- finalMtime`;
- `SignedImages <-` the images that carry a salt.

The abstract `Spec` is checked as a PROPERTY.

### BootconfigTrailer

Bytes are integers drawn from `Bytes`. A missing file is `Missing`, and its `tellg()`
is -1, which makes the buffer shrink as in the size_t arithmetic of line 431.

- A `uint32_t` is a pair of 16-bit halves, so its full width and wrap-around fit
  TLC's integers.
- `CharIsSigned` chooses the host's `char` signedness.
- The kernel's parse of an initrd (magic, size, checksum read from the end) is the
  reference the trailer is checked against.

### Launcher

- `ExtractSystemImageDir` (342-357) is the first step: `main` returns -1 if
  `--system_image_dir` does not parse. The value only becomes an argument of
  `assemble_cvd`, so the model does not keep it.
- `MetricsPrompt` is instantiated as `MP`; its variables are `Launcher`'s too.
  `AskMetrics` takes one prompt step and moves on to the setup checks when the
  prompt is done.
- A pipe is a counter of buffered chunks, bounded by `PipeCap`. Each pipe also
  records the set of processes that hold its write end and the set that hold its
  read end.
  - A read of an empty pipe with no writers is EOF.
  - A write to a pipe with no readers is EPIPE.
  - A process that exits drops every end it holds (`CloseAll`).
- `StartAssembler` models the two `std::move`s of lines 442-444. They hand the
  child ends to `assemble_cvd`, and the launcher's copies close.
- `WriteFiles` closes the report's write end when it returns.
- `assemble_cvd` and `run_cvd` are not in this repository. They are modelled by the
  contract the launcher relies on:
  - each reads its stdin to EOF;
  - `assemble_cvd` then writes `OutputLen` chunks and exits;
  - `run_cvd` then runs and exits;
  - with `CanFail`, either may fail at any step.

### LaunchArgs

- An argument is a sequence of tokens, one per substring:
  - `-`;
  - `no`;
  - a flag name;
  - `=true`, which stands for any text containing `=`.
- `ConsumePrefix` and the `'='` search act on those tokens.
- `kBoolFlags` is `{daemon}`. `other` is a name that is not in it.

### MetricsPrompt

- A character is a token. `nl`, `cr` and `nul` stand for `'\n'`, `'\r'` and `'\0'`.
- `NoChar` is `-1`.
- Stdin delivers a bounded sequence of characters and then EOF.

### CvdEnv

- A service name is a sequence of tokens, so `EndsWith` is `IsSuffix`. A suffix may
  start inside a word: `Echo` matches `a.TestEcho`.
- Every server also lists the reflection service, which `GetServiceList` drops.

### BootImage

- Text is a sequence of tokens. A dump line is its label token, the value's
  tokens and a `nl` token, so `ExtractValue` is the code's two `find`s (`Find`
  returns the first match or 0 for `npos`) and a `SubSeq`.
- `AvbDump` and `UnpackDump` stand for the output of avbtool and
  `unpack_bootimg`, which are not in this repository: a few lines before and
  after the one the code looks for.
- `ParseVersion` erases the quotes with `Remove` and tests the pattern
  `[1-9][0-9]*([.][0-9]+)*` as a predicate; the reference it is checked against
  splits the value at dots with a recursive operator instead.
- `boot_params` in `build_dir` persists between repacks; the temp directory of
  the version read is a boolean.
- The commit is `DeleteTmpFileIfNotChanged` (61-75): a missing or different
  committed file is replaced and its mtime moves, unless the rename fails; an
  equal one is kept. `BootImage` instantiates `CommittedImage` with
  `committed <- finalImage`, `mtime <- finalMtime`, and as `SignedImages` the
  signed images of a kernel and a command line.

## 3. Runs

| run | cfg | expect | what it shows |
|---|---|---|---|
| commit_guard | `commit_guard.cfg` | pass | See note 1. |
| unpack_failure_sticks | `unpack_failure_sticks.cfg` | violation | See note 2. |
| torn_repacked_ramdisk | `torn_repacked_ramdisk.cfg` | violation | See note 3. |
| avb_random_salt | `avb_random_salt.cfg` | violation | See note 5. |
| bootconfig_trailer | `bootconfig_trailer.cfg` | pass | See note 6. |
| bootconfig_checksum_signed | `bootconfig_checksum_signed.cfg` | violation | See note 7. |
| bootconfig_trim | `bootconfig_trim.cfg` | violation | See note 8. |
| launcher_pipeline | `launcher_pipeline.cfg` | pass | See note 9. |
| launch_args | `launch_args.cfg` on `MC_LaunchArgs` | pass | See note 10. |
| cvd_env | `cvd_env.cfg` on `MC_CvdEnv` | pass | See note 11. |
| boot_image | `boot_image.cfg` on `MC_BootImage` | pass | See note 12. |

1. **commit_guard**
   - Faults: all three kinds. `ModuleRamdisks = {M1}`, so vendor-boot and gem5
     invocations with a kernel-modules ramdisk, the empty one and none follow one
     another on one unpack directory, in any order.
   - `CommitRefinesCommittedImage`: the committed image changes only by a whole
     signed image, and its mtime moves exactly when its content changes.
   - `CommitsOwnBuild`: what is renamed over the committed path was built by the
     same invocation's `mkbootimg`, from the ramdisk it chose, the command line in
     the unpack directory and its own `bootconfig_supported`. The `.tmp` path is
     fixed (line 334), so an earlier invocation killed after `mkbootimg` or
     `avbtool`, or whose rename failed, leaves a `.tmp` behind. Only the status
     check after `mkbootimg` (352-356) keeps a later failed `mkbootimg` from
     having that stale image signed and committed.
   - Neither property says the content is what the caller asked for. Notes 2-4
     show it is not always.
2. **unpack_failure_sticks**
   - A failed `unpack_bootimg` or `cat` leaves the sentinel, line 227.
   - Every later clean invocation then fails too (`FailuresDoNotPersist`).
3. **torn_repacked_ramdisk**
   - The unchecked write at lines 103-106 leaves a torn `vendor_ramdisk_repacked`.
   - It is signed, committed and reported as success (`SuccessMeansCurrent`), and
     the existence test at line 306 reuses it.
4. **The same cache, stale.** This has no run of its own.
   - The repacked ramdisk is cached by existence only (line 306).
   - Another kernel-modules ramdisk, or the empty one, is therefore silently
     ignored.
   - To reproduce it, set `Faults = {}` and `ModuleRamdisks = {M1}` in
     `torn_repacked_ramdisk.cfg`. TLC then violates `SuccessMeansCurrent` with an
     empty-ramdisk invocation that follows a kernel-modules one.
   - spec.md §6 keeps the intermediates for reuse across invocations and does not
     say the inputs may change between them, so this is reported as a gap of the
     spec, not as a run.
   - The same run with `Faults = {"unpack_fail"}` and `ModuleRamdisks = {M1}`
     shows the `cpio` loop of line 155. That loop exits 0 whatever `cpio` does, so
     a truncated `concatenated_vendor_ramdisk` is extracted in part without any
     error. It is then repacked, signed and committed as a success.
   - `RepackGem5BootImage` uses `vendor_ramdisk_repacked` whenever it exists
     (line 403). A gem5 call with the empty input ramdisk after
     `RepackVendorBootImage(M1)` gets the M1 ramdisk; one with no input after
     `RepackVendorBootImageWithEmptyRamdisk` gets the stripped ramdisk, with no
     `lib/modules`. spec.md does not say which ramdisk such a call should take, so
     no property claims it.
   - The gem5 call truncates the initrd first (line 392). A repack that aborts
     after that leaves the initrd empty, and the model keeps it empty.
5. **avb_random_salt**
   - `avbtool add_hash_footer` without `--salt` (358-366) makes every repack differ.
   - The committed image is therefore rewritten on every launch, against the comment
     at 54-60 (`StableInputsKeepFile`).
6. **bootconfig_trailer**
   - Runs with `char` unsigned, over all bootconfig files of up to two bytes, missing
     files included.
   - The kernel finds the bootconfig exactly where the ramdisks end.
   - The kernel accepts the checksum.
7. **bootconfig_checksum_signed**
   - With `char` signed (x86_64), a byte ≥ 0x80 gives a checksum the kernel rejects.
   - The cause is line 449.
8. **bootconfig_trim**
   - `erase(find_last_not_of('\0'))` (line 435) also drops the last non-NUL byte.
   - spec.md §4.4 says only the padding is removed.
9. **launcher_pipeline**
    - Two instances, with one-chunk pipes.
    - The report and the output are each two chunks long, so both pipes fill.
    - Children may fail at any step.
    - `LauncherTerminates`: `launch_cvd` always returns.
      - Writing the whole report before reading any output cannot deadlock only
        because `assemble_cvd` is modelled as draining its stdin before it writes.
        That is an assumption about `assemble_cvd`, so this run does not rule
        out the deadlock of hazard `main.cc:447`.
      - Every pipe end the launcher hands over or finishes with is closed. The
        comment at 440-441 warns that without this, `run_cvd` hangs.
    - `RunnersGetWholeConfig`: every `run_cvd` that starts was given the whole
      output of an `assemble_cvd` that succeeded.
    - `ExitStatusReflectsChildren`: exit 0 means every child exited 0.
    - The run starts at the `--system_image_dir` extraction, then the metrics
      prompt (`AskMetrics`, lines 387-388), over
      every flag value, every previous config and every stdin of up to two
      characters (the flag's own character makes three).
    - `PromptReturns`: once `main` reaches the prompt, the prompt returns.
      `main` may exit before that, on a bad `--system_image_dir`.
    - `AnswerMatchesInput`: the answer is the one the flag, the config or the first
      y/n/empty-line character gives, with EOF meaning no. A recursive reference,
      `FirstAnswer`, defines that answer.
10. **launch_args**
    - Every command line of up to two arguments, each of up to four tokens.
    - `RewritesExactlyDocumentedForms`: exactly the forms `-flag`, `--flag`,
      `-noflag` and `--noflag`, named in the comment at 277-280, become
      `--flag=true` or `--flag=false`. Everything else reaches gflags unchanged.
      The comment writes the result as `-flag=true` for a one-dash argument;
      `FormatBoolString` always writes two dashes, which gflags reads alike.
11. **cvd_env**
    - Every assignment of three services to two servers, and every subcommand with
      up to three arguments.
    - `ResolvesUniqueService`: `ls` and `call` reach a server exactly when the typed
      name means one (server, service) pair across the whole instance, and then
      they reach that pair.
    - The services include two that share a last component (`a.Echo`, `b.Echo`)
      and one where `Echo` matches inside a word (`a.TestEcho`).
12. **boot_image**
    - The version is read once, then `RepackBootImage` runs twice on the same
      `build_dir`, each time on a boot image whose command line may have changed.
    - Every step may fail; a failed `unpack_bootimg` leaves any prefix of its dump
      in `boot_params`.
    - `VersionFollowsDump`: when the dump carries `os_version`, a returned version
      is the one a line-based reference (strip the surrounding quotes, split at
      dots, digit groups with no leading zero) reads from it, and with no fault
      the call does return it, "None" giving `0.0.0`.
    - `NoTempDirLeft`: the temp directory is removed on every path.
    - `CmdlinePreserved`: a committed boot image has the new kernel and the
      command line of the image being repacked, never one read from an earlier
      invocation's `boot_params`.
    - `CommitRefinesCommittedImage`: the committed boot image, with its mtime,
      behaves as `CommittedImage` says. The model's boot image carries no salt,
      because the `Avb` class that signs it is not in this repository; if it
      salts randomly as avbtool does at line 358 (note 5), a repeated repack
      rewrites the file, which the refinement allows.

`VendorBootRepack`, `BootconfigTrailer` and `Launcher` keep a `TypeOK` that
documents the type of every variable. No run checks it: a bug this code could
have would not break it without also breaking a property that is checked.

Each property of a passing run has a mutant in `PROJECT.json`: an operator defined
just before the one it replaces, modelling a plausible bug. The mutants are:

- `mkbootimg`'s exit status not checked;
- avbtool's exit status ignored;
- the checksum loop starting at 1;
- the length off by one;
- the launcher keeping the report's write end open;
- reading the output until the pipe is empty instead of until EOF;
- the last runner's status overwriting the earlier ones;
- a single-dash-only `IsBoolArg`;
- the metrics character not lowered;
- EOF ignored in the prompt loop;
- `GetFullServiceName` without its ambiguity check;
- the version pattern accepting a leading zero;
- the temp directory kept when avbtool fails;
- `boot_params` appended to instead of truncated;
- avbtool's status ignored for the boot image.

TLC finds every one of them.

## 4. Bounds and why they are enough

- **VendorBootRepack: `MaxRuns = 4` in the passing runs, 3 in the violation runs.**
  - It takes one invocation to leave debris, one to trust it, and one more to see
    that the debris stays. Three are enough for every violation found.
  - The fourth invocation lets a vendor-boot repack leave the cache, a gem5 call
    reuse it, and a further invocation of either kind follow a killed one.
  - Three is also the least number that, with faults, reaches a commit that changes
    the image after one that did not.
  - `ModuleRamdisks` is `{M1}` in `commit_guard`. With `EmptyRamdisk` and
    `NoRamdisk` there are three distinct `new_ramdisk` values, enough for the cache
    to go stale (note 4) and for a stale `.tmp` to differ from the next build.
  - `Salts` has a single element, except in the salt run. Neither passing
    property depends on the salt.
- **BootconfigTrailer.**
  - Files of up to 2 bytes over `{0, 10, 97, 200}`. This includes the following
    cases:
    - NUL padding;
    - all-NUL files;
    - a trailing newline;
    - a byte ≥ 0x80;
    - missing files.
  - A 6-byte preamble keeps every case of the -1 size arithmetic distinct.
  - Length and checksum keep their 32-bit width, so only the sizes are small.
- **Launcher.**
  - `PipeCap = 1` is smaller than `ReportLen = OutputLen = 2`, so every write
    blocks at least once on a full pipe. That is where a deadlock would show.
  - `NumInstances = 2` gives a first runner and a later one, so the partial-failure
    and status-combining cases both occur.
  - Chunk counts stand for byte counts. Only whether a pipe is full, empty or
    closed matters.
- **LaunchArgs.**
  - Four tokens are the longest documented form, `--no` + name
    (`-`, `-`, `no`, `daemon`), so every documented form, every prefix and a
    misplaced `=` around each occur. The run has about 3 million states.
  - Two arguments show that the conversion is per argument.
- **MetricsPrompt** (inside `launcher_pipeline`). `MaxInput = 2`, with the
  flag's character, gives an ignored character, a capital, and then an answer or
  EOF. Three characters more than multiply the launcher's state space.
- **BootImage.**
  - `os_version` values are every sequence of up to three of `1`, `0` and `.`,
    the same quoted, `None` and a non-numeric word. That covers a valid version,
    a leading zero, empty groups, a trailing dot, quoting and the placeholder.
  - Command lines are sequences of up to two of `a=b` and `c`, the empty one
    included, so consecutive images can differ or share a prefix.
  - `MaxRuns = 2`: a second repack is the first that can read a stale
    `boot_params`.
- **CvdEnv.**
  - Two servers and three services reach every case: a unique match, a match on two
    servers, two matches on one server, and no match.
  - The given names are `Echo`, `a.Echo`, `TestEcho` and `reflection`.

## 5. Fairness

- **VendorBootRepack, BootconfigTrailer, LaunchArgs and CvdEnv.** These check only
  safety properties, so they assume no fairness. Each step there is a blocking call
  or a pure computation.
- **Launcher.** It assumes weak fairness on three kinds of step:
  - the launcher's own steps;
  - `assemble_cvd`'s reads and writes;
  - each `run_cvd`'s reads and its exit.

  Each of these is a separate process that the kernel schedules. A `run_cvd`
  eventually exits, either because it daemonizes or because the device is stopped.
  Failure steps have no fairness, so a child may fail but is never forced to.
  The metrics prompt is one of the launcher's own steps, so it gets the same weak
  fairness: it blocks only on stdin, and stdin ends in EOF. The children's steps
  are fair with respect to the pipeline variables only (`WF_pipeline`), because
  they leave the prompt's variables alone.
- **BootImage.** Only safety properties; no fairness.

## 6. Not modelled, and why

- `ExtractValue` is an operator of `BootImage`; `VendorBootRepack` still uses only
  its outcome: the command line is found iff the sentinel holds a complete report.
- The `cpio` loop (line 155) is modelled only by its outcome
  (`UnpackRamdiskAborts`). The loop `while cpio -idu; do :; done` exits 0 whatever
  happens, so spec.md §4.3's "fails hard if extraction fails" does not hold of it
  (runs note 4). `PackRamdisk` is not modelled: nothing in this repository calls it.
- **Missing `os_version`.** spec.md §4.7 says a missing or placeholder value maps
  to `0.0.0`. The code maps only the literal `None`; a dump without the property
  gives `ExtractValue`'s empty string, which fails the pattern, so the call
  returns an error. `VersionFollowsDump` is stated for dumps that carry the
  property; no run shows the missing case.
- `RepackGem5BootImage` is split between two modules. `BootconfigTrailer` has its
  trailer, with a fixed ramdisk prefix. `VendorBootRepack` has its vendor-ramdisk
  choice, with the trailer left out. The two parts share no state, so no property
  needs them together. The boot ramdisk (`unpack_dir/ramdisk`) is only read.
- `Gem5WriteInitrd` leaves out one failure: if the vendor ramdisk stream at
  line 405 cannot be opened or is empty, copying it sets `failbit` on the
  initrd stream (line 438), and nothing after it, bootconfig and trailer
  included, is written. No property is about the initrd's trailer in that
  module.
- The termination of the `cpio` loop depends on toybox `cpio` reading its stdin,
  and toybox is not in this repository.
- `ReadAndroidVersionFromBootImage` overflows its 200-byte path buffer for a long
  `$TEMP` (466, 481). That is memory safety, out of TLA+'s reach.
- Logging, path construction and tool command lines are left out. No property is
  about them.
- `launch_cvd`: `HostToolsUpdated` and `ShareSchedCore` only log or configure.
  Flag forwarding, gflags parsing and `setenv` are left out as well, because no
  property depends on them.
- `cvd_env`: `grpc_cli` output and formatting are left out. Options are passed
  through unchanged and are not modelled.
- `snapshot_utils.h` (declarations), the selector-parser test table and the HAL test
  (device I/O) have no state machine of their own.

## 7. Plan for later work

Every component with code in this repository is now modelled. What remains
depends on code outside it (toybox `cpio`, avbtool, the callers of
`RepackGem5BootImage`), or is memory safety. Later work would raise bounds and add
properties, not components.
