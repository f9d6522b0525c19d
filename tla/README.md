# A TLA+ verification of leviso

leviso builds the LevitateOS ISO: it downloads a Rocky Linux ISO and packages
by recipe, assembles a root file system from them, packs it into an EROFS
image, makes two initramfs images and the ISO (or a qcow2 disk), caches all of
it, and boots the result in QEMU.  Nearly everything it does is a change of the
output directory, made by a sequence of calls each of which may fail, by
commands that may be killed at any moment and that start from whatever earlier
commands have left.  That is what the modules are about.

At this commit `main` (`src/main.rs:164`) bails with "Deprecated entrypoint blocked"
before it parses its arguments, so that none of the commands can be started
through the binary.  The modules are about the code behind it, the commands of
`src/commands/` included, as it would run without that line.

Paths of source files below are relative to the repository.

## 1. The system

| Part | State | Operations | Module |
|---|---|---|---|
| Rootfs build (`src/artifact/rootfs.rs`) | the published pair `rootfs-staging` / `filesystem.erofs` and the same two as `.work` | `build_rootfs`, `verify_staging`, `clean_rootfs` | `RootfsBuild`, `ArtifactSlot` |
| Commands (`src/commands/build.rs`, `run.rs`, `src/rebuild.rs`, `src/clean.rs`) | artifacts, `.…-inputs.hash` files, artifact store, kernel, ISO, qcow2 image | six build and run commands, the clean commands | `BuildPipeline` |
| ISO and UKI builder (`src/artifact/iso.rs`, `uki.rs`) | live overlay, UKIs, temporary ISO, ISO, checksum | `create_iso`, `verify_iso`, `create_live_overlay_at` | `IsoBuild`, `UnverifiedSlot`, a step of `BuildPipeline` |
| Initramfs builders (`src/artifact/initramfs.rs`) and the kernel (`deps/linux.rhai`) | staging kernel and modules, initramfs files | install and cleanup of the recipe, `find_kernel_modules_dir`, `find_kernel_version` | `KernelStaging`, steps of `BuildPipeline` |
| qcow2 builder (`src/artifact/qcow2/`) | work directory, disk image | `build_qcow2` and its steps | `Qcow2`, `UnverifiedSlot`, a step of `BuildPipeline` |
| Components and executor (`src/component/`, `src/build/`) | the staging tree, `etc/passwd`, `etc/group` | `build_system`, the handlers of `execute_op`, the custom operations | `SystemBuild` |
| Boot test (`src/qemu.rs`) | QEMU, the serial pipe, reader thread, channel, two timers | `test_iso` | `BootTest` |
| Recipes and extraction (`deps/*.rhai`, `src/recipe/`, `src/extract.rs`) | downloads, extracted trees, markers | acquire, build, install, cleanup of three recipes; `clean_downloads` | `Recipes` |
| Live init (`profile/init_tiny.template`) | mounts, the overlay | probe, mount, `switch_root` | `LiveInit` |
| Preflight (`src/preflight/`) | none | checks and reports | not modelled |
| Configuration, `show`, dispatch, helpers | none | parsing, printing | not modelled |

How the parts interact.  A full build runs the recipes (`rocky.rhai` only if there
is no `downloads/iso-contents/BaseOS` yet, `src/commands/build.rs:72`; then
`packages.rhai` and `epel.rhai`), asks `rebuild.rs` what is stale, calls the builders in turn, writes the hash files and puts the
results into the artifact store, from which a later command restores a file
that is missing.  `build_rootfs` calls `build_system`, which walks through the
components and lets the executor carry out their operations on the `.work`
tree.  The ISO is made from the image, the initramfs files and the kernel; the
qcow2 image from the staging tree and the install initramfs.  `run` and `test`
boot the ISO.  Nothing locks the output directory, and the model has one
command at a time, as the code expects.  The parts communicate through files,
so the modules abstract one another's results: `SystemBuild` refines the step
`BuildSystem` of `RootfsBuild` in prose only, `BuildPipeline` has the end
states of `RootfsBuild` as three actions and `create_iso`, `build_qcow2` and the
kernel step as one action each, which `IsoBuild`, `Qcow2` and `KernelStaging`
take apart.

What is hard here: a kill or an error between two file system calls; errors
that are ignored (`let _ = fs::remove_dir_all`); staleness decided by hashes
taken at another time than the contents were read, or by modification times;
publishing before verifying; sequences of commands; order of phases that
write the same file; and, in the boot test, real concurrency with timeouts.
The list, at the lines where it bites, is under `hazards` in `PROJECT.json`.

What makes each part correct:

* rootfs build: what is published was verified and is complete; a failure does
  not touch it; success means that both halves are of this build;
* commands: success means current artifacts and an ISO made of exactly these;
  what is reported as fresh is current; what is stored is finished;
* components: a tree that is reported as built has what the components list,
  accounts and keys included;
* boot test: the verdict is that of the guest, it always comes, and no QEMU is
  left behind;
* recipes: a marker never hides work that is to be done again, and packages are
  merged into a rootfs of their own release;
* kernel: an ISO holds one kernel and the modules of exactly this kernel;
* ISO: what is at the final path is whole, of one build, and its UKIs, overlay
  and checksum are its own;
* qcow2: the image is of the parts as they are, its UUIDs agree, its partitions
  fit, and it holds no secret that all machines would share;
* live init: the live system runs from one medium, and a medium that appears in
  time is booted.

## 2. Modules

### ArtifactSlot

The promise of a builder with one output file: the slot holds the number of the
build whose finished output is in it, or 0; a build in progress may empty the
slot, fill it with its own output or leave it alone, and a reader never sees
anything else in it.  Five actions, no failure modes of their own.

### UnverifiedSlot

The weaker promise of the two builders that verify an artifact only at its final
path: `Publish` and `Succeed` are two actions, and between them a build may fail
with its artifact in the slot, which `Commit` of `ArtifactSlot` excludes.
`RenamedSpec` is that of `create_iso`, which renames: the old artifact is there until
the new one is, and none is ever half written.  `WrittenSpec` is that of
`convert_to_qcow2`, which removes the old image and writes in place.  The
refinement mappings are in `IsoBuildProofs` and `Qcow2`; TLC checked both
(`ImplementsSlot` there) with the constants of the runs `iso_build` and `qcow2`
before they were proved, and the run `qcow2` checks the one of `Qcow2`.

### RootfsBuild

`build_rootfs` call by call: `BeginBuild` (with `check_host_tools`), two
removals of the work locations whose errors the code ignores, `CreateWork`,
`BuildSystem`, `VerifyStaging`, `mkfs.erofs` in two steps so that it can be
stopped in between, the cleanup on failure, and the swap: two removals whose
errors are ignored and two renames.  `clean_rootfs` works on the same paths and
is in the same module.  `Cancel` kills the command at any point; where a
directory is just being removed, it is left half-empty (`RemovalInProgress`).
A path holds how complete its content is, which build wrote it, and whether
every file in it is of that build.  `swallowed` records that a removal failed
and the code went on.

### BuildPipeline

The six commands as programs, sequences of `<<step, artifact>>` in the order of
the code (`FullSteps` … `RunSteps`), over one action per kind of step.  An
artifact is the version of its inputs it was made from and whether it would
pass its verification.  A builder reads its inputs in one step (`BuildReads`)
and writes in another; in between the developer may edit them (`Edit`).
`newer` is the set of things written after the ISO, which is all that
`iso_needs_rebuild` can see.  The artifact store is external and modelled from
its use: entries by key, restored if the output is missing.  Hash files are
written after the build with the inputs of that time (`CacheHash`), as
`Artifact::cache_hash` does; writing one may fail, which is only a warning
(`hashLost`).  The kernel comes from outside (`cargo xtask`), and the recipe
that installs it may remove what it was compiled into.  So after a full build
that succeeds `show status` may still report the kernel as one to be compiled
or installed, and not "Nothing to rebuild"; `SuccessLeavesImagesUpToDate` is about
its other four lines.  The kernel payload that a full build puts into the store
(`src/commands/build.rs:156`) is left out: an error of it only warns, and nothing
restores it.

### SystemBuild

`build_system` as one sequence of operations `System`, the concatenation of the
components and services of `definitions.rs` in the phases of `builder.rs`.
`ServiceOps` is `Service::ops`.  A custom operation is the sequence of
operations on the tree that it amounts to.  An item is a path or a list of
paths that one operation installs; alike operations of a component on unrelated
paths are represented by one.  What differs between the handlers is kept: which
bail if the source lacks something and which pass over it, which keep what is
in the tree and which write over it.  `missing` is what the source lacks;
`Within` says which files a tree brings along that another operation names too,
since these are where order matters.  `Fails` is an error or a kill at any
operation, in a copy with the file cut short.  `Begin` starts another build,
in an empty tree or, if the removal of the old one failed and the code went on,
in what is left of it; in the meantime packages may have been added.  The source
carries no release, so that a file which a copy keeps from an older release in a
tree that was not removed is not told apart.  `ESSENTIAL_UNITS` stands for the
units of that list that `verify_staging` does not filter out.

### BootTest

`test_iso`: the guest (external) prints lines, a prompt without a line end, or
bytes that are not UTF-8; QEMU may exit at any time; the reader thread moves
lines from pipe to channel; the main loop checks its two timeouts, then
receives with a timeout of its own.  Time advances in `Tick`, at any moment.
The reading of a line, matching it and returning is one action, since nobody
else sees the state in between.

### Recipes

`rocky.rhai`, `packages.rhai` and `epel.rhai` phase by phase, as the external
executor runs them: all phases are skipped if `is_installed` does not throw, one
phase if its own `is_…` does not, and `cleanup` follows or does not.  A tree is
the release it is of and the parts that are there; the parts are chosen by what
the recipes look at (`usr`, `BaseOS`, `BaseOS/Packages`, the image, the
critical and the other verified binaries, the man pages that bloat removal
deletes) and what they do not look at (`rest`).  An extraction or removal may be
cut off, with what it leaves given by `PartOfIso`, `PartOfSquashfs` and
`RemainsOf`.  Between commands the developer raises a version, calls a
recipe's cleanup or cleans the downloads.  `Start` has the guard of
`src/commands/build.rs:72`: a build goes past `rocky.rhai` where there is a BaseOS
directory, whatever there is of the rootfs, and only `download` and `extract`
always run it.  `cut` records what was cut off or, as "skipped", gone past before
it was done, as some properties hold only without it and say so.

### KernelStaging

The kernel from `cargo xtask` through `deps/linux.rhai` to staging, and from
there to rootfs, initramfs and ISO, each of which looks for modules on its
own.  A compilation is a number with a release; two compilations may share a
release, and then the recipe's `mv` does not replace the modules of the first.
`cleanup` removes `kernel-build` after a success or a failure, if the executor
calls it.  Of a directory of modules the model knows the compilation that all of
them are of, or none; after an install or a clean that was cut off, none may also
be a part of them, which `mv` does not replace and `recinit` may accept.

### Qcow2

`build_qcow2` step by step: the checks, the work directory, the eight steps of
`prepare_qcow2_rootfs` on the tree, the two partitions, the disk, the removal
of the old image and the conversion to the final path, two verifications with
the cleanup between them.  Sizes are in the `u64` arithmetic of line 105 of
`qcow2/mod.rs` (`RootSizeMb`, modulo `Modulus`); a UUID is the number of the build
that made it.

### LiveInit

The `/init` of the live initramfs, command by command: the virtual file systems,
`insmod`, two sleeps, the loop over the devices, the image, the overlay and
`switch_root`.  Devices appear while it runs (`Appear`), and any command may
fail; where the script does not test the outcome, it goes on.  Mounts on `/mnt`
are a stack, since a device that could not be unmounted stays below the next
one.  Its state predicates and its specification have names with `Boot`
(`BootInit`, `BootNext`, `BootSpec`), since `LiveSystemProofs` extends this module and
`SystemBuild`.

### IsoBuild

`create_iso` step by step: validation, the overlay file by file, one UKI after
the other, `reciso` to the temporary path, the two renames, the removal of the
UKIs (whose error is ignored) and the verification.  Parts are rebuilt and
cleaned between builds; the files of the overlay may be edited at any time.

## 3. Runs

| Run | Result | What it shows |
|---|---|---|
| `rootfs_build` | passes, 9 thousand states | the properties of `RootfsBuild`, that every command ends, and that the image implements `ArtifactSlot` |
| `pipeline` | passes, 5.9 million states | `StoreHoldsFinished`, `SuccessIsCurrent`, `SuccessLeavesImagesUpToDate`, `FreshIsoHoldsParts` |
| `pipeline_stale` | violated | `UpToDateIsCurrent`: an edit during a build is hashed as if it had been built |
| `system_build` | passes, 3.7 million states | `OkTreeIsAsListed`, `HostKeysAreAPair`, `PrimaryGroupExists`, `EnabledUnitsAreThere` |
| `system_accounts` | violated | `AccountsSurvive`: static account files overwrite the ones that services added to |
| `boot_test` | passes, 0.7 million states | `VerdictIsFirst`, `ExitLosesNoVerdict`, `NoQemuLeftBehind`, `StallNamesStage`, `TestEnds` |
| `recipes` | passes, 7.7 million states | `BloatRemovalSparesPackages`, `TreesOfOneRelease`, `OkHasKeyBinaries`, `RockyLeavesTrees` |
| `recipes_partial` | violated | `OkRootfsIsWhole`: the build after one that was killed in the extraction goes past `rocky.rhai` and succeeds with a part of the rootfs |
| `kernel` | passes, 2.9 million states | `KernelHasModulesDir`, `NoRockyModulesInIso`, `IsoModulesMatchKernel` |
| `qcow2` | passes, 2.7 million states | `OkImageIsCurrent`, `UuidsAgree`, `ServicesEnabled`, `NoSharedSecrets`, `PartitionsFit`, `UnderflowKeepsImage`, and that the final path implements `UnverifiedSlot` |
| `live_init` | passes, 2.1 million states | `RunsFromOneMedium`, `BootsIfInTime` |
| `iso_build` | passes, 1.1 million states | `UkisMatchIso`, `OldOrNewIso`, `OkIsoIsCurrent`, `ChecksumIsOfIso` |

Every property of a passing run has a mutant in `PROJECT.json`: a faulty variant
of one action, defined beside the real ones and named for its bug, that makes
TLC find the property violated.  `TypeOK` gives the state of each module its
shape; it is proved for every module, as the first conjunct of an inductive
invariant (in `LiveInit` it is called `BootTypeOK`).  That the published
image is whole (`ErofsIsWhole`) is proved and, in the run, part of
`ImplementsSlot`.

### Bounds, and why they are enough

The safety properties of every module are proved for all values of the bounds
(section 4).  The bounds below are those with which TLC checked them
first, and the ones that the liveness properties and the violations rest on.

* `RootfsBuild`, `MaxBuilds = 3`: a build can meet what the build before it has
  left, and what that one made of the leavings of a third; the proofs cover
  every number of builds.
* `BuildPipeline`, two commands and one clean, two versions of the inputs of one
  artifact, all six commands: the defects that a command can meet are what
  one earlier command, a clean and an edit leave.  The three artifacts have
  the same logic for staleness; the install initramfs is the one edited since
  three commands treat it differently.  `pipeline_stale` needs one command
  and its edit.
* `SystemBuild`, one missing thing and two builds: an operation looks at one
  item of the source and at what is in the tree; things that go missing
  together (both host keys, the modules of both kernels, a tree and the files
  in it) count as one.
* `BootTest`, a pipe of two lines and a channel of one, timeouts of 3 and 1
  ticks: a line can be in each of the three places (pipe, channel, main loop)
  while another one follows, also behind one that is not UTF-8, and the stall
  timeout is the shorter one, as in the code.  The texts are
  of the kinds that the loop tells apart: the firmware, the kernel, init without a
  verdict, a success, two failures (one of which names init too), and a line that is
  not UTF-8.  The bounds on pipe and channel
  block the writer, as a pipe does; the channel of the code is unbounded and the
  properties are about the order of lines, which does not change.
* `Recipes`, three commands, one cleanup, two versions of each recipe: the
  longest scenario that the recipes guard against is a command that is cut off,
  a change of version and a retry.  The parts of a tree stand for classes of
  files that the recipes treat alike.
* `KernelStaging`, three compilations of two releases, three commands, two
  cleans: a cut-off install, another compilation of the same or the other
  release over it, and a build; every assignment of releases is an initial state.
* `Qcow2`, sizes of 0, 1 and 2 GB, two builds, one change: the two sizes that
  underflow and one that does not; a second build finds what the first one has
  left, and after a change it differs in every part.  `Modulus` is 2^30 in the run
  and not 2^64, since TLC's integers are of 32 bits; what matters is that an
  underflow gives a size above `MaxFile`, the largest file a host can hold,
  which `SizesAssumption` asks for.
* `LiveInit`, three devices, of which two are those the script names, one
  failure: all four kinds of medium and four times of appearing for each.
* `IsoBuild`, two overlay files, two UKIs, two versions of each part, three
  builds and two changes: a killed build, a change, and a build that meets the
  leavings, and that with one build in between.

Deadlock is checked except where the system really stops: `SystemBuild` (all
builds are done) and `BootTest` (the test is over).  Where commands are
bounded in number, `Rest` is the state without a command running.

### Fairness

`RootfsBuild`: weak fairness of the phases of a command together; the code is
sequential and waits for nobody but its child processes.  Nothing forces a
build to begin, fail or be killed.  `BootTest`: weak fairness of the main loop,
which never blocks for more than 100 ms, and of `Tick`, time.  Nothing is asked
of the guest, of QEMU or of the reader thread: `TestEnds` holds also if they
hang.  `LiveInit`: weak fairness of the script, which runs alone as process 1,
and of each device that the kernel can find; that somebody leaves a shell is not
assumed.  The other modules have safety properties only.

## 4. Proofs

Every safety property of a passing run is proved by TLAPS, and so are the action
property of `BootTest` and three refinements: of `ArtifactSlot` by `RootfsBuild`,
and of `UnverifiedSlot` by `IsoBuild` and by `Qcow2`.  A component's theorems and
proofs are in a module of its own, named for it: `RootfsBuildProofs`,
`BuildPipelineProofs`, `BootTestProofs`, `RecipesProofs`, `KernelStagingProofs`,
`Qcow2Proofs`, `IsoBuildProofs`; those of the two modules about the live system,
`SystemBuild` and `LiveInit`, share `LiveSystemProofs`.

All proofs have one shape.  The properties are not inductive by themselves:
what a build has established when it reports success comes from what held at
each call before.  `IInv` is `TypeOK`, parts that say what the program relies
on at each step, and the properties.  `Init => IInv`; every action preserves it,
one step per action and under it one per conjunct that the action can disturb;
and each property is a conjunct of `IInv` or follows from it.  TLC checked each
`IInv` with the constants of the run before it was proved.  `TypeCorrect` in each
module is `Spec => []TypeOK`.

The assumptions are those that the modules state of their constants.  Bounds
are any natural numbers; what else is assumed is said below.

### RootfsBuildProofs

For every `MaxBuilds`, each safety property of `rootfs_build`, and that
`RootfsBuild` implements `ArtifactSlot` (`RefinesSlot`).  The parts of `IInv`:

* `WorkInv`: what the running build has established at each call about the work
  locations: from `build_system` on the tree is of this build, from `mkfs` on it
  is whole, in the swap the work image is made from the work tree;
* `RemovedInv`: which of the old artifacts are gone at each call of the swap,
  if no removal error was ignored;
* `ControlInv`: `before` is what is published as long as the swap has not begun;
* `GenInv`: a published image is of a build that was started, which the
  refinement mapping needs.

For the refinement, each action is shown to be a step of the slot (`Begin`,
`Withdraw`, `Commit`, `Abort`, `Forget`) or to leave it alone, under `IInv`.

### BuildPipelineProofs

`StoreHoldsFinished`, `SuccessIsCurrent`, `SuccessLeavesImagesUpToDate` and
`FreshIsoHoldsParts`, for any number of commands, cleans and versions, any of the
six commands and any of the inputs that may be edited.  `DoneInv` is the argument:
`Done(c, n)` says that whatever the rebuilding command `c` has done before its
`n`-th step still holds: no later step of the same command disturbs an artifact
that was built, a hash file that was written, or the ISO.  The order of the steps
in `Program` is what makes this true, so that the lemmas `FullStepsAre` and so on
write the programs out and `Order` says which step precedes which.  `ReadingInv`:
a builder that is at work has read the inputs there are, unless they were edited.
`FreshInv`: what is not newer than the ISO is in it.  `ControlInv`: a command that
runs is at a step of its program.

### BootTestProofs

`VerdictIsFirst`, `ExitLosesNoVerdict`, `NoQemuLeftBehind` and the action property
`StallNamesStage`, for any timeouts, any of the texts that a line may have and any
positive bounds of pipe and channel; so the bounds that block the writer do not
matter.  `VerdictInv` follows the verdict on its way: as long as the main loop
runs, the first line with a pattern is the first such line of the channel or, if
it has none, of the pipe, also behind a line that is not UTF-8.  `StageInv` does the
same for the last boot stage; `GarbledInv` and `EndInv` say why the reader has ended:
QEMU is gone and the pipe is empty, or the next line is not UTF-8, and then whatever
has a pattern is behind it.  The
lemmas on sequences (`AppendLine`, `TakeLine`) say what a line that is appended or
taken does to such a first line.

### RecipesProofs

`BloatRemovalSparesPackages`, `OkHasKeyBinaries`, `TreesOfOneRelease` and
`RockyLeavesTrees`, for any number of versions of both recipes, commands and
cleanups.  `TreeInv`: the two trees are of one release, but for a rootfs that
`built` marks as one to be replaced.  `ControlInv`: what each phase has checked; past
`rocky.rhai` bloat removal is done or was gone past ("skipped").  `MarkerInv`: what the
version marker and the manifest of `packages.rhai` say of the rootfs; the lemma behind
it is that package lists only grow with the version (`PackageLists`).  `PackagesInv`:
packages are below `usr`, so that a rootfs with any is not extracted again.

### KernelStagingProofs

`KernelHasModulesDir`, `NoRockyModulesInIso` and `IsoModulesMatchKernel`, for any
set of releases, any number of compilations and any assignment of releases to
them.  `StagingInv`: as long as nothing was cut off, staging is empty or has one
kernel and one modules directory, the one of this kernel, except in the middle
of an install, where `ControlInv` says how far it has come.  `ArtifactInv`: what
the builders of a running command took their modules from is still what
`create_iso` takes its kernel from.

### Qcow2Proofs

All six properties of `qcow2`, for any accounts with `root` among them, any
services, and any sizes and `Modulus` such that a size in MB is below `Modulus`
(a `u64` holds what was asked for) and the largest file of the host leaves room
for the EFI partition (`SizesAssumption`).  These hold for the `2^64` of the code.
`RootSizeFits` is the lemma on the arithmetic: if the root partition could be
made, then its size did not underflow, and the partitions fit.  `TreeInv`: the
work tree is a copy of staging with what the steps so far have changed;
`WorkInv`: the partitions and the disk are of this build; `ImageInv`: what was
converted is of the parts there are; `ControlInv`: the image is untouched until
the old one is removed, and no step after the partitions is reached for a size
that underflows.

`RefinesSlot`: `Qcow2` implements `WrittenSpec` of `UnverifiedSlot`.  `FinalInv` is what
the mapping needs beyond `IInv`: the conversion starts with nothing at the final
path, and afterwards the image there is of this build.  So what is in the slot
is of one build, and a build that reports success has its own in it; what the
weaker specification admits, and the code does, is `Tear`, an image that is cut
off at the final path, and a time without any image.

### IsoBuildProofs

All four properties of `iso_build`, for any number of overlay files, of UKIs
(none included), versions, builds and changes.  `UkiInv` and `OverlayInv` are
loop invariants: what is before the current entry is of the current parts, and
of the overlay nothing behind it is left over.  `OverlayMadeInv` and `IsoInv` carry
this to the temporary ISO and through the renames.

`RefinesSlot`: `IsoBuild` implements `RenamedSpec` of `UnverifiedSlot`, with `NoPartialIso`
besides `IInv`: only the rename, which is `Publish`, and `clean_iso` touch the final
path, and everything else is a stutter or begins or ends a build.

### LiveSystemProofs

First `SystemBuild`: `OkTreeIsAsListed`, `HostKeysAreAPair`, `PrimaryGroupExists` and
`EnabledUnitsAreThere`, for whatever the source lacks and any number of builds,
failed and killed ones and those in a tree that was not removed included.  The last
is about the units of NetworkManager, chronyd and the EFI variables, which
`verify_staging` asks for; `dbus.socket` and the units of getty and udev may be enabled
and missing in a tree that passes.

A build succeeds at the end of `System`, so the invariant has to say what the
operations before the current one have done.  `Achieved` says it of one operation:
what it makes is there, what it copies is there unless the source lacks it,
every user in `etc/passwd` has its group, both host keys are there.
`DoneInv`: every operation before `ip` has achieved its purpose, and all of them
have after a success.  The lemma behind it is `AchievedStays`: no later operation of
the same build undoes what was achieved.  That holds because an item comes into
the tree in one way only (`Apart`; the PAM file of sshd, which is copied and
written, is the exception), and because of the order of the phases, which
`SystemShape` states: the `lib` symlink comes before whatever goes by way of it, and
no account is ensured after the account files were replaced.  `ValuesInv`: what
can be at each item at all; `CleanInv`: in a tree that the build began empty nothing
is cut short, and a host key that was generated was generated with the other.

`Advances` and `Stops` are what all operations have in common, so that `IInv` is
proved for two kinds of step and each handler is shown to be of these kinds.
That each operation that `definitions.rs` lists is of a known kind (`KnownOps`) is
proved component by component.

Then `LiveInit`: `RunsFromOneMedium`, for any number of devices and failures.
`LookingInv`: while devices are tried, fewer are stacked on `/mnt` than were tried,
which also bounds the stack; `MediumInv`: afterwards the chosen device is on top
of it and what was mounted is of that device.

### Only model-checked

* `CommandsEnd`, `TestEnds` and `BootsIfInTime`: liveness, and the prover has no
  fairness.
* The three properties that are violated, of course.

## 5. What the checks found

Three properties that the documentation or the code itself states are violated;
`findings` in `PROJECT.json` has the lines.

Disagreements met while modelling, without a run of their own:

* a rootfs build killed inside its swap has lost the artifacts that the
  documentation (`src/artifact/rootfs.rs:66`) says are preserved; the new pair is
  still there under its `.work` names (`CancelKeepsAPair`);
* `verify_build_dependencies` (`src/artifact/qcow2/mod.rs:196`: "exist and are
  valid") asks only whether the install initramfs exists; a failed rebuild leaves
  a broken one beside a hash that still matches;
* the ISO is renamed to its final path before it is verified
  (`src/artifact/iso.rs:165` and `179`) and stays there if that fails; `run` boots
  any ISO there is;
* a line that is not UTF-8 ends the reader of the boot test (`src/qemu.rs:157`),
  which then reports that QEMU exited and leaves it running; and a login prompt
  (`src/qemu.rs:20`), which no newline follows, is never a line, so that a guest
  that waits at it is reported as stalled;
* "If something is listed, it must exist" (`src/component/mod.rs:161`): trees, units,
  user units, D-Bus links, udev helpers and libraries that the source lacks are
  passed over (`src/build/libdeps.rs:305`, `319`);
* the integrity check of kernel against modules (`src/artifact/iso.rs:235`) passes
  an empty directory of modules, which an install that was killed leaves;
* "Type 'exit' to retry boot" (`profile/init_tiny.template:96`): the shell has
  replaced process 1, and nothing is left that could retry; and the shell after
  `exec switch_root` is never reached;
* `is_installed` of `epel.rhai` goes by its marker alone, so that after the rootfs
  was extracted again the EPEL packages are missing and the recipe is content;
  a partial Rocky ISO or EPEL RPM is never downloaded again;
* `ensure_iso_built` (`src/commands/run.rs:20`) builds the rootfs and the live
  initramfs but not the install initramfs that `create_iso` needs, so `run`
  after a clean fails; `CreateIsoRefuses` is that step;
* `iso_needs_rebuild` (`src/rebuild.rs:233`) looks for the live overlay under
  `profile/live-overlay`, which does not exist, and not at the install initramfs:
  an edit of either never makes the ISO stale.  Only `show status` uses it;
  `FreshIsoHoldsParts` is about the parts that it looks at;
* a full build fails if the kernel is not compiled; the comment at
  `src/commands/build.rs:34` says "skip kernel if not available".

Some properties hold only with an exception that they name, which is another such
case: `ChecksumIsOfIso` (a build stopped between the two renames leaves the
old checksum beside the new ISO), `IsoModulesMatchKernel` (an install that was cut
off leaves modules of another compilation), `NoRockyModulesInIso` (a clean that was
cut off leaves a `vmlinuz` without modules), `OkHasKeyBinaries` (`rocky.rhai` keeps the
markers of `packages.rhai` where it removes the rootfs), `BloatRemovalSparesPackages` (a
build that went past `rocky.rhai` too early), `ExitLosesNoVerdict` and `NoQemuLeftBehind`
(a line that is not UTF-8), `PairMatches` (an error of a removal that was ignored), and
`OkTreeIsAsListed` (a copy cut short in a tree that was not removed, and a link whose
target could not be copied).  Under `hazards` in `PROJECT.json` most of these
are hazards of their own, with a note that says so.

## 6. Not modelled, and not proved

Not modelled for good: preflight checks and `show` (they read and print), the
parsing of configuration and command line, contents of the files written, the
formats of EROFS, ISO and initramfs (external tools), the search for the
libraries of a binary (the external `leviso_elf`), `resolve.rs` (it looks up
paths), and the recipes of single tools, QEMU and host tools: `install_tools`
runs a recipe if the tool's file does not exist, and only preflight looks at the
result.

Not proved, and said in prose only, is that the detailed modules compose: that
`create_iso` and `build_qcow2`, one action each in `BuildPipeline`, and the three
end states that it has for `build_rootfs` are what `IsoBuild`, `Qcow2` and
`RootfsBuild` make of them.  An abstract specification of a cached artifact (its
content, its key, whether it may be skipped), which `BuildPipeline` would implement
for each artifact, could be proved from `DoneInv`.
