----------------------------- MODULE Fingerprint -----------------------------
(***************************************************************************)
(* The runtimeVersion of a project, computed on a developer's laptop and   *)
(* on CI, while native files are edited, built, added to git, committed    *)
(* and checked out.  A binary and an update only meet when both machines   *)
(* computed the same value.                                                *)
(*                                                                         *)
(* Abstracted: one native directory; a hash is the set it is computed      *)
(* from; React Native, Hermes and the dependencies are what the commit     *)
(* says (an install that lags behind it is not modelled).                  *)
(***************************************************************************)
EXTENDS Integers

CONSTANTS
  Laptop, CI,
  Files,      \* paths under the native directory
  Output,     \* those in a folder of build output or tooling
  Local,      \* those with a machine-local name or folder
  Contents,
  NoFile

ASSUME FingerprintAssumption ==
  /\ Output \cup Local \subseteq Files
  /\ NoFile \notin Contents
  /\ Laptop # CI

Machines == {Laptop, CI}
NoFiles == [f \in Files |-> NoFile]

VARIABLES
  disk,     \* [Machines -> [Files -> Contents \cup {NoFile}]]
  tracked,  \* [Machines -> the files in git's index]
  head,     \* [Machines -> the tree of the commit checked out]
  inGit     \* the project is in a git work tree

fpVars == <<disk, tracked, head, inGit>>

FpInit ==
  /\ disk = [m \in Machines |-> NoFiles]
  /\ tracked = [m \in Machines |-> {}]
  /\ head = [m \in Machines |-> NoFiles]
  /\ inGit \in BOOLEAN

OnDisk(m) == {f \in Files : disk[m][f] # NoFile}

-----------------------------------------------------------------------------
(* The fingerprint *)

\* walkNative.
WalkNative(m) == OnDisk(m) \ (Output \cup Local)

\* Variant with a bug: git is not asked.
TrackedByNobody(m) == {}

\* gitTrackedNativeFiles: the index, as far as it is on the disk.
TrackedNativeFiles(m) == IF inGit THEN tracked[m] ELSE {}

\* hashNativeDir; where git tracks nothing, whatever is on the disk.
HashNativeDir(m) ==
  LET files == IF TrackedNativeFiles(m) = {} THEN WalkNative(m)
                                             ELSE (TrackedNativeFiles(m) \ Output) \cap OnDisk(m)
  IN  {<<f, disk[m][f]>> : f \in files}

\* fingerprintProject; the inputs that are the commit's are left out.
RuntimeVersion(m) == HashNativeDir(m)

-----------------------------------------------------------------------------
(* What happens to the files *)

Write(m, f, c) ==
  /\ disk' = [disk EXCEPT ![m][f] = c]
  /\ UNCHANGED <<tracked, head, inGit>>

Edit(f) == f \notin Output \cup Local /\ \E c \in Contents \cup {NoFile} : Write(Laptop, f, c)

\* A build, an editor or the system writes or removes files of its own.
BuildWrites(m, f) == f \in (Output \cup Local) \ tracked[m] /\ \E c \in Contents \cup {NoFile} : Write(m, f, c)

\* git add.  Nobody adds build output; a machine-local name may be added.
Add(f) ==
  /\ inGit
  /\ f \in OnDisk(Laptop) \ Output
  /\ tracked' = [tracked EXCEPT ![Laptop] = @ \cup {f}]
  /\ UNCHANGED <<disk, head, inGit>>

\* git commit -a.
Commit ==
  /\ inGit
  /\ tracked' = [tracked EXCEPT ![Laptop] = @ \cap OnDisk(Laptop)]
  /\ head' = [head EXCEPT ![Laptop] =
       [f \in Files |-> IF f \in tracked'[Laptop] THEN disk[Laptop][f] ELSE NoFile]]
  /\ UNCHANGED <<disk, inGit>>

\* CI checks the laptop's commit out, over what an earlier build left there.
CheckOut ==
  /\ inGit
  /\ head' = [head EXCEPT ![CI] = head[Laptop]]
  /\ tracked' = [tracked EXCEPT ![CI] = {f \in Files : head[Laptop][f] # NoFile}]
  /\ disk' = [disk EXCEPT ![CI] =
       [f \in Files |-> IF f \in tracked[CI] \cup tracked'[CI] THEN head[Laptop][f] ELSE @[f]]]
  /\ UNCHANGED inGit

FpNext ==
  \/ \E f \in Files : Edit(f) \/ Add(f)
  \/ \E m \in Machines, f \in Files : BuildWrites(m, f)
  \/ Commit \/ CheckOut

FpSpec == FpInit /\ [][FpNext]_fpVars

-----------------------------------------------------------------------------
(* Properties *)

Clean(m) ==
  /\ tracked[m] = {f \in Files : head[m][f] # NoFile}
  /\ \A f \in tracked[m] : disk[m][f] = head[m][f]

\* "so a laptop and a clean CI checkout of the same commit agree" (util.ts:393), whatever builds
\* and untracked files lie around; git has to track something of the directory.
LaptopAndCiAgree ==
  Clean(Laptop) /\ Clean(CI) /\ head[Laptop] = head[CI] /\ tracked[CI] # {} =>
    RuntimeVersion(Laptop) = RuntimeVersion(CI)

=============================================================================
