----------------------------- MODULE FileHelper -----------------------------
(***************************************************************************)
(* FileHelper (src/utils/file_helper.h): one call of one of its functions  *)
(* that change the file system, from any state of the file system and of   *)
(* the process's table of open files that earlier calls may have left.     *)
(*                                                                         *)
(* The file system is a tree of directories and regular files; there are   *)
(* no links, no other writers and no permissions to lack.  Paths are       *)
(* sequences of names, written without a slash at the end.  CopyFolder     *)
(* calls itself for every folder it finds; readdir gives the entries of a  *)
(* folder in any order, and may or may not give one that was added since   *)
(* opendir.  What it calls is over before it goes on, so that each entry   *)
(* is one step.                                                            *)
(*                                                                         *)
(* A device may fail to take what is written: it then fails until the file *)
(* is closed, so that fclose tells of it.  Reading does not fail.          *)
(***************************************************************************)
EXTENDS Integers, Sequences, SequencesExt

CONSTANTS
  Names,         \* what files and folders are called
  Hidden,        \* the names that begin with a dot
  Bytes,         \* what files consist of
  Paths,         \* the arguments of calls
  Trees,         \* the file systems a call may begin with
  MaxDepth,      \* a longer path is longer than PATH_MAX
  MaxHandles     \* how many files and folders a process may have open

ASSUME HiddenAssumption == Hidden \subseteq Names
ASSUME LimitsAssumption == MaxDepth \in Nat /\ MaxHandles \in Nat

Path == Seq(Names)

Dir == [kind |-> "dir", data |-> <<>>]
File(data) == [kind |-> "file", data |-> data]

\* Everything but the root is in a folder.
IsTree(t) ==
  /\ <<>> \in DOMAIN t /\ t[<<>>] = Dir
  /\ \A p \in DOMAIN t \ {<<>>} : Front(p) \in DOMAIN t /\ t[Front(p)].kind = "dir"

IsFileSystem(t) ==
  /\ IsTree(t)
  /\ \A p \in DOMAIN t : /\ p \in Path /\ Len(p) <= MaxDepth
                         /\ t[p].kind \in {"dir", "file"}
                         /\ t[p].kind = "dir" => t[p] = Dir

ASSUME PathsAssumption == Paths \subseteq Path \ {<<>>}
ASSUME TreesAssumption ==
  \A t \in Trees : IsFileSystem(t) /\ \A p \in DOMAIN t : t[p].data \in Seq(Bytes)

VARIABLES
  fs,        \* what each path that exists is
  handles,   \* how many files and folders are open
  stack,     \* the calls of CopyFolder that are going on, innermost last
  call,      \* the call from outside, and its arguments
  status,    \* how far it is
  closeFailed, \* history: an fclose has failed
  before     \* history: the file system when it was made

vars == <<fs, handles, stack, call, status, closeFailed, before>>

EOF == "0xFF"

Under(p, q) == IsPrefix(p, q)

Frame == [src : Path, dst : Path, read : SUBSET Names, must : SUBSET Names]

CallNames == {"none", "CopyFolder", "CopyFile", "CreateDir", "DeleteFile", "WriteFile"}

TypeOK ==
  /\ IsFileSystem(fs) /\ IsFileSystem(before)
  /\ handles \in 0 .. MaxHandles
  /\ stack \in Seq(Frame)
  /\ \A i \in DOMAIN stack : /\ stack[i].src \in DOMAIN fs /\ fs[stack[i].src].kind = "dir"
                             /\ stack[i].dst \in DOMAIN fs
  /\ call \in [name : CallNames, src : Path, dst : Path]
  /\ status \in {"idle", "running", "0", "-1", "crashed", "endless"}
  /\ status = "running" <=> stack # <<>>
  /\ closeFailed \in BOOLEAN

Init ==
  /\ fs \in Trees /\ handles \in 0 .. MaxHandles /\ before = fs
  /\ stack = <<>> /\ status = "idle" /\ closeFailed = FALSE
  /\ call = [name |-> "none", src |-> <<>>, dst |-> <<>>]

-----------------------------------------------------------------------------
(* What the helpers answer, and what the system calls do.                  *)

HasFile(p) == p \in DOMAIN fs
IsDir(p)   == HasFile(p) /\ fs[p].kind = "dir"
IsFile(p)  == HasFile(p) /\ fs[p].kind = "file"

Entries(p) == {n \in Names : HasFile(Append(p, n))}

\* fopen(p, "w") finds or makes a regular file.
Writable(p) == IsFile(p) \/ (~HasFile(p) /\ IsDir(Front(p)) /\ Len(p) <= MaxDepth)

Written(p, data) == [q \in DOMAIN fs \cup {p} |-> IF q = p THEN File(data) ELSE fs[q]]

\* Faulty variant: only the last folder of the path is made.
MadeLast(p) == {<<>>} \cup {q \in {p} : Len(q) <= MaxDepth /\ IsDir(Front(q)) /\ ~IsFile(q)}

\* The folders on the way to p that CreateDir finds or makes before it fails.
Made(p) == {q \in Prefixes(p) : Len(q) <= MaxDepth /\ \A r \in Prefixes(q) : ~IsFile(r)}

CreatesAll(p) == Made(p) = Prefixes(p)

AfterCreateDir(p) == [q \in DOMAIN fs \cup Made(p) |-> IF HasFile(q) THEN fs[q] ELSE Dir]

-----------------------------------------------------------------------------
(* CopyFile.                                                               *)

\* A source that was opened is not closed again when the target cannot be.
HandlesAfter(p, q) ==
  IF HasFile(p) /\ handles < MaxHandles /\ ~(Writable(q) /\ handles + 1 < MaxHandles)
  THEN handles + 1 ELSE handles

OpensBoth(p, q) == HasFile(p) /\ Writable(q) /\ handles + 1 < MaxHandles

\* Faulty variant: what was read last is not written.
CopiedLessOne(p, q) == IF p = q THEN <<>> ELSE Front(fs[p].data)

\* The EOF that ends the loop is written too; the target's "w" comes before the
\* source's first byte is read.
Copied(p, q) == IF p = q THEN <<EOF>> ELSE Append(fs[p].data, EOF)

\* If closing the target fails, only part of the data has arrived and the source
\* is not closed; or closing the source fails.
CloseFails(q, data) ==
  /\ closeFailed' = TRUE
  /\ \/ /\ \E part \in Prefixes(data) : fs' = Written(q, part)
        /\ handles' = handles + 1
     \/ /\ fs' = Written(q, data)
        /\ UNCHANGED handles

-----------------------------------------------------------------------------
(* CopyFolder.                                                             *)

Return(value) == status' = value /\ stack' = <<>>

\* Faulty variant: the source is opened before the target is made.
MustBefore(src, tree) == Entries(src)

\* What readdir will give in any case, for a folder opened in this tree.
Must(src, tree) == {n \in Names : Append(src, n) \in DOMAIN tree}

\* opendir, whose failure is not looked at; the folder is never closed.
Open(src, dst, outer, tree) ==
  IF IsDir(src) /\ handles < MaxHandles
  THEN /\ stack' = Append(outer, [src  |-> src, dst |-> dst, read |-> {},
                                  must |-> Must(src, tree)])
       /\ status' = "running"
       /\ handles' = handles + 1
  ELSE /\ Return("crashed")
       /\ UNCHANGED handles

\* Faulty variant: nobody asks whether the source is there.
MissingNever(src) == FALSE

Missing(src) == ~HasFile(src)

\* Faulty variant: nobody asks what CreateDir returned.
TargetReadyAlways(dst) == TRUE

TargetReady(dst) == HasFile(dst) \/ CreatesAll(dst)

BeginFolder(src, dst, outer) ==
  IF Missing(src) THEN Return("-1") /\ UNCHANGED <<fs, handles>>
  ELSE /\ fs' = IF HasFile(dst) THEN fs ELSE AfterCreateDir(dst)
       /\ IF TargetReady(dst) THEN Open(src, dst, outer, fs')
          ELSE Return("-1") /\ UNCHANGED handles

Top == stack[Len(stack)]

\* Faulty variant: hidden folders are copied as well.
SkipsNone(n) == FALSE

\* "." and ".." and with them every folder whose name begins with a dot.
Skips(n) == n \in Hidden

ReadEntry(n) ==
  /\ status = "running" /\ n \in Entries(Top.src) \ Top.read
  /\ LET p     == Append(Top.src, n)
         q     == Append(Top.dst, n)
         outer == [stack EXCEPT ![Len(stack)].read = @ \cup {n}]
     IN  \/ /\ IsDir(p) /\ Skips(n)
            /\ stack' = outer
            /\ UNCHANGED <<fs, handles, status, closeFailed>>
         \/ /\ IsDir(p) /\ ~Skips(n)
            /\ BeginFolder(p, q, outer)
            /\ UNCHANGED closeFailed
         \/ /\ ~IsDir(p) /\ OpensBoth(p, q)
            /\ fs' = Written(q, Copied(p, q))
            /\ stack' = outer
            /\ UNCHANGED <<handles, status, closeFailed>>
         \/ /\ ~IsDir(p) /\ OpensBoth(p, q)
            /\ CloseFails(q, Copied(p, q))
            /\ Return("-1")
         \/ /\ ~IsDir(p) /\ ~OpensBoth(p, q)
            /\ handles' = HandlesAfter(p, q)
            /\ Return("-1")
            /\ UNCHANGED <<fs, closeFailed>>
  /\ UNCHANGED <<call, before>>

EndFolder ==
  /\ status = "running" /\ Top.must \subseteq Top.read
  /\ stack' = Front(stack)
  /\ status' = IF Len(stack) = 1 THEN "0" ELSE status
  /\ UNCHANGED <<fs, handles, call, closeFailed, before>>

-----------------------------------------------------------------------------
(* Calls from outside.                                                     *)

Calls(name, src, dst) ==
  /\ status = "idle"
  /\ call' = [name |-> name, src |-> src, dst |-> dst]
  /\ UNCHANGED before

CopyFolder(src, dst) ==
  /\ Calls("CopyFolder", src, dst)
  /\ BeginFolder(src, dst, <<>>)
  /\ UNCHANGED closeFailed

\* Reading a folder gives an error and never the end of the file: the loop
\* does not end.
CopyFile(src, dst) ==
  /\ Calls("CopyFile", src, dst)
  /\ \/ /\ ~OpensBoth(src, dst)
        /\ handles' = HandlesAfter(src, dst)
        /\ Return("-1")
        /\ UNCHANGED <<fs, closeFailed>>
     \/ /\ OpensBoth(src, dst) /\ IsDir(src)
        /\ fs' = Written(dst, <<EOF>>)
        /\ Return("endless")
        /\ UNCHANGED <<handles, closeFailed>>
     \/ /\ OpensBoth(src, dst) /\ ~IsDir(src)
        /\ fs' = Written(dst, Copied(src, dst))
        /\ Return("0")
        /\ UNCHANGED <<handles, closeFailed>>
     \/ /\ OpensBoth(src, dst) /\ ~IsDir(src)
        /\ CloseFails(dst, Copied(src, dst))
        /\ Return("-1")

CreateDir(p) ==
  /\ Calls("CreateDir", p, p)
  /\ fs' = AfterCreateDir(p)
  /\ Return(IF CreatesAll(p) THEN "0" ELSE "-1")
  /\ UNCHANGED <<handles, closeFailed>>

\* A regular file is removed; for a folder the loop calls itself with an empty
\* path, fails to remove that, and leaves the folder open.
DeleteFile(p) ==
  /\ Calls("DeleteFile", p, p)
  /\ fs' = IF IsFile(p) THEN [q \in DOMAIN fs \ {p} |-> fs[q]] ELSE fs
  /\ Return(IF IsDir(p) THEN "-1" ELSE "0")
  /\ handles' = IF IsDir(p) /\ handles < MaxHandles THEN handles + 1 ELSE handles
  /\ UNCHANGED closeFailed

\* Nobody asks whether the stream has taken the data.
WriteFile(p) ==
  /\ Calls("WriteFile", p, p)
  /\ IF Writable(p) /\ handles < MaxHandles
     THEN /\ \E part \in Prefixes(<<"new">>) : fs' = Written(p, part)
          /\ Return("0")
     ELSE UNCHANGED fs /\ Return("-1")
  /\ UNCHANGED <<handles, closeFailed>>

Next ==
  \/ \E p \in Paths : CreateDir(p) \/ DeleteFile(p) \/ WriteFile(p)
  \/ \E p, q \in Paths : CopyFolder(p, q) \/ CopyFile(p, q)
  \/ \E n \in Names : ReadEntry(n)
  \/ EndFolder

Spec == Init /\ [][Next]_vars

-----------------------------------------------------------------------------
(* Safety.  What a call of CopyFolder is about are the entries of its      *)
(* source that are reached without passing a hidden folder, named here     *)
(* relative to the source.                                                 *)

Relative(src) == {SubSeq(p, Len(src) + 1, Len(p)) : p \in {p \in DOMAIN before : Under(src, p)}}

Reached(src) ==
  {r \in Relative(src) :
     \A i \in 1 .. Len(r) :
       r[i] \in Hidden => i = Len(r) /\ before[src \o r].kind = "file"}

Apart(p, q) == ~Under(p, q) /\ ~Under(q, p)

Copying(src, dst) == call = [name |-> "CopyFolder", src |-> src, dst |-> dst]

\* When CopyFolder into another place returns 0, everything it could reach is
\* under the target, in whatever order readdir gave it and whatever the target
\* held before, and no file lacks anything of what is in the source.  CreateDir
\* returns 0 only if the whole path is there
\* (src/utils/file_helper.h:111-193, 227-252).
CopyIsComplete ==
  status = "0" =>
    /\ \A src, dst \in Paths :
         Copying(src, dst) /\ Apart(src, dst) =>
           \A r \in Reached(src) :
             /\ HasFile(dst \o r)
             /\ before[src \o r].kind = "file" =>
                  IsPrefix(before[src \o r].data, fs[dst \o r].data)
    /\ call.name = "CreateDir" => \A q \in Prefixes(call.src) : IsDir(q)

\* At every step of CopyFolder into another place everything but the targets of
\* what it reaches is as it was, the source with it; no call turns a file into
\* a folder, and only DeleteFile removes anything
\* (src/utils/file_helper.h:28-42, 49-80, 111-193).
OnlyTargetsWritten ==
  /\ \A p \in DOMAIN before :
       \/ p \in DOMAIN fs /\ fs[p].kind = before[p].kind
       \/ call.name = "DeleteFile" /\ p = call.src /\ before[p].kind = "file"
  /\ \A src, dst \in Paths :
       Copying(src, dst) /\ Apart(src, dst) =>
         \A p \in DOMAIN fs :
           \/ p \in DOMAIN before /\ fs[p] = before[p]
           \/ p \notin DOMAIN before /\ p \in Prefixes(dst)
           \/ \E r \in Reached(src) : p = dst \o r

\* A path that cannot be a folder, or be anything.
Blocked(p) == \E q \in Prefixes(p) :
  Len(q) > MaxDepth \/ (q \in DOMAIN before /\ before[q].kind = "file")

\* CopyFolder and CreateDir fail only where something was in the way: no source,
\* a target of another kind, a path too long, no handle left, or a file that
\* could not be closed (CopyFile and CopyFolder, src/utils/file_helper.h:111-193,
\* CreateDir, 227-252).
FailureHasCause ==
  status = "-1" =>
    /\ \A src, dst \in Paths :
         Copying(src, dst) /\ Apart(src, dst) =>
           \/ src \notin DOMAIN before \/ Blocked(dst) \/ handles >= MaxHandles - 1
           \/ closeFailed
           \/ \E r \in Reached(src) :
                \/ Len(dst \o r) > MaxDepth
                \/ dst \o r \in DOMAIN before /\ before[dst \o r].kind # before[src \o r].kind
    /\ call.name = "CreateDir" => Blocked(call.src)

\* CopyFolder reads through a null pointer only if its source was a regular
\* file or, since it closes no folder, when the process has none left to open
\* (src/utils/file_helper.h:163-164).
CrashHasCause ==
  status = "crashed" =>
    call.src \in DOMAIN before /\ (before[call.src].kind = "file" \/ handles = MaxHandles)

\* A folder copied into a folder in itself is never reported as copied, however
\* readdir treats the entries that are added while it reads: the copy contains
\* itself until the path is too long (src/utils/file_helper.h:140-193).
IntoItselfFails ==
  \A src, dst \in Paths :
    /\ Copying(src, dst) /\ IsStrictPrefix(src, dst)
    /\ \A i \in Len(src) + 1 .. Len(dst) : dst[i] \notin Hidden
    => status # "0"
=============================================================================
