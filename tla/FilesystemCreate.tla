--------------------------- MODULE FilesystemCreate ---------------------------
(***************************************************************************)
(* The creation of folders and supporting files under the ESPHome folder   *)
(* (filesystem_tools.py).  A call walks the path by directory descriptors, *)
(* one system call at a time, on an executor thread: other calls, and the  *)
(* processes that share the folder (Device Builder, a file share), act in  *)
(* between.                                                                *)
(*                                                                         *)
(* The file system is a set of inodes; a directory maps names to inodes.   *)
(* Paths are the ones the validation lets through.  The error codes of     *)
(* refused paths are one, "refused".  A call that meets an error of the    *)
(* operating system, a full disk for instance, ends at "fault", or at one  *)
(* of two ends that leave an unfinished file behind: at "left" when what   *)
(* is to remove the file fails too, at "leaked" when the fstat of the file *)
(* it has just made fails, which nothing cleans up after: the descriptor   *)
(* of the file stays open with it.                                         *)
(***************************************************************************)
EXTENDS Integers, Sequences

CONSTANTS Inodes,
          Top,         \* the configuration directory, its entry Root the ESPHome folder
          Outside,     \* a directory that is not under it; links point there
          Names, Root,
          Paths,       \* sequences of names below the folder
          Calls,       \* concurrent calls
          MaxForeign,  \* bound: how many steps other processes take
          Null

ASSUME InodesAssumption == Top \in Inodes /\ Outside \in Inodes \ {Top} /\ Null \notin Inodes
ASSUME NamesAssumption == Root \in Names
ASSUME PathsAssumption == Paths \subseteq Seq(Names) \ {<<>>}
ASSUME ForeignAssumption == MaxForeign \in Nat

Kinds == {"free", "dir", "file", "link"}
Contents == {"none", "theirs", "partial", "whole"}
Results == {"created", "existed", "refused", "fault", "left", "leaked"}
Steps == {"mkdir", "open", "leaf", "check", "fstat", "write", "stat", "unlink"} \cup Results
Idle == [pc |-> "idle"]
Call == [pc : Steps, path : Paths, parents : BOOLEAN, folder : BOOLEAN,
         at : Nat, dir : Inodes, made : Inodes \cup {Null}]

VARIABLES
  kind,     \* what each inode is
  entry,    \* the names in each directory
  data,     \* what each file holds
  call,     \* how far each call is
  inside,   \* the directories that were under the ESPHome folder at some time
  foreign   \* how many steps other processes took

fs == <<kind, entry, data, inside>>
vars == <<kind, entry, data, call, inside, foreign>>

-----------------------------------------------------------------------------
\* What is under the name a call is at: its component, or its leaf at the end
Name(c) == IF call[c].at = 0 THEN Root ELSE call[c].path[call[c].at]
Here(c) == entry[call[c].dir][Name(c)]
IsDir(i) == i # Null /\ kind[i] = "dir"

\* The place of the ESPHome folder, or of something in a directory of its own
InFolder(dir, name) == dir \in inside \/ (dir = Top /\ name = Root)

Goto(c, pc) == call' = [call EXCEPT ![c].pc = pc]

At(c, pc) == call[c] # Idle /\ call[c].pc = pc

\* A call has the file it has made open
HasOpen(c) == call[c] # Idle /\ call[c].pc \in {"fstat", "write", "leaked"}

\* A new inode under a free name of a directory
Make(i, dir, name, what, content) ==
  /\ kind[i] = "free" /\ entry[dir][name] = Null
  /\ kind' = [kind EXCEPT ![i] = what]
  /\ entry' = [entry EXCEPT ![dir][name] = i]
  /\ data' = [data EXCEPT ![i] = content]
  /\ inside' = IF what = "dir" /\ InFolder(dir, name)
                 THEN inside \cup {i} ELSE inside

\* An inode whose name goes away may be used again, unless a call has it open
Free(dir, name) ==
  LET i == entry[dir][name]
      open == \E c \in Calls : HasOpen(c) /\ call[c].made = i
  IN /\ entry' = [entry EXCEPT ![dir][name] = Null]
     /\ kind' = IF open THEN kind ELSE [kind EXCEPT ![i] = "free"]
     /\ data' = IF open THEN data ELSE [data EXCEPT ![i] = "none"]
     /\ UNCHANGED inside

\* Any system call may fail for a reason of its own, those of the clean-up too
\* (writing and closing the file: WriteFails)
Fault(c) ==
  /\ call[c] # Idle
  /\ \/ call[c].pc \in {"mkdir", "open", "leaf", "check"} /\ Goto(c, "fault")
     \/ call[c].pc = "fstat" /\ Goto(c, "leaked")
     \/ call[c].pc \in {"stat", "unlink"} /\ Goto(c, "left")
  /\ UNCHANGED <<fs, foreign>>

Init ==
  /\ \E root \in Inodes \ {Top, Outside}, k \in {"dir", "link", "free"} :
       /\ kind = [i \in Inodes |-> IF i \in {Top, Outside} THEN "dir"
                                   ELSE IF i = root THEN k ELSE "free"]
       /\ entry = [i \in Inodes |-> [n \in Names |->
                     IF i = Top /\ n = Root /\ k # "free" THEN root ELSE Null]]
       /\ inside = IF k = "dir" THEN {root} ELSE {}
  /\ data = [i \in Inodes |-> "none"]
  /\ call = [c \in Calls |-> Idle]
  /\ foreign = 0

\* _create with a valid path: the root is opened and never made
Begin(c, path, parents, folder) ==
  /\ call[c] = Idle
  /\ call' = [call EXCEPT ![c] =
       [pc |-> "open", path |-> path, parents |-> parents, folder |-> folder,
        at |-> 0, dir |-> Top, made |-> Null]]
  /\ UNCHANGED <<fs, foreign>>

\* Mutant of MakeParent: a parent another call has made in the meantime is refused
MakeParent_Exclusive(c) ==
  /\ At(c, "mkdir")
  /\ \/ \E i \in Inodes : Make(i, call[c].dir, Name(c), "dir", "none") /\ Goto(c, "open")
     \/ Here(c) # Null /\ Goto(c, "refused") /\ UNCHANGED fs
  /\ UNCHANGED foreign

\* os.mkdir of a parent: one that exists already, of whatever kind, is left to
\* the open
MakeParent(c) ==
  /\ At(c, "mkdir")
  /\ \/ \E i \in Inodes : Make(i, call[c].dir, Name(c), "dir", "none")
     \/ Here(c) # Null /\ UNCHANGED fs
  /\ Goto(c, "open")
  /\ UNCHANGED foreign

\* Mutant of Opened: links are followed
Opened_Follows(c) == IF Here(c) # Null /\ kind[Here(c)] = "link" THEN Outside ELSE Here(c)

\* O_DIRECTORY | O_NOFOLLOW: the entry itself
Opened(c) == Here(c)

\* Mutant of OpenDirectory: the leaf is taken for one more component
OpenDirectory_TooFar(c) ==
  /\ At(c, "open")
  /\ \/ /\ IsDir(Opened(c))
        /\ call' = [call EXCEPT ![c].dir = Opened(c), ![c].at = @ + 1,
             ![c].pc = IF call[c].at = Len(call[c].path) THEN "leaf"
                       ELSE IF call[c].parents THEN "mkdir" ELSE "open"]
     \/ ~IsDir(Opened(c)) /\ Goto(c, "refused")
  /\ UNCHANGED <<fs, foreign>>

\* os.open of the root or a component; _component_error classifies the rest
OpenDirectory(c) ==
  /\ At(c, "open")
  /\ \/ /\ IsDir(Opened(c))
        /\ call' = [call EXCEPT ![c].dir = Opened(c), ![c].at = @ + 1,
             ![c].pc = IF call[c].at + 1 = Len(call[c].path) THEN "leaf"
                       ELSE IF call[c].parents THEN "mkdir" ELSE "open"]
     \/ ~IsDir(Opened(c)) /\ Goto(c, "refused")
  /\ UNCHANGED <<fs, foreign>>

\* os.mkdir of the leaf
MakeFolder(c) ==
  /\ At(c, "leaf") /\ call[c].folder
  /\ \/ /\ \E i \in Inodes : Make(i, call[c].dir, Name(c), "dir", "none")
        /\ Goto(c, "created")
     \/ Here(c) # Null /\ Goto(c, "check") /\ UNCHANGED fs
  /\ UNCHANGED foreign

\* The leaf existed: a folder is as good, anything else is refused
CheckFolder(c) ==
  /\ At(c, "check")
  /\ Goto(c, IF IsDir(Here(c)) THEN "existed" ELSE "refused")
  /\ UNCHANGED <<fs, foreign>>

\* Mutant of MakeFile: without O_EXCL an existing file is opened
MakeFile_Opens(c) ==
  /\ At(c, "leaf") /\ ~call[c].folder
  /\ \/ \E i \in Inodes :
          /\ Make(i, call[c].dir, Name(c), "file", "partial")
          /\ call' = [call EXCEPT ![c].pc = "fstat", ![c].made = i]
     \/ /\ Here(c) # Null /\ kind[Here(c)] = "file" /\ UNCHANGED fs
        /\ call' = [call EXCEPT ![c].pc = "fstat", ![c].made = Here(c)]
  /\ UNCHANGED foreign

\* os.open with O_CREAT | O_EXCL | O_NOFOLLOW
MakeFile(c) ==
  /\ At(c, "leaf") /\ ~call[c].folder
  /\ \/ \E i \in Inodes :
          /\ Make(i, call[c].dir, Name(c), "file", "partial")
          /\ call' = [call EXCEPT ![c].pc = "fstat", ![c].made = i]
     \/ Here(c) # Null /\ Goto(c, "refused") /\ UNCHANGED fs
  /\ UNCHANGED foreign

\* os.fstat of the file the call has made
Identify(c) ==
  At(c, "fstat") /\ Goto(c, "write") /\ UNCHANGED <<fs, foreign>>

\* file.write and the close behind it
Write(c) ==
  /\ At(c, "write")
  /\ data' = [data EXCEPT ![call[c].made] = "whole"]
  /\ Goto(c, "created")
  /\ UNCHANGED <<kind, entry, inside, foreign>>

\* Mutant of WriteFails: what was written stays
WriteFails_Stays(c) ==
  At(c, "write") /\ Goto(c, "fault") /\ UNCHANGED <<fs, foreign>>

\* os.fdopen or the write fails: the file is to be removed, unless the close of
\* what os.fdopen has not taken over fails as well.  It is closed by now, and if
\* its name is gone its inode is free
WriteFails(c) ==
  /\ At(c, "write")
  /\ Goto(c, "stat") \/ Goto(c, "left")
  /\ LET i == call[c].made
         orphan == \A d \in Inodes, n \in Names : entry[d][n] # i
     IN /\ kind' = IF orphan THEN [kind EXCEPT ![i] = "free"] ELSE kind
        /\ data' = IF orphan THEN [data EXCEPT ![i] = "none"] ELSE data
  /\ UNCHANGED <<entry, inside, foreign>>

\* os.stat: is it still the inode this call made?
Stat(c) ==
  /\ At(c, "stat")
  /\ Goto(c, IF Here(c) = call[c].made THEN "unlink" ELSE "fault")
  /\ UNCHANGED <<fs, foreign>>

\* os.unlink, of whatever has the name by now; not of a directory
Unlink(c) ==
  /\ At(c, "unlink")
  /\ IF Here(c) = Null \/ IsDir(Here(c)) THEN UNCHANGED fs ELSE Free(call[c].dir, Name(c))
  /\ Goto(c, "fault")
  /\ UNCHANGED foreign

-----------------------------------------------------------------------------
(* Other processes, in the ESPHome folder and what is below it.             *)

Foreign == foreign < MaxForeign /\ foreign' = foreign + 1 /\ UNCHANGED call

\* They make a folder, a file or a link under a free name
ForeignMakes(dir, name) ==
  /\ Foreign
  /\ InFolder(dir, name)
  /\ \E i \in Inodes, k \in {"dir", "file", "link"} :
       Make(i, dir, name, k, IF k = "file" THEN "theirs" ELSE "none")

\* They remove a file or a link
ForeignRemoves(dir, name) ==
  /\ Foreign
  /\ entry[dir][name] # Null /\ kind[entry[dir][name]] \in {"file", "link"}
  /\ Free(dir, name)

\* They move an entry, the folder itself too, to a free name out of it
ForeignMoves(dir, name) ==
  /\ Foreign
  /\ dir # Outside /\ entry[dir][name] # Null
  /\ \E free \in {n \in Names : entry[Outside][n] = Null} :
       entry' = [entry EXCEPT ![dir][name] = Null, ![Outside][free] = entry[dir][name]]
  /\ UNCHANGED <<kind, data, inside>>

Next ==
  \/ \E c \in Calls :
       \/ \E path \in Paths, parents, folder \in BOOLEAN : Begin(c, path, parents, folder)
       \/ MakeParent(c) \/ OpenDirectory(c) \/ MakeFolder(c) \/ CheckFolder(c)
       \/ MakeFile(c) \/ Identify(c) \/ Write(c) \/ WriteFails(c) \/ Stat(c) \/ Unlink(c)
       \/ Fault(c)
  \/ \E dir \in Inodes, name \in Names :
       ForeignMakes(dir, name) \/ ForeignRemoves(dir, name) \/ ForeignMoves(dir, name)

Spec == Init /\ [][Next]_vars

-----------------------------------------------------------------------------
TypeOK ==
  /\ kind \in [Inodes -> Kinds]
  /\ entry \in [Inodes -> [Names -> Inodes \cup {Null}]]
  /\ data \in [Inodes -> Contents]
  /\ call \in [Calls -> {Idle} \cup Call]
  /\ \A c \in Calls : call[c] # Idle => call[c].at <= Len(call[c].path)
  /\ inside \subseteq Inodes
  /\ foreign \in 0 .. MaxForeign

\* A call works only in directories that were under the ESPHome folder, whatever
\* links other processes put in its way, and it follows none (_create).
StaysInside ==
  \A c \in Calls : call[c] # Idle /\ call[c].at > 0 => call[c].dir \in inside \ {Outside}

\* A call writes to no file it has not made: one that another process or another
\* call put under the name keeps its content (_create).
NeverOverwrites ==
  [][foreign' = foreign => \A i \in Inodes :
       kind[i] = "file" /\ kind'[i] = "file" /\ data[i] \in {"theirs", "whole"} =>
         data'[i] = data[i]]_vars

\* No other process has acted
Alone == foreign = 0

\* A call has made a file and neither written it nor removed it: it is still at it,
\* or has given it up
Pending(c) ==
  call[c] # Idle /\ call[c].pc \in {"fstat", "write", "stat", "unlink", "left", "leaked"}

\* A part of a file is there only while its call is still to write or to remove it,
\* or because the removal, or the fstat before the write, has failed as well: a
\* call whose write alone fails leaves nothing behind (_create).
LeftForCause ==
  Alone => \A i \in Inodes :
    kind[i] = "file" /\ data[i] = "partial" =>
      \E c \in Calls : Pending(c) /\ call[c].made = i

\* The first n components of a path lead from the ESPHome folder to an inode
Leads(path, n, i) ==
  \E walk \in [0 .. n -> Inodes] :
    /\ walk[0] = entry[Top][Root] /\ walk[n] = i
    /\ \A k \in 1 .. n :
         IsDir(walk[k - 1]) /\ walk[k] = entry[walk[k - 1]][path[k]]

\* What is in the way of a call that may make parents: no folder to start in,
\* something else than a folder above the leaf, or something at the leaf
Obstructed(c) ==
  LET path == call[c].path
  IN \/ ~IsDir(entry[Top][Root])
     \/ \E n \in 1 .. Len(path) - 1, i \in Inodes : Leads(path, n, i) /\ ~IsDir(i)
     \/ \E i \in Inodes :
          Leads(path, Len(path), i) /\ (IsDir(i) => ~call[c].folder)

\* No call has ended by a fault
Faultless == \A c \in Calls : call[c] # Idle => call[c].pc \notin {"fault", "left", "leaked"}

\* While no call has ended by a fault, one that may make parents is refused only for what
\* is there: calls that make the same parents do not get in each other's way
\* (_create).
RefusedForCause ==
  Alone /\ Faultless =>
    \A c \in Calls : At(c, "refused") /\ call[c].parents => Obstructed(c)

-----------------------------------------------------------------------------
(* The inductive invariant.                                                 *)

\* A call starts at the configuration directory and has components left while it
\* walks
Walking ==
  \A c \in Calls : call[c] # Idle =>
    /\ call[c].at = 0 => call[c].dir = Top
    /\ call[c].pc \in {"open", "mkdir"} => call[c].at < Len(call[c].path)

\* Only directories have entries, each inode is under one name at most, and a
\* directory in a folder that was inside was inside too
Tree ==
  /\ \A i \in inside \cup {Top, Outside} : kind[i] = "dir"
  /\ Top \notin inside /\ Outside \notin inside
  /\ \A d \in Inodes, n \in Names : entry[d][n] # Null =>
       /\ kind[d] = "dir" /\ kind[entry[d][n]] # "free"
       /\ \A e \in Inodes, m \in Names : entry[e][m] = entry[d][n] => e = d /\ m = n
  /\ \A d \in Inodes, n \in Names :
       InFolder(d, n) /\ IsDir(entry[d][n]) => entry[d][n] \in inside

\* A file that a call has open is its own
Writing ==
  \A c \in Calls : HasOpen(c) =>
    /\ call[c].made \in Inodes
    /\ kind[call[c].made] = "file" /\ data[call[c].made] = "partial"
    /\ \A d \in Calls : HasOpen(d) /\ call[d].made = call[c].made => d = c

Inv == TypeOK /\ Walking /\ Tree /\ Writing /\ StaysInside

\* As long as no other process has acted, the file of a pending call is where
\* its call made it and has one owner
Owned ==
  \A c \in Calls : Pending(c) =>
    /\ call[c].made \in Inodes /\ Here(c) = call[c].made
    /\ kind[call[c].made] = "file" /\ data[call[c].made] = "partial"
    /\ \A d \in Calls : Pending(d) /\ call[d].made = call[c].made => d = c

CleanInv == LeftForCause /\ (Alone => Owned)

\* A call has come by its path to the directory it is in; a parent it is to open,
\* and a leaf it is to check, are there
Arrived(c) ==
  /\ call[c].at > 0 => Leads(call[c].path, call[c].at - 1, call[c].dir)
  /\ call[c].pc \in {"leaf", "check"} => call[c].at = Len(call[c].path)
  /\ call[c].pc = "mkdir" => call[c].at > 0
  /\ \/ call[c].pc = "open" /\ call[c].parents /\ call[c].at > 0
     \/ call[c].pc = "check"
     => Here(c) # Null

CauseInv ==
  /\ Alone /\ Faultless => \A c \in Calls : call[c] # Idle => Arrived(c)
  /\ RefusedForCause
=============================================================================
