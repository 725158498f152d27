------------------------ MODULE FilesystemCreateProofs ------------------------
(***************************************************************************)
(* Proofs about FilesystemCreate: a call stays in the ESPHome folder and   *)
(* overwrites nothing, for any file system, any number of calls and        *)
(* whatever other processes do between two system calls; as long as these  *)
(* do nothing, a part of a file is left behind only by a call whose        *)
(* clean-up, or the fstat before its write, fails; and when no call has    *)
(* ended by a fault either, a call that may make parents is refused only   *)
(* for what stands in its way.                                             *)
(***************************************************************************)
EXTENDS FilesystemCreate, TLAPS

FsTypes ==
  /\ kind \in [Inodes -> Kinds]
  /\ entry \in [Inodes -> [Names -> Inodes \cup {Null}]]
  /\ data \in [Inodes -> Contents]
  /\ inside \subseteq Inodes

CallTypes ==
  /\ call \in [Calls -> {Idle} \cup Call]
  /\ \A c \in Calls : call[c] # Idle => call[c].at <= Len(call[c].path)

\* A call under way has all the fields of a call.
LEMMA Underway ==
  ASSUME TypeOK, NEW c \in Calls, call[c] # Idle
  PROVE  call[c] \in Call
BY DEF TypeOK

\* A call at a step of the code is under way, in a directory, at one of its names.
LEMMA Position ==
  ASSUME Inv, NEW c \in Calls, call[c] # Idle
  PROVE  /\ call[c] \in Call /\ call[c].dir \in Inodes /\ kind[call[c].dir] = "dir"
         /\ Name(c) \in Names /\ Here(c) \in Inodes \cup {Null}
         /\ call[c].at \in Nat /\ Len(call[c].path) \in Nat \ {0}
<1>1. call[c] \in Call
  BY Underway DEF Inv
<1>2. /\ call[c].dir \in Inodes /\ call[c].at \in Nat /\ call[c].path \in Seq(Names)
      /\ call[c].path # <<>> /\ call[c].at <= Len(call[c].path)
  BY <1>1, PathsAssumption DEF Call, Inv, TypeOK
<1>3. kind[call[c].dir] = "dir"
  BY <1>2 DEF Inv, Walking, StaysInside, Tree
<1>4. Name(c) \in Names
  BY <1>2, NamesAssumption DEF Name
<1> QED
  BY <1>1, <1>2, <1>3, <1>4 DEF Here, Inv, TypeOK

-----------------------------------------------------------------------------
(* What happens to the file system.                                         *)

\* A new inode keeps the tree a tree and touches no other inode.
LEMMA MakeKeeps ==
  ASSUME Inv, NEW i \in Inodes, NEW dir \in Inodes, NEW name \in Names,
         kind[dir] = "dir", NEW what \in Kinds \ {"free"}, NEW content \in Contents,
         Make(i, dir, name, what, content)
  PROVE  /\ FsTypes' /\ Tree'
         /\ inside \subseteq inside'
         /\ kind[i] = "free" /\ kind'[i] = what /\ data'[i] = content
         /\ \A j \in Inodes \ {i} : kind'[j] = kind[j] /\ data'[j] = data[j]
<1> USE DEF Inv
<1>1. /\ kind[i] = "free" /\ kind' = [kind EXCEPT ![i] = what]
      /\ data' = [data EXCEPT ![i] = content]
      /\ entry[dir][name] = Null
      /\ entry' = [entry EXCEPT ![dir][name] = i]
      /\ inside' = IF what = "dir" /\ InFolder(dir, name) THEN inside \cup {i} ELSE inside
  BY DEF Make
<1>2. FsTypes'
  BY <1>1 DEF TypeOK, FsTypes
<1>3. \A d \in Inodes, n \in Names :
        entry'[d][n] = IF d = dir /\ n = name THEN i ELSE entry[d][n]
  BY <1>1 DEF TypeOK
<1>4. \A j \in Inodes : kind'[j] = IF j = i THEN what ELSE kind[j]
  BY <1>1 DEF TypeOK
<1>5. i \notin inside /\ i # Top /\ i # Outside /\ i # dir /\ i # Null
  BY <1>1, InodesAssumption DEF Tree
<1>6. \A d \in Inodes, n \in Names : entry[d][n] # i /\ entry[i][n] = Null
  BY <1>1, <1>5 DEF Tree
<1>7. \A j \in inside' \cup {Top, Outside} : kind'[j] = "dir"
  BY <1>1, <1>4, <1>5, InodesAssumption DEF Tree, TypeOK
<1>8. Top \notin inside' /\ Outside \notin inside'
  BY <1>1, <1>5 DEF Tree
<1>9. ASSUME NEW d \in Inodes, NEW n \in Names, entry'[d][n] # Null
      PROVE  /\ kind'[d] = "dir" /\ kind'[entry'[d][n]] # "free"
             /\ \A e \in Inodes, m \in Names : entry'[e][m] = entry'[d][n] => e = d /\ m = n
  <2>1. CASE d = dir /\ n = name
    BY <2>1, <1>3, <1>4, <1>5, <1>6
  <2>2. CASE ~(d = dir /\ n = name)
    <3>1. entry'[d][n] = entry[d][n] /\ entry[d][n] # Null /\ entry[d][n] \in Inodes
      BY <2>2, <1>3, <1>9 DEF TypeOK
    <3>2. d # i /\ entry[d][n] # i
      BY <3>1, <1>6
    <3>3. kind[d] = "dir" /\ kind[entry[d][n]] # "free"
      BY <3>1 DEF Tree
    <3>4. \A e \in Inodes, m \in Names : entry'[e][m] = entry[d][n] => e = d /\ m = n
      BY <3>1, <3>2, <1>3 DEF Tree
    <3> QED
      BY <3>1, <3>2, <3>3, <3>4, <1>4
  <2> QED
    BY <2>1, <2>2
<1>10. ASSUME NEW d \in Inodes, NEW n \in Names, InFolder(d, n)', IsDir(entry[d][n])'
       PROVE  entry'[d][n] \in inside'
  <2>1. CASE d = dir /\ n = name
    <3>1. entry'[d][n] = i /\ what = "dir" /\ d # i
      BY <2>1, <1>3, <1>4, <1>5, <1>10 DEF IsDir
    <3>2. InFolder(dir, name)
      BY <3>1, <2>1, <1>10, <1>1 DEF InFolder
    <3> QED
      BY <3>1, <3>2, <1>1
  <2>2. CASE ~(d = dir /\ n = name)
    <3>1. entry'[d][n] = entry[d][n]
      BY <2>2, <1>3
    <3>2. entry[d][n] # Null /\ d # i /\ entry[d][n] # i /\ entry[d][n] \in Inodes
      BY <3>1, <1>6, <1>10 DEF IsDir, TypeOK
    <3>3. InFolder(d, n) /\ IsDir(entry[d][n])
      BY <3>1, <3>2, <1>1, <1>4, <1>10 DEF InFolder, IsDir
    <3> QED
      BY <3>1, <3>3, <1>1 DEF Tree
  <2> QED
    BY <2>1, <2>2
<1>11. Tree'
  BY <1>7, <1>8, <1>9, <1>10 DEF Tree
<1> QED
  BY <1>1, <1>2, <1>4, <1>11 DEF TypeOK

\* A file or link that is removed takes nothing with it that a call is writing.
LEMMA FreeKeeps ==
  ASSUME Inv, NEW dir \in Inodes, NEW name \in Names,
         entry[dir][name] # Null, kind[entry[dir][name]] # "dir", Free(dir, name)
  PROVE  /\ FsTypes' /\ Tree'
         /\ inside' = inside
         /\ \A j \in Inodes : \/ kind'[j] = kind[j] /\ data'[j] = data[j]
                              \/ kind'[j] = "free"
         /\ \A c \in Calls : HasOpen(c) =>
              kind'[call[c].made] = kind[call[c].made] /\ data'[call[c].made] = data[call[c].made]
<1> USE DEF Inv
<1> DEFINE i == entry[dir][name]
           open == \E c \in Calls : HasOpen(c) /\ call[c].made = i
<1>1. /\ entry' = [entry EXCEPT ![dir][name] = Null]
      /\ kind' = IF open THEN kind ELSE [kind EXCEPT ![i] = "free"]
      /\ data' = IF open THEN data ELSE [data EXCEPT ![i] = "none"]
      /\ inside' = inside
  BY DEF Free
<1>2. i \in Inodes
  BY DEF TypeOK
<1>3. FsTypes'
  BY <1>1, <1>2 DEF TypeOK, FsTypes, Kinds, Contents
<1>4. \A d \in Inodes, n \in Names :
        entry'[d][n] = IF d = dir /\ n = name THEN Null ELSE entry[d][n]
  BY <1>1 DEF TypeOK
<1>5. \A j \in Inodes : kind'[j] = kind[j] \/ (j = i /\ kind'[j] = "free")
  BY <1>1, <1>2 DEF TypeOK
<1>6. \A j \in Inodes : \/ kind'[j] = kind[j] /\ data'[j] = data[j]
                        \/ kind'[j] = "free"
  BY <1>1, <1>2 DEF TypeOK
<1>7. \A j \in inside \cup {Top, Outside} : kind'[j] = "dir"
  BY <1>5, InodesAssumption DEF Tree, TypeOK
<1>8. ASSUME NEW d \in Inodes, NEW n \in Names, entry'[d][n] # Null
      PROVE  /\ kind'[d] = "dir" /\ kind'[entry'[d][n]] # "free"
             /\ \A e \in Inodes, m \in Names : entry'[e][m] = entry'[d][n] => e = d /\ m = n
  <2>1. ~(d = dir /\ n = name) /\ entry'[d][n] = entry[d][n] /\ entry[d][n] # Null
    BY <1>4, <1>8
  <2>2. kind[d] = "dir" /\ kind[entry[d][n]] # "free" /\ entry[d][n] # i
    BY <2>1 DEF Tree
  <2>3. kind'[d] = "dir"
    BY <2>2, <1>5
  <2>4. kind'[entry[d][n]] # "free"
    BY <2>1, <2>2, <1>5 DEF TypeOK
  <2>5. \A e \in Inodes, m \in Names : entry'[e][m] = entry[d][n] => e = d /\ m = n
    BY <2>1, <1>4 DEF Tree
  <2> QED
    BY <2>1, <2>3, <2>4, <2>5
<1>9. ASSUME NEW d \in Inodes, NEW n \in Names, InFolder(d, n)', IsDir(entry[d][n])'
      PROVE  entry'[d][n] \in inside'
  <2>1. entry'[d][n] = entry[d][n] /\ entry[d][n] \in Inodes
    BY <1>4, <1>9 DEF IsDir, TypeOK
  <2>2. InFolder(d, n) /\ IsDir(entry[d][n])
    BY <2>1, <1>1, <1>5, <1>9 DEF InFolder, IsDir
  <2> QED
    BY <2>1, <2>2, <1>1 DEF Tree
<1>10. Tree'
  BY <1>1, <1>7, <1>8, <1>9 DEF Tree
<1>11. \A c \in Calls : HasOpen(c) =>
         kind'[call[c].made] = kind[call[c].made] /\ data'[call[c].made] = data[call[c].made]
  BY <1>1, <1>2 DEF TypeOK, Writing
<1> QED
  BY <1>1, <1>3, <1>6, <1>10, <1>11

\* An entry that is moved out of the folder leaves the rest as it was.
LEMMA MoveKeeps ==
  ASSUME Inv, NEW dir \in Inodes, NEW name \in Names, ForeignMoves(dir, name)
  PROVE  FsTypes' /\ Tree'
<1> USE DEF Inv
<1>1. PICK free \in Names :
        /\ entry[Outside][free] = Null
        /\ entry' = [entry EXCEPT ![dir][name] = Null, ![Outside][free] = entry[dir][name]]
  BY DEF ForeignMoves
<1>2. dir # Outside /\ entry[dir][name] # Null /\ UNCHANGED <<kind, data, inside>>
  BY DEF ForeignMoves
<1>3. Outside \in Inodes /\ entry[dir][name] \in Inodes
  BY <1>2, InodesAssumption DEF TypeOK
<1>4. \A d \in Inodes, n \in Names :
        entry'[d][n] = IF d = dir /\ n = name THEN Null
                       ELSE IF d = Outside /\ n = free THEN entry[dir][name]
                       ELSE entry[d][n]
  BY <1>1, <1>2, <1>3 DEF TypeOK
<1>5. FsTypes'
  BY <1>1, <1>2, <1>3 DEF TypeOK, FsTypes
<1>6. ASSUME NEW d \in Inodes, NEW n \in Names, entry'[d][n] # Null
      PROVE  /\ kind[d] = "dir" /\ kind[entry'[d][n]] # "free"
             /\ \A e \in Inodes, m \in Names : entry'[e][m] = entry'[d][n] => e = d /\ m = n
  <2>1. CASE d = Outside /\ n = free
    <3>1. entry'[d][n] = entry[dir][name]
      BY <2>1, <1>2, <1>4
    <3>2. \A e \in Inodes, m \in Names : entry'[e][m] = entry[dir][name] => e = d /\ m = n
      BY <2>1, <1>2, <1>4 DEF Tree
    <3> QED
      BY <2>1, <3>1, <3>2, <1>2 DEF Tree
  <2>2. CASE ~(d = Outside /\ n = free)
    <3>1. ~(d = dir /\ n = name) /\ entry'[d][n] = entry[d][n] /\ entry[d][n] # Null
      BY <2>2, <1>4, <1>6
    <3>2. entry[d][n] # entry[dir][name]
      BY <3>1 DEF Tree
    <3>3. \A e \in Inodes, m \in Names : entry'[e][m] = entry[d][n] => e = d /\ m = n
      BY <3>1, <3>2, <1>4 DEF Tree
    <3> QED
      BY <3>1, <3>3 DEF Tree
  <2> QED
    BY <2>1, <2>2
<1>7. ASSUME NEW d \in Inodes, NEW n \in Names, InFolder(d, n), IsDir(entry[d][n])'
      PROVE  entry'[d][n] \in inside
  <2>1. d # Outside
    BY <1>7, InodesAssumption DEF InFolder, Tree
  <2>2. entry'[d][n] = entry[d][n] /\ IsDir(entry[d][n])
    BY <2>1, <1>2, <1>4, <1>7 DEF IsDir
  <2> QED
    BY <2>2, <1>7 DEF Tree
<1>8. Tree'
  BY <1>2, <1>6, <1>7 DEF Tree, InFolder
<1> QED
  BY <1>5, <1>8

-----------------------------------------------------------------------------
(* What happens to the calls.                                               *)

\* The calls stay where they are, and none begins to write
InPlace ==
  \A d \in Calls :
    /\ call'[d] # Idle => /\ call[d] # Idle /\ call'[d].dir = call[d].dir
                          /\ call'[d].at = call[d].at /\ call'[d].made = call[d].made
    /\ HasOpen(d)' => HasOpen(d)

\* What is being written is left alone
WrittenAlone ==
  \A d \in Calls : HasOpen(d)' =>
    kind'[call[d].made] = kind[call[d].made] /\ data'[call[d].made] = data[call[d].made]

\* No file another call or process has made is changed
KeepsFiles ==
  \A i \in Inodes :
    kind[i] = "file" /\ kind'[i] = "file" /\ data[i] \in {"theirs", "whole"} =>
      data'[i] = data[i]

\* A call that goes on to another step stays in place.
LEMMA GotoKeeps ==
  ASSUME Inv, NEW c \in Calls, call[c] # Idle, NEW pc \in Steps,
         pc \in {"fstat", "write", "leaked"} => HasOpen(c),
         pc \in {"open", "mkdir"} => call[c].at < Len(call[c].path), Goto(c, pc)
  PROVE  CallTypes' /\ Walking' /\ InPlace
<1> USE DEF Inv
<1>1. call[c] \in Call
  BY Underway
<1>2. call' = [call EXCEPT ![c] = [call[c] EXCEPT !.pc = pc]]
  BY DEF Goto, TypeOK
<1>3. /\ call'[c] \in Call /\ call'[c].pc = pc
      /\ call'[c].dir = call[c].dir /\ call'[c].at = call[c].at
      /\ call'[c].made = call[c].made /\ call'[c].path = call[c].path
  BY <1>1, <1>2 DEF TypeOK, Call
<1>4. \A d \in Calls \ {c} : call'[d] = call[d]
  BY <1>2 DEF TypeOK
<1>5. call'[c] # Idle
  BY <1>3 DEF Idle, Steps, Results
<1>6. CallTypes'
  BY <1>2, <1>3, <1>4 DEF TypeOK, CallTypes
<1>7. Walking'
  BY <1>3, <1>4 DEF Walking
<1>8. InPlace
  BY <1>3, <1>4 DEF InPlace, HasOpen
<1> QED
  BY <1>6, <1>7, <1>8

\* Steps in place keep the invariant if they keep the tree and what is written.
LEMMA InPlaceKeeps ==
  ASSUME Inv, FsTypes', Tree', inside \subseteq inside', foreign' \in 0 .. MaxForeign,
         CallTypes', Walking', InPlace, WrittenAlone
  PROVE  Inv'
<1> USE DEF Inv
<1>1. TypeOK'
  BY DEF TypeOK, FsTypes, CallTypes
<1>2. StaysInside'
  BY DEF StaysInside, InPlace
<1>3. Writing'
  <2> SUFFICES ASSUME NEW d \in Calls, HasOpen(d)'
               PROVE  /\ call'[d].made \in Inodes
                      /\ kind'[call'[d].made] = "file" /\ data'[call'[d].made] = "partial"
                      /\ \A e \in Calls :
                           HasOpen(e)' /\ call'[e].made = call'[d].made => e = d
    BY DEF Writing
  <2>1. \A e \in Calls : HasOpen(e)' => HasOpen(e) /\ call'[e].made = call[e].made
    BY DEF InPlace, HasOpen
  <2> QED
    BY <2>1 DEF Writing, WrittenAlone
<1> QED
  BY <1>1, <1>2, <1>3

\* A call that makes something does not touch what is being written, nor a file.
LEMMA MakeSpares ==
  ASSUME Inv, NEW i \in Inodes, InPlace, kind[i] = "free",
         \A j \in Inodes \ {i} : kind'[j] = kind[j] /\ data'[j] = data[j]
  PROVE  WrittenAlone /\ KeepsFiles
BY DEF Inv, Writing, InPlace, WrittenAlone, KeepsFiles

-----------------------------------------------------------------------------
(* The initial states and the steps.                                        *)

LEMMA InitInv == Init => Inv
<1> SUFFICES ASSUME Init PROVE Inv
  OBVIOUS
<1>1. PICK root \in Inodes \ {Top, Outside}, k \in {"dir", "link", "free"} :
        /\ kind = [i \in Inodes |-> IF i \in {Top, Outside} THEN "dir"
                                    ELSE IF i = root THEN k ELSE "free"]
        /\ entry = [i \in Inodes |-> [n \in Names |->
                      IF i = Top /\ n = Root /\ k # "free" THEN root ELSE Null]]
        /\ inside = IF k = "dir" THEN {root} ELSE {}
  BY DEF Init
<1>2. /\ data = [i \in Inodes |-> "none"] /\ call = [c \in Calls |-> Idle]
      /\ foreign = 0
  BY DEF Init
<1>3. TypeOK
  BY <1>1, <1>2, ForeignAssumption DEF TypeOK, Kinds, Contents
<1>4. \A d \in Inodes, n \in Names :
        entry[d][n] = IF d = Top /\ n = Root /\ k # "free" THEN root ELSE Null
  BY <1>1
<1>5. \A i \in Inodes : kind[i] = IF i \in {Top, Outside} THEN "dir"
                                  ELSE IF i = root THEN k ELSE "free"
  BY <1>1
<1>6. Tree
  BY <1>1, <1>4, <1>5, InodesAssumption DEF Tree, IsDir, InFolder
<1>7. Walking /\ Writing /\ StaysInside
  BY <1>2 DEF Walking, Writing, StaysInside, HasOpen
<1> QED
  BY <1>3, <1>6, <1>7 DEF Inv

LEMMA BeginStep ==
  ASSUME Inv, NEW c \in Calls, NEW path \in Paths, NEW parents \in BOOLEAN,
         NEW folder \in BOOLEAN, Begin(c, path, parents, folder)
  PROVE  Inv' /\ KeepsFiles
<1> USE DEF Inv
<1> DEFINE begun == [pc |-> "open", path |-> path, parents |-> parents, folder |-> folder,
                     at |-> 0, dir |-> Top, made |-> Null]
<1>1. call' = [call EXCEPT ![c] = begun] /\ UNCHANGED <<kind, entry, data, inside, foreign>>
  BY DEF Begin, fs
<1>2. begun \in Call /\ begun # Idle /\ Len(path) \in Nat \ {0}
  BY PathsAssumption, InodesAssumption DEF Call, Idle, Steps
<1>3. call'[c] = begun /\ \A d \in Calls \ {c} : call'[d] = call[d]
  BY <1>1 DEF TypeOK
<1>4. TypeOK'
  BY <1>1, <1>2, <1>3 DEF TypeOK
<1>5. Walking' /\ StaysInside' /\ Writing'
  BY <1>1, <1>2, <1>3 DEF Walking, StaysInside, Writing, HasOpen
<1>6. Tree'
  BY <1>1 DEF Tree, InFolder, IsDir
<1> QED
  BY <1>1, <1>4, <1>5, <1>6 DEF KeepsFiles

\* Steps of a call that leave the file system alone.
LEMMA QuietStep ==
  ASSUME Inv, UNCHANGED <<fs, foreign>>, CallTypes', Walking', InPlace
  PROVE  Inv' /\ KeepsFiles
<1>1. UNCHANGED <<kind, entry, data, inside, foreign>>
  BY DEF fs
<1>2. FsTypes' /\ foreign' \in 0 .. MaxForeign /\ WrittenAlone /\ KeepsFiles
  BY <1>1 DEF Inv, TypeOK, FsTypes, WrittenAlone, KeepsFiles
<1>3. Tree'
  BY <1>1 DEF Inv, Tree, InFolder, IsDir
<1> QED
  BY <1>1, <1>2, <1>3, InPlaceKeeps

LEMMA OpenDirectoryStep ==
  ASSUME Inv, NEW c \in Calls, OpenDirectory(c)
  PROVE  Inv' /\ KeepsFiles
<1> USE DEF Inv
<1>1. /\ call[c] # Idle /\ call[c].pc = "open"
      /\ UNCHANGED <<kind, entry, data, inside, foreign>>
  BY DEF OpenDirectory, At, fs
<1>2. /\ call[c] \in Call /\ call[c].dir \in Inodes /\ Name(c) \in Names
      /\ call[c].at \in Nat /\ call[c].at < Len(call[c].path) /\ Len(call[c].path) \in Nat
  BY <1>1, Position DEF Walking
<1>3. CASE ~IsDir(Opened(c)) /\ Goto(c, "refused")
  <2>1. CallTypes' /\ Walking' /\ InPlace
    BY <1>1, <1>3, GotoKeeps DEF Steps, Results
  <2> QED
    BY <1>1, <2>1, QuietStep DEF fs
<1>4. CASE /\ IsDir(Opened(c))
           /\ call' = [call EXCEPT ![c].dir = Opened(c), ![c].at = @ + 1,
                ![c].pc = IF call[c].at + 1 = Len(call[c].path) THEN "leaf"
                          ELSE IF call[c].parents THEN "mkdir" ELSE "open"]
  <2> DEFINE pc == IF call[c].at + 1 = Len(call[c].path) THEN "leaf"
                   ELSE IF call[c].parents THEN "mkdir" ELSE "open"
  <2>1. InFolder(call[c].dir, Name(c))
    BY <1>1, <1>2 DEF InFolder, Walking, StaysInside, Name
  <2>2. Opened(c) \in inside /\ Opened(c) # Outside /\ Opened(c) \in Inodes
    BY <2>1, <1>2, <1>4 DEF Opened, Here, Tree, TypeOK
  <2>3. call' = [call EXCEPT ![c] = [call[c] EXCEPT !.dir = Opened(c), !.at = call[c].at + 1,
                                                    !.pc = pc]]
    BY <1>2, <1>4 DEF TypeOK, Call
  <2>4. /\ call'[c] \in Call /\ call'[c].pc = pc /\ call'[c].dir = Opened(c)
        /\ call'[c].at = call[c].at + 1 /\ call'[c].path = call[c].path
    <3>1. pc \in Steps
      BY DEF Steps
    <3>2. call'[c] = [call[c] EXCEPT !.dir = Opened(c), !.at = call[c].at + 1, !.pc = pc]
      BY <2>3 DEF TypeOK
    <3>3. call[c].at + 1 \in Nat
      BY <1>2
    <3> HIDE DEF pc
    <3> QED
      BY <1>2, <2>2, <3>1, <3>2, <3>3 DEF Call
  <2>5. \A d \in Calls \ {c} : call'[d] = call[d]
    BY <2>3 DEF TypeOK
  <2>6. TypeOK'
    BY <1>1, <1>2, <2>3, <2>4, <2>5 DEF TypeOK
  <2>7. Walking'
    BY <1>2, <2>4, <2>5 DEF Walking
  <2>8. StaysInside'
    BY <1>1, <2>2, <2>4, <2>5 DEF StaysInside
  <2>9. Writing'
    BY <1>1, <2>4, <2>5 DEF Writing, HasOpen
  <2>10. Tree' /\ KeepsFiles
    BY <1>1 DEF Tree, InFolder, IsDir, KeepsFiles
  <2> QED
    BY <2>6, <2>7, <2>8, <2>9, <2>10
<1> QED
  BY <1>3, <1>4 DEF OpenDirectory

\* mkdir of a parent or of the leaf: what is new is a folder.
LEMMA MakeDirectoryStep ==
  ASSUME Inv, NEW c \in Calls, MakeParent(c) \/ MakeFolder(c)
  PROVE  Inv' /\ KeepsFiles
<1> USE DEF Inv
<1>1. /\ call[c] # Idle /\ foreign' = foreign
      /\ \E pc \in {"open", "created", "check"} :
           Goto(c, pc) /\ (pc = "open" => call[c].pc = "mkdir")
      /\ \/ \E i \in Inodes : Make(i, call[c].dir, Name(c), "dir", "none")
         \/ UNCHANGED fs
  BY DEF MakeParent, MakeFolder, At
<1>2. CallTypes' /\ Walking' /\ InPlace
  BY <1>1, GotoKeeps DEF Steps, Results, Walking
<1>3. CASE UNCHANGED fs
  BY <1>1, <1>2, <1>3, QuietStep
<1>4. ASSUME NEW i \in Inodes, Make(i, call[c].dir, Name(c), "dir", "none")
      PROVE  Inv' /\ KeepsFiles
  <2>1. /\ FsTypes' /\ Tree' /\ inside \subseteq inside' /\ kind[i] = "free"
        /\ \A j \in Inodes \ {i} : kind'[j] = kind[j] /\ data'[j] = data[j]
    BY <1>1, <1>4, Position, MakeKeeps DEF Kinds, Contents
  <2>2. WrittenAlone /\ KeepsFiles
    BY <2>1, <1>2, MakeSpares
  <2> QED
    BY <1>1, <1>2, <2>1, <2>2, InPlaceKeeps DEF TypeOK
<1> QED
  BY <1>1, <1>3, <1>4

LEMMA MakeFileStep ==
  ASSUME Inv, NEW c \in Calls, MakeFile(c)
  PROVE  Inv' /\ KeepsFiles
<1> USE DEF Inv
<1>1. call[c] # Idle /\ call[c].pc = "leaf" /\ foreign' = foreign
  BY DEF MakeFile, At
<1>2. call[c] \in Call
  BY <1>1, Position
<1>3. CASE Goto(c, "refused") /\ UNCHANGED fs
  <2>1. CallTypes' /\ Walking' /\ InPlace
    BY <1>1, <1>3, GotoKeeps DEF Steps, Results
  <2> QED
    BY <1>1, <1>3, <2>1, QuietStep
<1>4. ASSUME NEW i \in Inodes,
             Make(i, call[c].dir, Name(c), "file", "partial"),
             call' = [call EXCEPT ![c].pc = "fstat", ![c].made = i]
      PROVE  Inv' /\ KeepsFiles
  <2>1. /\ FsTypes' /\ Tree' /\ inside \subseteq inside'
        /\ kind[i] = "free" /\ kind'[i] = "file" /\ data'[i] = "partial"
        /\ \A j \in Inodes \ {i} : kind'[j] = kind[j] /\ data'[j] = data[j]
    BY <1>1, <1>4, Position, MakeKeeps DEF Kinds, Contents
  <2>2. call'[c] = [call[c] EXCEPT !.pc = "fstat", !.made = i]
    BY <1>2, <1>4 DEF TypeOK
  <2>3. /\ call'[c] \in Call /\ call'[c].pc = "fstat" /\ call'[c].made = i
        /\ call'[c].dir = call[c].dir /\ call'[c].at = call[c].at
        /\ call'[c].path = call[c].path
    BY <1>2, <2>2 DEF Call, Steps
  <2>4. \A d \in Calls \ {c} : call'[d] = call[d]
    BY <1>4 DEF TypeOK
  <2>5. call' \in [Calls -> {Idle} \cup Call]
    BY <1>4, <2>3, <2>4 DEF TypeOK
  <2>6. TypeOK'
    BY <1>1, <2>1, <2>3, <2>4, <2>5 DEF TypeOK, FsTypes
  <2>7. Walking' /\ StaysInside'
    BY <1>1, <2>1, <2>3, <2>4 DEF Walking, StaysInside
  <2>8. \A d \in Calls \ {c} : HasOpen(d)' =>
          /\ HasOpen(d) /\ call'[d].made = call[d].made
          /\ call[d].made \in Inodes /\ call[d].made # i
    BY <2>1, <2>4 DEF Writing, HasOpen
  <2>9. Writing'
    BY <2>1, <2>3, <2>4, <2>8 DEF Writing, HasOpen
  <2>10. KeepsFiles
    BY <2>1 DEF KeepsFiles
  <2> QED
    BY <2>1, <2>6, <2>7, <2>9, <2>10
<1> QED
  BY <1>3, <1>4 DEF MakeFile

\* A write changes the file of its own call only.
LEMMA WriteStep ==
  ASSUME Inv, NEW c \in Calls, Write(c)
  PROVE  Inv' /\ KeepsFiles
<1> USE DEF Inv
<1> DEFINE i == call[c].made
<1>1. /\ HasOpen(c) /\ call[c] # Idle /\ Goto(c, "created")
      /\ data' = [data EXCEPT ![i] = "whole"]
      /\ UNCHANGED <<kind, entry, inside, foreign>>
  BY DEF Write, At, HasOpen
<1>2. i \in Inodes /\ data[i] = "partial"
  BY <1>1 DEF Writing
<1>3. CallTypes' /\ Walking' /\ InPlace
  BY <1>1, GotoKeeps DEF Steps, Results
<1>4. ~HasOpen(c)'
  BY <1>1, Underway DEF Goto, HasOpen, TypeOK, Call
<1>5. FsTypes' /\ Tree'
  <2>1. FsTypes'
    BY <1>1 DEF TypeOK, FsTypes, Contents
  <2>2. Tree'
    BY <1>1 DEF Tree, InFolder, IsDir
  <2> QED
    BY <2>1, <2>2
<1>6. \A j \in Inodes \ {i} : data'[j] = data[j]
  BY <1>1 DEF TypeOK
<1>7. WrittenAlone /\ KeepsFiles
  BY <1>1, <1>2, <1>3, <1>4, <1>6 DEF WrittenAlone, KeepsFiles, InPlace, Writing
<1> QED
  BY <1>1, <1>3, <1>5, <1>7, InPlaceKeeps DEF TypeOK

\* So does a write that fails; the file is freed if it has lost its name.
LEMMA WriteFailsStep ==
  ASSUME Inv, NEW c \in Calls, WriteFails(c)
  PROVE  Inv' /\ KeepsFiles
<1> USE DEF Inv
<1> DEFINE i == call[c].made
           orphan == \A d \in Inodes, n \in Names : entry[d][n] # i
<1>1. /\ HasOpen(c) /\ call[c] # Idle
      /\ Goto(c, "stat") \/ Goto(c, "left")
      /\ kind' = IF orphan THEN [kind EXCEPT ![i] = "free"] ELSE kind
      /\ data' = IF orphan THEN [data EXCEPT ![i] = "none"] ELSE data
      /\ UNCHANGED <<entry, inside, foreign>>
  BY DEF WriteFails, At, HasOpen
<1>2. i \in Inodes /\ kind[i] = "file" /\ data[i] = "partial"
  BY <1>1 DEF Writing
<1>3. CallTypes' /\ Walking' /\ InPlace
  BY <1>1, GotoKeeps DEF Steps, Results
<1>4. ~HasOpen(c)'
  BY <1>1, Underway DEF Goto, HasOpen, TypeOK, Call
<1>5. FsTypes'
  BY <1>1, <1>2 DEF TypeOK, FsTypes, Contents, Kinds
<1>6. \A j \in Inodes \ {i} : kind'[j] = kind[j] /\ data'[j] = data[j]
  BY <1>1 DEF TypeOK
<1>7. Tree'
  <2>1. \A j \in inside \cup {Top, Outside} : j # i /\ kind'[j] = "dir"
    BY <1>2, <1>6, InodesAssumption DEF Tree, TypeOK
  <2>2. ASSUME NEW d \in Inodes, NEW n \in Names, entry[d][n] # Null
        PROVE  kind'[d] = "dir" /\ kind'[entry[d][n]] # "free"
    <3>1. kind[d] = "dir" /\ kind[entry[d][n]] # "free" /\ entry[d][n] \in Inodes
      BY <2>2 DEF Tree, TypeOK
    <3>2. kind'[d] = "dir"
      BY <3>1, <1>2, <1>6
    <3>3. entry[d][n] = i => ~orphan
      BY <2>2
    <3>4. kind'[entry[d][n]] # "free"
      BY <3>1, <3>3, <1>1, <1>6
    <3> QED
      BY <3>2, <3>4
  <2>3. ASSUME NEW d \in Inodes, NEW n \in Names, InFolder(d, n), IsDir(entry[d][n])'
        PROVE  entry[d][n] \in inside
    <3>1. entry[d][n] \in Inodes /\ kind'[entry[d][n]] = "dir"
      BY <2>3, <1>1 DEF IsDir, TypeOK
    <3>2. IsDir(entry[d][n])
      BY <3>1, <2>3, <1>1, <1>2, <1>6 DEF IsDir, TypeOK
    <3> QED
      BY <3>2, <2>3 DEF Tree
  <2> QED
    BY <1>1, <2>1, <2>2, <2>3 DEF Tree, InFolder
<1>8. WrittenAlone /\ KeepsFiles
  BY <1>2, <1>3, <1>4, <1>6, <1>1 DEF WrittenAlone, KeepsFiles, InPlace, Writing
<1> QED
  BY <1>1, <1>3, <1>5, <1>7, <1>8, InPlaceKeeps DEF TypeOK

\* The clean-up removes a name, of a file that no call is writing any more.
LEMMA UnlinkStep ==
  ASSUME Inv, NEW c \in Calls, Unlink(c)
  PROVE  Inv' /\ KeepsFiles
<1> USE DEF Inv
<1>1. call[c] # Idle /\ Goto(c, "fault") /\ foreign' = foreign
  BY DEF Unlink, At
<1>2. CallTypes' /\ Walking' /\ InPlace
  BY <1>1, GotoKeeps DEF Steps, Results
<1>3. CASE UNCHANGED fs
  BY <1>1, <1>2, <1>3, QuietStep
<1>4. CASE Here(c) # Null /\ ~IsDir(Here(c)) /\ Free(call[c].dir, Name(c))
  <2>1. call[c].dir \in Inodes /\ Name(c) \in Names /\ kind[Here(c)] # "dir"
    BY <1>1, <1>4, Position DEF IsDir
  <2>2. /\ FsTypes' /\ Tree' /\ inside' = inside
        /\ \A j \in Inodes : \/ kind'[j] = kind[j] /\ data'[j] = data[j]
                             \/ kind'[j] = "free"
        /\ \A d \in Calls : HasOpen(d) =>
             kind'[call[d].made] = kind[call[d].made] /\ data'[call[d].made] = data[call[d].made]
    BY <1>4, <2>1, FreeKeeps DEF Here
  <2>3. WrittenAlone /\ KeepsFiles
    BY <1>2, <2>2 DEF WrittenAlone, KeepsFiles, InPlace
  <2> QED
    BY <1>1, <1>2, <2>2, <2>3, InPlaceKeeps DEF TypeOK
<1> QED
  BY <1>3, <1>4 DEF Unlink

\* The other steps of a call only look.
LEMMA LookStep ==
  ASSUME Inv, NEW c \in Calls, CheckFolder(c) \/ Identify(c) \/ Stat(c) \/ Fault(c)
  PROVE  Inv' /\ KeepsFiles
<1>1. /\ call[c] # Idle /\ UNCHANGED <<fs, foreign>>
      /\ \E pc \in {"existed", "refused", "write", "unlink", "fault", "left", "leaked"} :
           Goto(c, pc) /\ (pc \in {"write", "leaked"} => HasOpen(c))
  BY DEF CheckFolder, Identify, Stat, Fault, At, HasOpen
<1>2. CallTypes' /\ Walking' /\ InPlace
  BY <1>1, GotoKeeps DEF Steps, Results
<1> QED
  BY <1>1, <1>2, QuietStep

\* Other processes change files, but not those that are being written.
LEMMA ForeignStep ==
  ASSUME Inv, NEW dir \in Inodes, NEW name \in Names,
         ForeignMakes(dir, name) \/ ForeignRemoves(dir, name) \/ ForeignMoves(dir, name)
  PROVE  Inv' /\ foreign' # foreign
<1> USE DEF Inv
<1>1. /\ call' = call /\ foreign' = foreign + 1 /\ foreign < MaxForeign
      /\ foreign \in Nat
  BY ForeignAssumption DEF ForeignMakes, ForeignRemoves, ForeignMoves, Foreign, TypeOK
<1>2. foreign' \in 0 .. MaxForeign /\ foreign' # foreign
  BY <1>1, ForeignAssumption
<1>3. CallTypes' /\ Walking' /\ InPlace
  BY <1>1 DEF TypeOK, CallTypes, Walking, InPlace, HasOpen
<1>4. CASE ForeignMakes(dir, name)
  <2>1. kind[dir] = "dir"
    BY <1>4 DEF ForeignMakes, InFolder, Tree
  <2>2. PICK i \in Inodes, k \in {"dir", "file", "link"} :
          Make(i, dir, name, k, IF k = "file" THEN "theirs" ELSE "none")
    BY <1>4 DEF ForeignMakes
  <2>3. /\ FsTypes' /\ Tree' /\ inside \subseteq inside' /\ kind[i] = "free"
        /\ \A j \in Inodes \ {i} : kind'[j] = kind[j] /\ data'[j] = data[j]
    BY <2>1, <2>2, MakeKeeps DEF Kinds, Contents
  <2> QED
    BY <1>2, <1>3, <2>3, MakeSpares, InPlaceKeeps
<1>5. CASE ForeignRemoves(dir, name)
  <2>1. /\ entry[dir][name] # Null /\ kind[entry[dir][name]] # "dir"
        /\ Free(dir, name)
    BY <1>5 DEF ForeignRemoves
  <2>2. /\ FsTypes' /\ Tree' /\ inside' = inside
        /\ \A d \in Calls : HasOpen(d) =>
             kind'[call[d].made] = kind[call[d].made] /\ data'[call[d].made] = data[call[d].made]
    BY <2>1, FreeKeeps
  <2>3. WrittenAlone
    BY <1>3, <2>2 DEF WrittenAlone, InPlace
  <2> QED
    BY <1>2, <1>3, <2>2, <2>3, InPlaceKeeps
<1>6. CASE ForeignMoves(dir, name)
  <2>1. UNCHANGED <<kind, data, inside>>
    BY <1>6 DEF ForeignMoves
  <2> QED
    BY <1>2, <1>3, <1>6, <2>1, MoveKeeps, InPlaceKeeps DEF WrittenAlone
<1> QED
  BY <1>2, <1>4, <1>5, <1>6

-----------------------------------------------------------------------------
\* Every step keeps the invariant, and a step of a call keeps the files of others.
LEMMA NextStep ==
  ASSUME Inv, [Next]_vars
  PROVE  Inv' /\ (foreign' = foreign => KeepsFiles)
<1>1. CASE UNCHANGED vars
  <2>1. UNCHANGED <<fs, foreign>> /\ UNCHANGED call
    BY <1>1 DEF vars, fs
  <2>2. CallTypes' /\ Walking' /\ InPlace
    BY <2>1 DEF Inv, TypeOK, CallTypes, Walking, InPlace, HasOpen
  <2> QED
    BY <2>1, <2>2, QuietStep
<1>2. ASSUME NEW c \in Calls, NEW path \in Paths, NEW parents \in BOOLEAN,
             NEW folder \in BOOLEAN, Begin(c, path, parents, folder)
      PROVE  Inv' /\ KeepsFiles
  BY <1>2, BeginStep
<1>3. ASSUME NEW c \in Calls, OpenDirectory(c)
      PROVE  Inv' /\ KeepsFiles
  BY <1>3, OpenDirectoryStep
<1>4. ASSUME NEW c \in Calls, MakeParent(c) \/ MakeFolder(c)
      PROVE  Inv' /\ KeepsFiles
  BY <1>4, MakeDirectoryStep
<1>5. ASSUME NEW c \in Calls, MakeFile(c)
      PROVE  Inv' /\ KeepsFiles
  BY <1>5, MakeFileStep
<1>6. ASSUME NEW c \in Calls, Write(c) \/ WriteFails(c)
      PROVE  Inv' /\ KeepsFiles
  BY <1>6, WriteStep, WriteFailsStep
<1>7. ASSUME NEW c \in Calls, Unlink(c)
      PROVE  Inv' /\ KeepsFiles
  BY <1>7, UnlinkStep
<1>8. ASSUME NEW c \in Calls, CheckFolder(c) \/ Identify(c) \/ Stat(c) \/ Fault(c)
      PROVE  Inv' /\ KeepsFiles
  BY <1>8, LookStep
<1>9. ASSUME NEW dir \in Inodes, NEW name \in Names,
             ForeignMakes(dir, name) \/ ForeignRemoves(dir, name) \/ ForeignMoves(dir, name)
      PROVE  Inv' /\ foreign' # foreign
  BY <1>9, ForeignStep
<1> QED
  BY <1>1, <1>2, <1>3, <1>4, <1>5, <1>6, <1>7, <1>8, <1>9 DEF Next

THEOREM Invariance == Spec => []Inv
<1>1. Inv /\ [Next]_vars => Inv'
  BY NextStep
<1> QED
  BY <1>1, InitInv, PTL DEF Spec

\* The file system, the calls and their positions are well typed for every set of
\* inodes, names, paths and calls (_create).
THEOREM TypeCorrect == Spec => []TypeOK
<1>1. Inv => TypeOK
  BY DEF Inv
<1> QED
  BY <1>1, Invariance, PTL

\* A call works only in directories that were under the ESPHome folder, whatever
\* other processes do between its system calls (_create).
THEOREM CallsStayInside == Spec => []StaysInside
<1>1. Inv => StaysInside
  BY DEF Inv
<1> QED
  BY <1>1, Invariance, PTL

\* No step of a call changes a file that another call or process has made (_create).
THEOREM FilesAreKept == Spec => NeverOverwrites
<1>1. Inv /\ [Next]_vars =>
        [foreign' = foreign => \A i \in Inodes :
           kind[i] = "file" /\ kind'[i] = "file" /\ data[i] \in {"theirs", "whole"} =>
             data'[i] = data[i]]_vars
  BY NextStep DEF KeepsFiles
<1> QED
  BY <1>1, Invariance, PTL DEF Spec, NeverOverwrites

-----------------------------------------------------------------------------
(* Among calls alone, what is left behind has a cause.                      *)

\* The calls that go on with a file of theirs do so where they were
PendingStay ==
  \A d \in Calls : Pending(d)' =>
    /\ Pending(d) /\ call'[d].made = call[d].made /\ Here(d)' = Here(d)
    /\ kind'[call[d].made] = kind[call[d].made] /\ data'[call[d].made] = data[call[d].made]

\* What is partial was so before, and no call has given it up
PartialStay ==
  \A i \in Inodes : kind'[i] = "file" /\ data'[i] = "partial" =>
    /\ kind[i] = "file" /\ data[i] = "partial"
    /\ \A d \in Calls : Pending(d) /\ call[d].made = i => Pending(d)' /\ call'[d].made = i

LEMMA StayKeepsClean ==
  ASSUME LeftForCause, Owned, Alone, PendingStay, PartialStay
  PROVE  CleanInv'
<1>1. Owned'
  BY DEF Owned, PendingStay
<1>2. LeftForCause'
  BY DEF LeftForCause, PartialStay, Pending
<1> QED
  BY <1>1, <1>2 DEF CleanInv

\* A call that goes on to another step stays at its name.
LEMMA GotoStays ==
  ASSUME Inv, NEW c \in Calls, call[c] # Idle, NEW pc, Goto(c, pc)
  PROVE  /\ \A d \in Calls \ {c} : call'[d] = call[d]
         /\ call'[c].pc = pc /\ call'[c].made = call[c].made
         /\ call'[c].dir = call[c].dir /\ call'[c].at = call[c].at /\ call'[c].path = call[c].path
<1>1. call[c] \in Call /\ call' = [call EXCEPT ![c] = [call[c] EXCEPT !.pc = pc]]
  BY Underway DEF Inv, Goto, TypeOK
<1>2. call'[c] = [call[c] EXCEPT !.pc = pc] /\ \A d \in Calls \ {c} : call'[d] = call[d]
  BY <1>1 DEF Inv, TypeOK
<1> QED
  BY <1>1, <1>2 DEF Call

\* Steps that leave the file system alone.
LEMMA QuietClean ==
  ASSUME Inv, CleanInv, Alone, UNCHANGED fs, NEW c \in Calls,
         \A d \in Calls \ {c} : call'[d] = call[d],
         \/ ~Pending(c) /\ ~Pending(c)'
         \/ /\ Pending(c) /\ Pending(c)' /\ call'[c].made = call[c].made
            /\ Name(c)' = Name(c) /\ call'[c].dir = call[c].dir
  PROVE  CleanInv'
<1>1. UNCHANGED <<kind, entry, data>>
  BY DEF fs
<1>2. \A d \in Calls : Pending(d)' =>
        /\ Pending(d) /\ call'[d].made = call[d].made /\ Here(d)' = Here(d)
  BY <1>1 DEF Pending, Here, Name
<1>3. \A d \in Calls : Pending(d) => Pending(d)' /\ call'[d].made = call[d].made
  BY DEF Pending
<1>4. PendingStay /\ PartialStay
  BY <1>1, <1>2, <1>3 DEF PendingStay, PartialStay
<1> QED
  BY <1>4, StayKeepsClean DEF CleanInv

\* What is made anew is not what a call owns, and is not under its name.
LEMMA MakeSparesOwned ==
  ASSUME Inv, Owned, NEW i \in Inodes, NEW dir \in Inodes, NEW name \in Names,
         NEW what \in Kinds \ {"free"}, NEW content \in Contents, kind[dir] = "dir",
         Make(i, dir, name, what, content),
         NEW d \in Calls, Pending(d), call'[d] = call[d]
  PROVE  /\ call[d].made # i /\ Here(d)' = Here(d)
         /\ kind'[call[d].made] = kind[call[d].made] /\ data'[call[d].made] = data[call[d].made]
<1>1. call[d].made \in Inodes /\ kind[call[d].made] = "file" /\ Here(d) = call[d].made
  BY DEF Owned
<1>2. /\ kind[i] = "free" /\ entry[dir][name] = Null
      /\ \A j \in Inodes \ {i} : kind'[j] = kind[j] /\ data'[j] = data[j]
      /\ entry' = [entry EXCEPT ![dir][name] = i]
  BY MakeKeeps DEF Make
<1>3. call[d].dir \in Inodes /\ Name(d) \in Names
  BY Position DEF Pending
<1>4. ~(call[d].dir = dir /\ Name(d) = name)
  BY <1>1, <1>2, InodesAssumption DEF Here
<1>5. entry'[call[d].dir][Name(d)] = entry[call[d].dir][Name(d)]
  BY <1>2, <1>3, <1>4 DEF Inv, TypeOK
<1> QED
  BY <1>1, <1>2, <1>5 DEF Here, Name

LEMMA MakeDirectoryClean ==
  ASSUME Inv, CleanInv, Alone, NEW c \in Calls, MakeParent(c) \/ MakeFolder(c)
  PROVE  CleanInv'
<1>1. /\ call[c] # Idle /\ call[c].pc \in {"mkdir", "leaf"}
      /\ \E pc \in {"open", "created", "check"} : Goto(c, pc)
      /\ \/ \E i \in Inodes : Make(i, call[c].dir, Name(c), "dir", "none")
         \/ UNCHANGED fs
  BY DEF MakeParent, MakeFolder, At
<1>2. (\A d \in Calls \ {c} : call'[d] = call[d]) /\ ~Pending(c) /\ ~Pending(c)'
  BY <1>1, GotoStays DEF Pending
<1>3. CASE UNCHANGED fs
  BY <1>2, <1>3, QuietClean
<1>4. ASSUME NEW i \in Inodes, Make(i, call[c].dir, Name(c), "dir", "none")
      PROVE  CleanInv'
  <2>1. Owned /\ LeftForCause
    BY DEF CleanInv
  <2>2. call[c].dir \in Inodes /\ kind[call[c].dir] = "dir" /\ Name(c) \in Names
    BY <1>1, Position
  <2>3. kind'[i] = "dir" /\ \A j \in Inodes \ {i} : kind'[j] = kind[j] /\ data'[j] = data[j]
    BY <1>4, <2>2, MakeKeeps DEF Kinds, Contents
  <2>4. PendingStay
    <3> SUFFICES ASSUME NEW d \in Calls, Pending(d)'
                 PROVE  /\ Pending(d) /\ call'[d].made = call[d].made /\ Here(d)' = Here(d)
                        /\ kind'[call[d].made] = kind[call[d].made]
                        /\ data'[call[d].made] = data[call[d].made]
      BY DEF PendingStay
    <3>1. call'[d] = call[d] /\ Pending(d)
      BY <1>2 DEF Pending
    <3> QED
      BY <3>1, <1>4, <2>1, <2>2, MakeSparesOwned DEF Kinds, Contents
  <2>5. PartialStay
    BY <1>2, <2>3 DEF PartialStay, Pending
  <2> QED
    BY <2>1, <2>4, <2>5, StayKeepsClean
<1> QED
  BY <1>1, <1>3, <1>4

\* A file that is made is its call's.
LEMMA MakeFileClean ==
  ASSUME Inv, CleanInv, Alone, NEW c \in Calls, MakeFile(c)
  PROVE  CleanInv'
<1>1. call[c] # Idle /\ call[c].pc = "leaf" /\ ~Pending(c)
  BY DEF MakeFile, At, Pending
<1>2. CASE Goto(c, "refused") /\ UNCHANGED fs
  <2>1. (\A d \in Calls \ {c} : call'[d] = call[d]) /\ ~Pending(c)'
    BY <1>1, <1>2, GotoStays DEF Pending
  <2> QED
    BY <1>1, <1>2, <2>1, QuietClean
<1>3. ASSUME NEW i \in Inodes,
             Make(i, call[c].dir, Name(c), "file", "partial"),
             call' = [call EXCEPT ![c].pc = "fstat", ![c].made = i]
      PROVE  CleanInv'
  <2>1. Owned /\ LeftForCause
    BY DEF CleanInv
  <2>2. /\ call[c] \in Call /\ call[c].dir \in Inodes /\ kind[call[c].dir] = "dir"
        /\ Name(c) \in Names
    BY <1>1, Position
  <2>3. /\ kind[i] = "free" /\ kind'[i] = "file" /\ data'[i] = "partial"
        /\ \A j \in Inodes \ {i} : kind'[j] = kind[j] /\ data'[j] = data[j]
    BY <1>3, <2>2, MakeKeeps DEF Kinds, Contents
  <2>4. call'[c] = [call[c] EXCEPT !.pc = "fstat", !.made = i]
        /\ \A d \in Calls \ {c} : call'[d] = call[d]
    BY <1>3, <2>2 DEF Inv, TypeOK
  <2>5. /\ call'[c] # Idle /\ call'[c].pc = "fstat" /\ call'[c].made = i
        /\ call'[c].dir = call[c].dir /\ call'[c].at = call[c].at /\ call'[c].path = call[c].path
    BY <2>2, <2>4 DEF Call, Idle
  <2>6. Pending(c)' /\ Here(c)' = i
    <3>1. entry'[call[c].dir][Name(c)] = i
      BY <1>3, <2>2 DEF Make, Inv, TypeOK
    <3> QED
      BY <2>5, <3>1 DEF Pending, Here, Name
  <2>7. ASSUME NEW d \in Calls, Pending(d)', d # c
        PROVE  /\ Pending(d) /\ call'[d] = call[d] /\ call[d].made # i /\ Here(d)' = call[d].made
               /\ call[d].made \in Inodes
               /\ kind'[call[d].made] = "file" /\ data'[call[d].made] = "partial"
    <3>1. Pending(d) /\ call'[d] = call[d]
      BY <2>4, <2>7 DEF Pending
    <3>2. call[d].made \in Inodes /\ kind[call[d].made] = "file" /\ data[call[d].made] = "partial"
          /\ Here(d) = call[d].made
      BY <3>1, <2>1 DEF Owned
    <3>3. /\ call[d].made # i /\ Here(d)' = Here(d)
          /\ kind'[call[d].made] = kind[call[d].made] /\ data'[call[d].made] = data[call[d].made]
      BY <3>1, <1>3, <2>1, <2>2, MakeSparesOwned DEF Kinds, Contents
    <3> QED
      BY <3>1, <3>2, <3>3
  <2>8. Owned'
    <3>1. ASSUME NEW d \in Calls, NEW e \in Calls, Pending(d)', Pending(e)',
                 call'[d].made = call'[e].made
          PROVE  d = e
      BY <3>1, <2>1, <2>5, <2>7 DEF Owned
    <3> QED
      BY <3>1, <2>3, <2>5, <2>6, <2>7 DEF Owned
  <2>9. LeftForCause'
    <3> SUFFICES ASSUME NEW j \in Inodes, kind'[j] = "file", data'[j] = "partial"
                 PROVE  \E d \in Calls : Pending(d)' /\ call'[d].made = j
      BY DEF LeftForCause, Pending
    <3>1. CASE j = i
      BY <3>1, <2>5, <2>6
    <3>2. CASE j # i
      <4>1. PICK d \in Calls : Pending(d) /\ call[d].made = j
        BY <3>2, <2>1, <2>3 DEF LeftForCause, Pending
      <4>2. call'[d] = call[d]
        BY <4>1, <1>1, <2>4
      <4> QED
        BY <4>1, <4>2 DEF Pending
    <3> QED
      BY <3>1, <3>2
  <2> QED
    BY <2>8, <2>9 DEF CleanInv
<1> QED
  BY <1>2, <1>3 DEF MakeFile

\* What is written is whole.
LEMMA WriteClean ==
  ASSUME Inv, CleanInv, Alone, NEW c \in Calls, Write(c)
  PROVE  CleanInv'
<1> DEFINE i == call[c].made
<1>1. /\ call[c] # Idle /\ Pending(c) /\ Goto(c, "created")
      /\ data' = [data EXCEPT ![i] = "whole"] /\ UNCHANGED <<kind, entry>>
  BY DEF Write, At, Pending
<1>2. (\A d \in Calls \ {c} : call'[d] = call[d]) /\ ~Pending(c)'
  BY <1>1, GotoStays DEF Pending
<1>3. Owned /\ LeftForCause /\ i \in Inodes
  BY <1>1 DEF CleanInv, Owned
<1>4. data'[i] = "whole" /\ \A j \in Inodes \ {i} : data'[j] = data[j]
  BY <1>1, <1>3 DEF Inv, TypeOK
<1>5. PendingStay
  <2> SUFFICES ASSUME NEW d \in Calls, Pending(d)'
               PROVE  /\ Pending(d) /\ call'[d].made = call[d].made /\ Here(d)' = Here(d)
                      /\ kind'[call[d].made] = kind[call[d].made]
                      /\ data'[call[d].made] = data[call[d].made]
    BY DEF PendingStay
  <2>1. d # c /\ call'[d] = call[d] /\ Pending(d)
    BY <1>2 DEF Pending
  <2>2. call[d].made \in Inodes \ {i}
    BY <2>1, <1>1, <1>3 DEF Owned
  <2> QED
    BY <2>1, <2>2, <1>1, <1>4 DEF Here, Name
<1>6. PartialStay
  <2> SUFFICES ASSUME NEW j \in Inodes, kind'[j] = "file", data'[j] = "partial"
               PROVE  /\ kind[j] = "file" /\ data[j] = "partial"
                      /\ \A d \in Calls : Pending(d) /\ call[d].made = j =>
                           Pending(d)' /\ call'[d].made = j
    BY DEF PartialStay
  <2>1. j # i
    BY <1>4
  <2> QED
    BY <2>1, <1>1, <1>2, <1>4 DEF Pending
<1> QED
  BY <1>3, <1>5, <1>6, StayKeepsClean

\* A call goes on with its file, or gives it up: its file is as it was.
LEMMA OwnerClean ==
  ASSUME Inv, CleanInv, Alone, NEW c \in Calls, Pending(c),
         Identify(c) \/ WriteFails(c) \/ Stat(c) \/ Fault(c)
  PROVE  CleanInv'
<1>1. call[c] # Idle
  BY DEF Pending
<1>2. Here(c) = call[c].made
  BY <1>1 DEF CleanInv, Owned
<1>3. UNCHANGED fs
  <2>1. CASE Identify(c) \/ Stat(c) \/ Fault(c)
    BY <2>1 DEF Identify, Stat, Fault
  <2>2. CASE WriteFails(c)
    <3>1. call[c].dir \in Inodes /\ Name(c) \in Names
      BY <1>1, Position
    <3>2. ~(\A d \in Inodes, n \in Names : entry[d][n] # call[c].made)
      BY <3>1, <1>2 DEF Here
    <3> QED
      BY <2>2, <3>2 DEF WriteFails, fs
  <2> QED
    BY <2>1, <2>2
<1>4. PICK pc \in {"write", "stat", "unlink", "left", "leaked"} : Goto(c, pc)
  BY <1>2 DEF Identify, WriteFails, Stat, Fault, Pending
<1>5. /\ \A d \in Calls \ {c} : call'[d] = call[d]
      /\ call'[c].pc = pc /\ call'[c].made = call[c].made
      /\ call'[c].dir = call[c].dir /\ Name(c)' = Name(c)
  BY <1>1, <1>4, GotoStays DEF Name
<1>6. Pending(c)'
  <2>1. call'[c] # Idle
    BY <1>1, <1>4, Underway DEF Inv, Goto, TypeOK, Call, Idle
  <2> QED
    BY <1>5, <2>1 DEF Pending
<1> QED
  BY <1>1, <1>3, <1>5, <1>6, QuietClean

\* The clean-up removes the file of its call, and no other.
LEMMA UnlinkClean ==
  ASSUME Inv, CleanInv, Alone, NEW c \in Calls, Unlink(c)
  PROVE  CleanInv'
<1> DEFINE i == call[c].made
<1>1. call[c] # Idle /\ call[c].pc = "unlink" /\ Pending(c) /\ Goto(c, "fault")
  BY DEF Unlink, At, Pending
<1>2. (\A d \in Calls \ {c} : call'[d] = call[d]) /\ ~Pending(c)'
  BY <1>1, GotoStays DEF Pending
<1>3. /\ Owned /\ LeftForCause
      /\ i \in Inodes /\ Here(c) = i /\ kind[i] = "file"
  BY <1>1 DEF CleanInv, Owned
<1>4. call[c].dir \in Inodes /\ Name(c) \in Names
  BY <1>1, Position
<1>5. \A d \in Calls : ~(HasOpen(d) /\ call[d].made = i)
  <2> SUFFICES ASSUME NEW d \in Calls, HasOpen(d), call[d].made = i PROVE FALSE
    OBVIOUS
  <2>1. Pending(d)
    BY DEF HasOpen, Pending
  <2>2. d = c
    BY <2>1, <1>1, <1>3 DEF Owned
  <2> QED
    BY <2>2, <1>1 DEF HasOpen
<1>6. /\ entry' = [entry EXCEPT ![call[c].dir][Name(c)] = Null]
      /\ kind' = [kind EXCEPT ![i] = "free"] /\ data' = [data EXCEPT ![i] = "none"]
  <2>1. Free(call[c].dir, Name(c))
    BY <1>3, InodesAssumption DEF Unlink, IsDir
  <2>2. entry[call[c].dir][Name(c)] = i
    BY <1>3 DEF Here
  <2> QED
    BY <2>1, <2>2, <1>5 DEF Free
<1>7. /\ data'[i] = "none"
      /\ \A j \in Inodes \ {i} : kind'[j] = kind[j] /\ data'[j] = data[j]
  BY <1>3, <1>6 DEF Inv, TypeOK
<1>8. PendingStay
  <2> SUFFICES ASSUME NEW d \in Calls, Pending(d)'
               PROVE  /\ Pending(d) /\ call'[d].made = call[d].made /\ Here(d)' = Here(d)
                      /\ kind'[call[d].made] = kind[call[d].made]
                      /\ data'[call[d].made] = data[call[d].made]
    BY DEF PendingStay
  <2>1. d # c /\ call'[d] = call[d] /\ Pending(d)
    BY <1>2 DEF Pending
  <2>2. call[d].made \in Inodes \ {i} /\ Here(d) = call[d].made
    BY <2>1, <1>1, <1>3 DEF Owned
  <2>3. call[d].dir \in Inodes /\ Name(d) \in Names
    BY <2>1, Position DEF Pending
  <2>4. ~(call[d].dir = call[c].dir /\ Name(d) = Name(c))
    BY <2>2, <1>3 DEF Here
  <2>5. entry'[call[d].dir][Name(d)] = entry[call[d].dir][Name(d)]
    BY <2>3, <2>4, <1>4, <1>6 DEF Inv, TypeOK
  <2> QED
    BY <2>1, <2>2, <2>5, <1>7 DEF Here, Name
<1>9. PartialStay
  <2> SUFFICES ASSUME NEW j \in Inodes, kind'[j] = "file", data'[j] = "partial"
               PROVE  /\ kind[j] = "file" /\ data[j] = "partial"
                      /\ \A d \in Calls : Pending(d) /\ call[d].made = j =>
                           Pending(d)' /\ call'[d].made = j
    BY DEF PartialStay
  <2>1. j # i
    BY <1>7
  <2> QED
    BY <2>1, <1>2, <1>7 DEF Pending
<1> QED
  BY <1>3, <1>8, <1>9, StayKeepsClean

\* The other steps of a call, which has no file.
LEMMA LookClean ==
  ASSUME Inv, CleanInv, Alone, NEW c \in Calls, ~Pending(c),
         \/ \E path \in Paths, parents, folder \in BOOLEAN : Begin(c, path, parents, folder)
         \/ OpenDirectory(c) \/ CheckFolder(c) \/ Fault(c)
  PROVE  CleanInv'
<1>1. UNCHANGED fs
  BY DEF Begin, OpenDirectory, CheckFolder, Fault
<1>2. (\A d \in Calls \ {c} : call'[d] = call[d]) /\ ~Pending(c)'
  <2>1. CASE \E path \in Paths, parents, folder \in BOOLEAN : Begin(c, path, parents, folder)
    <3>1. PICK path \in Paths, parents \in BOOLEAN, folder \in BOOLEAN :
            call' = [call EXCEPT ![c] =
              [pc |-> "open", path |-> path, parents |-> parents, folder |-> folder,
               at |-> 0, dir |-> Top, made |-> Null]]
      BY <2>1 DEF Begin
    <3>2. call'[c].pc = "open" /\ \A d \in Calls \ {c} : call'[d] = call[d]
      BY <3>1 DEF Inv, TypeOK
    <3> QED
      BY <3>2 DEF Pending
  <2>2. CASE CheckFolder(c) \/ Fault(c)
    <3>1. call[c] # Idle /\ \E pc \in {"existed", "refused", "fault"} : Goto(c, pc)
      BY <2>2 DEF CheckFolder, Fault, At, Pending
    <3> QED
      BY <3>1, GotoStays DEF Pending
  <2>3. CASE OpenDirectory(c) /\ Goto(c, "refused")
    BY <2>3, GotoStays DEF OpenDirectory, At, Pending
  <2>4. CASE OpenDirectory(c) /\ ~Goto(c, "refused")
    <3> DEFINE pc == IF call[c].at + 1 = Len(call[c].path) THEN "leaf"
                     ELSE IF call[c].parents THEN "mkdir" ELSE "open"
    <3>1. call[c] # Idle /\ call' = [call EXCEPT ![c].dir = Opened(c), ![c].at = @ + 1, ![c].pc = pc]
      BY <2>4 DEF OpenDirectory, At
    <3>2. call[c] \in Call
      BY <3>1, Position
    <3>3. pc \in {"leaf", "mkdir", "open"}
      OBVIOUS
    <3> HIDE DEF pc
    <3>4. /\ call'[c] = [call[c] EXCEPT !.dir = Opened(c), !.at = call[c].at + 1, !.pc = pc]
          /\ \A d \in Calls \ {c} : call'[d] = call[d]
      BY <3>1, <3>2 DEF Inv, TypeOK
    <3>5. call'[c].pc = pc
      BY <3>2, <3>4 DEF Call
    <3> QED
      BY <3>3, <3>4, <3>5 DEF Pending
  <2> QED
    BY <2>1, <2>2, <2>3, <2>4
<1> QED
  BY <1>1, <1>2, QuietClean

\* A step of other processes ends the promise.
LEMMA ForeignClean ==
  ASSUME Inv, NEW dir \in Inodes, NEW name \in Names,
         ForeignMakes(dir, name) \/ ForeignRemoves(dir, name) \/ ForeignMoves(dir, name)
  PROVE  CleanInv'
<1>1. foreign' = foreign + 1 /\ foreign \in Nat
  BY ForeignAssumption DEF ForeignMakes, ForeignRemoves, ForeignMoves, Foreign, Inv, TypeOK
<1>2. ~Alone'
  BY <1>1 DEF Alone
<1> QED
  BY <1>2 DEF CleanInv, LeftForCause

LEMMA CleanStep ==
  ASSUME Inv, CleanInv, [Next]_vars
  PROVE  CleanInv'
<1>1. CASE UNCHANGED vars
  <2>1. UNCHANGED <<kind, entry, data, call, foreign>>
    BY <1>1 DEF vars
  <2> QED
    BY <2>1 DEF CleanInv, LeftForCause, Alone, Owned, Pending, Here, Name
<1>2. ASSUME NEW dir \in Inodes, NEW name \in Names,
             ForeignMakes(dir, name) \/ ForeignRemoves(dir, name) \/ ForeignMoves(dir, name)
      PROVE  CleanInv'
  BY <1>2, ForeignClean
<1>3. CASE ~Alone
  <2>1. foreign' = foreign \/ foreign' = foreign + 1
    <3>1. CASE \E dir \in Inodes, name \in Names :
                 ForeignMakes(dir, name) \/ ForeignRemoves(dir, name) \/ ForeignMoves(dir, name)
      BY <3>1 DEF ForeignMakes, ForeignRemoves, ForeignMoves, Foreign
    <3>2. CASE UNCHANGED vars
      BY <3>2 DEF vars
    <3>3. ASSUME NEW c \in Calls,
                 \/ \E path \in Paths, parents, folder \in BOOLEAN : Begin(c, path, parents, folder)
                 \/ MakeParent(c) \/ OpenDirectory(c) \/ MakeFolder(c) \/ CheckFolder(c)
                 \/ MakeFile(c) \/ Identify(c) \/ Write(c) \/ WriteFails(c) \/ Stat(c) \/ Unlink(c)
             \/ Fault(c)
          PROVE  foreign' = foreign
      BY <3>3 DEF Begin, MakeParent, OpenDirectory, MakeFolder, CheckFolder, MakeFile,
         Identify, Write, WriteFails, Stat, Unlink, Fault
    <3> QED
      BY <3>1, <3>2, <3>3 DEF Next
  <2>2. ~Alone'
    BY <1>3, <2>1, ForeignAssumption DEF Alone, Inv, TypeOK
  <2> QED
    BY <2>2 DEF CleanInv, LeftForCause
<1>4. ASSUME NEW c \in Calls, Alone,
             \/ \E path \in Paths, parents, folder \in BOOLEAN : Begin(c, path, parents, folder)
             \/ MakeParent(c) \/ OpenDirectory(c) \/ MakeFolder(c) \/ CheckFolder(c)
             \/ MakeFile(c) \/ Identify(c) \/ Write(c) \/ WriteFails(c) \/ Stat(c) \/ Unlink(c)
             \/ Fault(c)
      PROVE  CleanInv'
  <2>1. CASE Identify(c) \/ WriteFails(c) \/ Stat(c) \/ (Fault(c) /\ Pending(c))
    <3>1. Pending(c)
      BY <2>1 DEF Identify, WriteFails, Stat, At, Pending
    <3> QED
      BY <1>4, <2>1, <3>1, OwnerClean
  <2>2. CASE \/ \E path \in Paths, parents, folder \in BOOLEAN : Begin(c, path, parents, folder)
             \/ OpenDirectory(c) \/ CheckFolder(c) \/ (Fault(c) /\ ~Pending(c))
    <3>1. ~Pending(c)
      BY <2>2 DEF Begin, OpenDirectory, CheckFolder, At, Pending
    <3> QED
      BY <1>4, <2>2, <3>1, LookClean
  <2> QED
    BY <1>4, <2>1, <2>2, MakeDirectoryClean, MakeFileClean, WriteClean, UnlinkClean
<1> QED
  BY <1>1, <1>2, <1>3, <1>4 DEF Next

\* Unless another process has taken a step, a partial file has exactly one owner:
\* a call that is still to write or to remove it, or one whose clean-up or fstat has
\* failed as well.  A call whose write alone fails leaves nothing behind (_create).
THEOREM LeftoversHaveCause == Spec => []LeftForCause
<1>1. Init => CleanInv
  BY DEF Init, CleanInv, LeftForCause, Owned, Pending
<1>2. Inv /\ CleanInv /\ [Next]_vars => CleanInv'
  BY CleanStep
<1>3. CleanInv => LeftForCause
  BY DEF CleanInv
<1> QED
  BY <1>1, <1>2, <1>3, Invariance, PTL DEF Spec

-----------------------------------------------------------------------------
(* Among calls without a fault, a refusal has a cause.                       *)

\* What is under a name stays there and stays what it is, and nothing comes to be
\* beside the ESPHome folder
Grows ==
  /\ \A d \in Inodes, n \in Names : entry[d][n] # Null =>
       entry'[d][n] = entry[d][n] /\ kind'[entry[d][n]] = kind[entry[d][n]]
  /\ \A n \in Names : entry'[Top][n] = entry[Top][n]

\* Where a path leads it goes on to lead, to an inode of the same kind.
LEMMA LeadsStays ==
  ASSUME Inv, Grows, NEW path \in Seq(Names), NEW n \in 0 .. Len(path), NEW i \in Inodes,
         Leads(path, n, i)
  PROVE  Leads(path, n, i)' /\ kind'[i] = kind[i]
<1>1. PICK walk \in [0 .. n -> Inodes] :
        /\ walk[0] = entry[Top][Root] /\ walk[n] = i
        /\ \A k \in 1 .. n :
             IsDir(walk[k - 1]) /\ walk[k] = entry[walk[k - 1]][path[k]]
  BY DEF Leads
<1>2. n \in Nat /\ Len(path) \in Nat /\ \A k \in 1 .. n : path[k] \in Names
  OBVIOUS
<1>3. \A k \in 1 .. n : k - 1 \in 0 .. n /\ k \in 0 .. n
  BY <1>2
<1>4. \A k \in 0 .. n : walk[k] # Null /\ walk[k] \in Inodes
  BY <1>1, InodesAssumption
<1>5. walk[0] = entry'[Top][Root] /\ kind'[walk[0]] = kind[walk[0]]
  BY <1>1, <1>2, <1>4, InodesAssumption, NamesAssumption DEF Grows
<1>6. ASSUME NEW k \in 1 .. n
      PROVE  walk[k] = entry'[walk[k - 1]][path[k]] /\ kind'[walk[k]] = kind[walk[k]]
  <2>1. /\ walk[k] = entry[walk[k - 1]][path[k]] /\ walk[k] # Null
        /\ walk[k - 1] \in Inodes /\ path[k] \in Names
    BY <1>1, <1>2, <1>3, <1>4
  <2> QED
    BY <2>1 DEF Grows
<1>7. \A k \in 0 .. n : kind'[walk[k]] = kind[walk[k]]
  BY <1>2, <1>5, <1>6
<1>8. \A k \in 1 .. n : IsDir(walk[k - 1])'
  BY <1>1, <1>3, <1>7 DEF IsDir
<1>9. Leads(path, n, i)'
  BY <1>1, <1>5, <1>6, <1>8 DEF Leads
<1> QED
  BY <1>1, <1>2, <1>7, <1>9

\* One component on.
LEMMA LeadsOn ==
  ASSUME NEW path, NEW n \in Nat, NEW i \in Inodes, NEW j \in Inodes,
         Leads(path, n, i), IsDir(i), j = entry[i][path[n + 1]]
  PROVE  Leads(path, n + 1, j)
<1>1. PICK walk \in [0 .. n -> Inodes] :
        /\ walk[0] = entry[Top][Root] /\ walk[n] = i
        /\ \A k \in 1 .. n :
             IsDir(walk[k - 1]) /\ walk[k] = entry[walk[k - 1]][path[k]]
  BY DEF Leads
<1> DEFINE on == [k \in 0 .. n + 1 |-> IF k = n + 1 THEN j ELSE walk[k]]
<1>2. on \in [0 .. n + 1 -> Inodes] /\ on[0] = entry[Top][Root] /\ on[n + 1] = j
  BY <1>1
<1>3. ASSUME NEW k \in 1 .. n + 1
      PROVE  IsDir(on[k - 1]) /\ on[k] = entry[on[k - 1]][path[k]]
  <2>1. k - 1 \in 0 .. n /\ on[k - 1] = walk[k - 1]
    OBVIOUS
  <2>2. CASE k = n + 1
    BY <1>1, <2>1, <2>2
  <2>3. CASE k # n + 1
    BY <1>1, <2>1, <2>3
  <2> QED
    BY <2>2, <2>3
<1> HIDE DEF on
<1> QED
  BY <1>2, <1>3 DEF Leads

\* What obstructs a call that does nothing goes on to obstruct it.
LEMMA ObstructedStays ==
  ASSUME Inv, Grows, NEW c \in Calls, call[c] # Idle,
         call'[c].path = call[c].path, call'[c].folder = call[c].folder,
         Obstructed(c)
  PROVE  Obstructed(c)'
<1> PICK path : path = call[c].path
  OBVIOUS
<1>1. path \in Seq(Names) /\ Len(path) \in Nat \ {0}
  BY Position, PathsAssumption DEF Call
<1>2. CASE ~IsDir(entry[Top][Root])
  <2>1. ~IsDir(entry[Top][Root])'
    BY <1>2, InodesAssumption, NamesAssumption DEF Grows, IsDir
  <2> QED
    BY <2>1 DEF Obstructed
<1>3. ASSUME NEW n \in 1 .. Len(path) - 1, NEW i \in Inodes, Leads(path, n, i), ~IsDir(i)
      PROVE  Obstructed(c)'
  <2>1. n \in 0 .. Len(path)
    BY <1>1
  <2>2. Leads(path, n, i)' /\ ~IsDir(i)'
    BY <1>1, <1>3, <2>1, LeadsStays DEF IsDir
  <2> QED
    BY <2>2 DEF Obstructed
<1>4. ASSUME NEW i \in Inodes, Leads(path, Len(path), i), IsDir(i) => ~call[c].folder
      PROVE  Obstructed(c)'
  <2>1. Len(path) \in 0 .. Len(path)
    BY <1>1
  <2>2. Leads(path, Len(path), i)' /\ IsDir(i)' = IsDir(i)
    BY <1>1, <1>4, <2>1, LeadsStays DEF IsDir
  <2> QED
    BY <1>4, <2>2 DEF Obstructed
<1> QED
  BY <1>2, <1>3, <1>4 DEF Obstructed

\* What is there to be said of one call
Accounted(c) ==
  call[c] # Idle => Arrived(c) /\ (At(c, "refused") /\ call[c].parents => Obstructed(c))

\* A call that does nothing is accounted for still.
LEMMA AccountedStays ==
  ASSUME Inv, Grows, NEW c \in Calls, Accounted(c), call'[c] = call[c]
  PROVE  Accounted(c)'
<1> SUFFICES ASSUME call[c] # Idle
             PROVE  Accounted(c)'
  BY DEF Accounted
<1>1. PICK path : path = call[c].path
  OBVIOUS
<1>2. /\ path \in Seq(Names) /\ Len(path) \in Nat /\ call[c].at \in Nat
      /\ call[c].at <= Len(path) /\ call[c].dir \in Inodes /\ Name(c) \in Names
  BY <1>1, Position, PathsAssumption DEF Call, Inv, TypeOK
<1>3. ASSUME call[c].at > 0
      PROVE  Leads(call[c].path, call[c].at - 1, call[c].dir)'
  <2>1. PICK n, dir : n = call[c].at - 1 /\ dir = call[c].dir
    OBVIOUS
  <2>2. Leads(path, n, dir) /\ n \in 0 .. Len(path) /\ dir \in Inodes
    BY <1>1, <1>2, <1>3, <2>1 DEF Accounted, Arrived
  <2>3. Leads(path, n, dir)'
    BY <1>2, <2>2, LeadsStays
  <2> QED
    BY <1>1, <2>1, <2>3
<1>4. Here(c) # Null => Here(c)' # Null
  BY <1>2 DEF Grows, Here, Name
<1>5. Arrived(c)'
  BY <1>3, <1>4 DEF Accounted, Arrived
<1>6. At(c, "refused") /\ call[c].parents => Obstructed(c)'
  BY ObstructedStays DEF Accounted
<1> QED
  BY <1>5, <1>6 DEF Accounted, At

\* A step of one call keeps the invariant if it makes the tree grow and accounts
\* for the call.
LEMMA OneCallSteps ==
  ASSUME Inv, CauseInv, Alone, Faultless, Grows, NEW c \in Calls,
         \A d \in Calls \ {c} : call'[d] = call[d], Accounted(c)'
  PROVE  CauseInv'
<1>1. \A d \in Calls : Accounted(d)
  BY DEF CauseInv, RefusedForCause, Accounted, At
<1>2. \A d \in Calls : Accounted(d)'
  BY <1>1, AccountedStays
<1> QED
  BY <1>2 DEF CauseInv, RefusedForCause, Accounted, At

\* What is made in a folder, under a free name, is a growth.
LEMMA MakeGrows ==
  ASSUME Inv, NEW c \in Calls, call[c] # Idle, call[c].at > 0, NEW i \in Inodes,
         NEW what \in Kinds \ {"free"}, NEW content \in Contents,
         Make(i, call[c].dir, Name(c), what, content)
  PROVE  Grows /\ entry'[call[c].dir][Name(c)] = i
<1>1. /\ call[c].dir \in Inodes /\ call[c].dir # Top /\ kind[call[c].dir] = "dir"
      /\ Name(c) \in Names
  BY Position DEF Inv, StaysInside, Tree
<1>2. /\ kind[i] = "free" /\ entry[call[c].dir][Name(c)] = Null
      /\ \A j \in Inodes \ {i} : kind'[j] = kind[j]
      /\ entry' = [entry EXCEPT ![call[c].dir][Name(c)] = i]
  BY <1>1, MakeKeeps DEF Make
<1>3. \A d \in Inodes, n \in Names :
        entry'[d][n] = IF d = call[c].dir /\ n = Name(c) THEN i ELSE entry[d][n]
  BY <1>2 DEF Inv, TypeOK
<1>4. \A d \in Inodes, n \in Names : entry[d][n] # Null => entry[d][n] \in Inodes \ {i}
  BY <1>2 DEF Inv, TypeOK, Tree
<1> QED
  BY <1>1, <1>2, <1>3, <1>4, InodesAssumption DEF Grows

\* A call that goes on to another step keeps all it knows.
LEMMA GotoKnows ==
  ASSUME Inv, NEW c \in Calls, call[c] # Idle, NEW pc \in Steps, Goto(c, pc)
  PROVE  /\ \A d \in Calls \ {c} : call'[d] = call[d]
         /\ call'[c] # Idle /\ call'[c].pc = pc
         /\ call'[c].dir = call[c].dir /\ call'[c].at = call[c].at /\ call'[c].path = call[c].path
         /\ call'[c].parents = call[c].parents /\ call'[c].folder = call[c].folder
<1>1. call[c] \in Call /\ call' = [call EXCEPT ![c] = [call[c] EXCEPT !.pc = pc]]
  BY Underway DEF Inv, Goto, TypeOK
<1>2. call'[c] = [call[c] EXCEPT !.pc = pc] /\ \A d \in Calls \ {c} : call'[d] = call[d]
  BY <1>1 DEF Inv, TypeOK
<1> QED
  BY <1>1, <1>2 DEF Call, Idle, Steps, Results

\* A call that stays in its directory has arrived there as before.
LEMMA StandsThere ==
  ASSUME Inv, Grows, NEW c \in Calls, call[c] # Idle, Accounted(c), call[c].at > 0,
         call'[c].dir = call[c].dir, call'[c].at = call[c].at, call'[c].path = call[c].path
  PROVE  Leads(call[c].path, call[c].at - 1, call[c].dir)'
<1>1. PICK path, n, dir : path = call[c].path /\ n = call[c].at - 1 /\ dir = call[c].dir
  OBVIOUS
<1>2. /\ path \in Seq(Names) /\ n \in 0 .. Len(path) /\ dir \in Inodes
      /\ Leads(path, n, dir)
  BY <1>1, Position, PathsAssumption DEF Call, Inv, TypeOK, Accounted, Arrived
<1>3. Leads(path, n, dir)'
  BY <1>2, LeadsStays
<1> QED
  BY <1>1, <1>3

\* Nothing is promised of what follows a fault.
LEMMA FaultCause ==
  ASSUME Inv, NEW c \in Calls, call[c] # Idle,
         NEW pc \in {"fault", "left", "leaked"}, Goto(c, pc)
  PROVE  CauseInv'
<1>1. call'[c] # Idle /\ call'[c].pc = pc
  BY GotoKnows DEF Steps, Results
<1> QED
  BY <1>1 DEF CauseInv, RefusedForCause, Faultless

LEMMA BeginCause ==
  ASSUME Inv, CauseInv, Alone, Faultless, NEW c \in Calls,
         NEW path \in Paths, NEW parents \in BOOLEAN, NEW folder \in BOOLEAN,
         Begin(c, path, parents, folder)
  PROVE  CauseInv'
<1>1. Grows
  BY DEF Begin, fs, Grows
<1>2. /\ \A d \in Calls \ {c} : call'[d] = call[d]
      /\ call'[c].pc = "open" /\ call'[c].at = 0
  BY DEF Begin, Inv, TypeOK
<1>3. Accounted(c)'
  BY <1>2 DEF Accounted, Arrived, At
<1> QED
  BY <1>1, <1>2, <1>3, OneCallSteps

\* A parent is there once it has been made, by this call or another.
LEMMA MakeParentCause ==
  ASSUME Inv, CauseInv, Alone, Faultless, NEW c \in Calls, MakeParent(c)
  PROVE  CauseInv'
<1>1. call[c] # Idle /\ call[c].pc = "mkdir" /\ Goto(c, "open")
  BY DEF MakeParent, At
<1>2. Accounted(c) /\ call[c].at > 0
  BY <1>1 DEF CauseInv, RefusedForCause, Accounted, Arrived, At
<1>3. /\ \A d \in Calls \ {c} : call'[d] = call[d]
      /\ call'[c] # Idle /\ call'[c].pc = "open"
      /\ call'[c].dir = call[c].dir /\ call'[c].at = call[c].at /\ call'[c].path = call[c].path
  BY <1>1, GotoKnows DEF Steps
<1>4. /\ call[c].dir \in Inodes /\ Name(c) \in Names
      /\ Here(c)' = entry'[call[c].dir][Name(c)]
  BY <1>1, <1>3, Position DEF Here, Name
<1>5. Grows /\ Here(c)' # Null
  <2>1. CASE Here(c) # Null /\ UNCHANGED fs
    BY <2>1, <1>4 DEF Grows, fs, Here
  <2>2. ASSUME NEW i \in Inodes, Make(i, call[c].dir, Name(c), "dir", "none")
        PROVE  Grows /\ Here(c)' # Null
    BY <2>2, <1>1, <1>2, <1>4, MakeGrows, InodesAssumption DEF Kinds, Contents
  <2> QED
    BY <2>1, <2>2 DEF MakeParent
<1>6. Leads(call[c].path, call[c].at - 1, call[c].dir)'
  BY <1>1, <1>2, <1>3, <1>5, StandsThere
<1>7. Accounted(c)'
  BY <1>3, <1>5, <1>6 DEF Accounted, Arrived, At
<1> QED
  BY <1>3, <1>5, <1>7, OneCallSteps

\* A walk goes on by one component, or meets something that is no folder.
LEMMA OpenDirectoryCause ==
  ASSUME Inv, CauseInv, Alone, Faultless, NEW c \in Calls, OpenDirectory(c)
  PROVE  CauseInv'
<1>1. call[c] # Idle /\ call[c].pc = "open" /\ UNCHANGED <<kind, entry>>
  BY DEF OpenDirectory, At, fs
<1>2. Accounted(c) /\ call[c] \in Call /\ call[c].at \in Nat
  BY <1>1, Position DEF CauseInv, RefusedForCause, Accounted, At
<1>3. Grows
  BY <1>1 DEF Grows
<1>4. call[c].at < Len(call[c].path) /\ Len(call[c].path) \in Nat
  BY <1>1, Position DEF Inv, Walking
<1>5. Here(c) \in Inodes => Leads(call[c].path, call[c].at, Here(c))
  <2> SUFFICES ASSUME Here(c) \in Inodes
               PROVE  Leads(call[c].path, call[c].at, Here(c))
    OBVIOUS
  <2>1. CASE call[c].at = 0
    <3>1. Here(c) = entry[Top][Root]
      BY <1>1, <2>1 DEF Here, Name, Inv, Walking
    <3>2. PICK path, i : path = call[c].path /\ i = Here(c)
      OBVIOUS
    <3> DEFINE walk == [k \in 0 .. 0 |-> i]
    <3>3. walk \in [0 .. 0 -> Inodes] /\ walk[0] = entry[Top][Root] /\ walk[0] = i
      BY <3>1, <3>2
    <3>4. \A k \in 1 .. 0 :
            IsDir(walk[k - 1]) /\ walk[k] = entry[walk[k - 1]][path[k]]
      OBVIOUS
    <3> HIDE DEF walk
    <3>5. Leads(path, 0, i)
      BY <3>3, <3>4 DEF Leads
    <3> QED
      BY <2>1, <3>2, <3>5
  <2>2. CASE call[c].at > 0
    <3>1. PICK path, n, dir : path = call[c].path /\ n = call[c].at - 1 /\ dir = call[c].dir
      OBVIOUS
    <3>2. Leads(path, n, dir) /\ n \in Nat /\ n + 1 = call[c].at
      BY <1>1, <1>2, <2>2, <3>1 DEF Accounted, Arrived
    <3>3. dir \in Inodes /\ IsDir(dir)
      BY <1>1, <3>1, Position, InodesAssumption DEF IsDir
    <3>4. Here(c) = entry[dir][path[n + 1]]
      BY <2>2, <3>1, <3>2 DEF Here, Name
    <3>5. Leads(path, n + 1, Here(c))
      BY <3>2, <3>3, <3>4, LeadsOn
    <3> QED
      BY <3>1, <3>2, <3>5
  <2> QED
    BY <1>2, <2>1, <2>2
<1>6. Here(c) \in Inodes \cup {Null}
  BY <1>1, Position
<1>7. CASE ~IsDir(Here(c)) /\ Goto(c, "refused")
  <2>1. /\ \A d \in Calls \ {c} : call'[d] = call[d]
        /\ call'[c] # Idle /\ call'[c].pc = "refused"
        /\ call'[c].dir = call[c].dir /\ call'[c].at = call[c].at
        /\ call'[c].path = call[c].path /\ call'[c].parents = call[c].parents
        /\ call'[c].folder = call[c].folder
    BY <1>1, <1>7, GotoKnows DEF Steps, Results
  <2>2. call[c].at > 0 => Leads(call[c].path, call[c].at - 1, call[c].dir)'
    BY <1>1, <1>2, <1>3, <2>1, StandsThere
  <2>3. ASSUME call[c].parents
        PROVE  Obstructed(c)
    <3>1. CASE call[c].at = 0
      <4>1. Here(c) = entry[Top][Root]
        BY <1>1, <3>1 DEF Here, Name, Inv, Walking
      <4> QED
        BY <1>7, <4>1 DEF Obstructed
    <3>2. CASE call[c].at > 0
      <4>1. Here(c) \in Inodes
        BY <1>1, <1>2, <1>6, <2>3, <3>2 DEF Accounted, Arrived
      <4>2. call[c].at \in 1 .. Len(call[c].path) - 1
        BY <1>2, <1>4, <3>2
      <4> QED
        BY <1>5, <1>7, <4>1, <4>2 DEF Obstructed
    <3> QED
      BY <1>2, <3>1, <3>2
  <2>4. call[c].parents => Obstructed(c)'
    BY <1>1, <1>3, <2>1, <2>3, ObstructedStays
  <2>5. Accounted(c)'
    BY <2>1, <2>2, <2>4 DEF Accounted, Arrived, At
  <2> QED
    BY <1>3, <2>1, <2>5, OneCallSteps
<1> DEFINE pc == IF call[c].at + 1 = Len(call[c].path) THEN "leaf"
                 ELSE IF call[c].parents THEN "mkdir" ELSE "open"
<1>8. CASE /\ IsDir(Here(c))
           /\ call' = [call EXCEPT ![c].dir = Here(c), ![c].at = @ + 1, ![c].pc = pc]
  <2>1. /\ pc = "leaf" => call[c].at + 1 = Len(call[c].path)
        /\ pc \in {"leaf", "mkdir", "open"}
        /\ pc = "open" => ~call[c].parents
    OBVIOUS
  <2> HIDE DEF pc
  <2>2. /\ call'[c] = [call[c] EXCEPT !.dir = Here(c), !.at = call[c].at + 1, !.pc = pc]
        /\ \A d \in Calls \ {c} : call'[d] = call[d]
    BY <1>2, <1>8 DEF Inv, TypeOK
  <2>3. PICK path, n, i : path = call[c].path /\ n = call[c].at /\ i = Here(c)
    OBVIOUS
  <2>4. /\ call'[c].pc = pc /\ call'[c].at = n + 1 /\ call'[c].dir = i
        /\ call'[c].path = path /\ call'[c].parents = call[c].parents
    BY <1>2, <2>2, <2>3 DEF Call
  <2>5. Leads(path, n, i)'
    <3>1. Leads(path, n, i)
      BY <1>5, <1>6, <1>8, <2>3 DEF IsDir
    <3> QED
      BY <1>1, <3>1 DEF Leads, IsDir
  <2>6. (call'[c].at - 1) = n /\ n + 1 > 0
    BY <1>2, <2>3, <2>4
  <2>7. Leads(call[c].path, call[c].at - 1, call[c].dir)'
    BY <2>4, <2>5, <2>6
  <2>8. Arrived(c)'
    BY <2>1, <2>3, <2>4, <2>6, <2>7 DEF Arrived
  <2>9. Accounted(c)'
    BY <2>1, <2>4, <2>8 DEF Accounted, At
  <2> QED
    BY <1>3, <2>2, <2>9, OneCallSteps
<1> QED
  BY <1>7, <1>8 DEF OpenDirectory, Opened

\* A call at its leaf finds something there, or makes what it is to make.
LEMMA LeafCause ==
  ASSUME Inv, CauseInv, Alone, Faultless, NEW c \in Calls, MakeFolder(c) \/ MakeFile(c)
  PROVE  CauseInv'
<1>1. call[c] # Idle /\ call[c].pc = "leaf"
  BY DEF MakeFolder, MakeFile, At
<1>2. /\ Accounted(c) /\ call[c] \in Call
      /\ call[c].at = Len(call[c].path) /\ Len(call[c].path) \in Nat \ {0}
      /\ Leads(call[c].path, call[c].at - 1, call[c].dir)
      /\ call[c].dir \in Inodes /\ kind[call[c].dir] = "dir" /\ Name(c) \in Names
      /\ Here(c) \in Inodes \cup {Null}
  BY <1>1, Position DEF CauseInv, RefusedForCause, Accounted, Arrived, At
<1>3. CASE Here(c) # Null /\ UNCHANGED fs /\ \E pc \in {"check", "refused"} :
             Goto(c, pc) /\ (pc = "refused" => ~call[c].folder)
  <2>1. PICK pc \in {"check", "refused"} : Goto(c, pc) /\ (pc = "refused" => ~call[c].folder)
    BY <1>3
  <2>2. UNCHANGED <<kind, entry>> /\ Grows
    BY <1>3 DEF fs, Grows
  <2>3. /\ \A d \in Calls \ {c} : call'[d] = call[d]
        /\ call'[c] # Idle /\ call'[c].pc = pc
        /\ call'[c].dir = call[c].dir /\ call'[c].at = call[c].at
        /\ call'[c].path = call[c].path /\ call'[c].parents = call[c].parents
        /\ call'[c].folder = call[c].folder
    BY <1>1, <2>1, GotoKnows DEF Steps, Results
  <2>4. Leads(call[c].path, call[c].at - 1, call[c].dir)'
    BY <1>1, <1>2, <2>2, <2>3, StandsThere
  <2>5. Here(c)' # Null
    BY <1>3, <2>2, <2>3 DEF Here, Name
  <2>6. pc = "refused" => Obstructed(c)
    <3> SUFFICES ASSUME ~call[c].folder
                 PROVE  Obstructed(c)
      BY <2>1
    <3>1. PICK path, n, dir : path = call[c].path /\ n = call[c].at - 1 /\ dir = call[c].dir
      OBVIOUS
    <3>2. /\ n \in Nat /\ n + 1 = Len(path) /\ IsDir(dir) /\ dir \in Inodes
          /\ Leads(path, n, dir) /\ Here(c) = entry[dir][path[n + 1]]
      BY <1>2, <3>1, InodesAssumption DEF IsDir, Here, Name
    <3>3. Leads(path, Len(path), Here(c)) /\ Here(c) \in Inodes
      BY <1>2, <1>3, <3>2, LeadsOn
    <3> QED
      BY <3>1, <3>3 DEF Obstructed
  <2>7. pc = "refused" => Obstructed(c)'
    BY <1>1, <2>2, <2>3, <2>6, ObstructedStays
  <2>8. Accounted(c)'
    BY <1>2, <2>3, <2>4, <2>5, <2>7 DEF Accounted, Arrived, At
  <2> QED
    BY <2>2, <2>3, <2>8, OneCallSteps
<1>4. ASSUME NEW i \in Inodes, NEW what \in {"dir", "file"}, NEW content \in {"none", "partial"},
             Make(i, call[c].dir, Name(c), what, content),
             call'[c].pc \in {"created", "fstat"},
             call'[c].dir = call[c].dir, call'[c].at = call[c].at,
             call'[c].path = call[c].path,
             \A d \in Calls \ {c} : call'[d] = call[d]
      PROVE  CauseInv'
  <2>1. call[c].at > 0 /\ what \in Kinds \ {"free"} /\ content \in Contents
    BY <1>2 DEF Kinds, Contents
  <2>2. Grows
    BY <1>1, <1>4, <2>1, MakeGrows
  <2>3. Leads(call[c].path, call[c].at - 1, call[c].dir)'
    BY <1>1, <1>2, <1>4, <2>1, <2>2, StandsThere
  <2>4. Accounted(c)'
    BY <1>4, <2>3 DEF Accounted, Arrived, At
  <2> QED
    BY <1>4, <2>2, <2>4, OneCallSteps
<1>5. CASE MakeFolder(c)
  <2>1. CASE Here(c) # Null /\ Goto(c, "check") /\ UNCHANGED fs
    BY <1>3, <2>1
  <2>2. ASSUME NEW i \in Inodes, Make(i, call[c].dir, Name(c), "dir", "none"),
               Goto(c, "created")
        PROVE  CauseInv'
    BY <1>1, <1>4, <2>2, GotoKnows DEF Steps, Results
  <2> QED
    BY <1>5, <2>1, <2>2 DEF MakeFolder
<1>6. CASE MakeFile(c)
  <2>1. CASE Here(c) # Null /\ Goto(c, "refused") /\ UNCHANGED fs
    BY <1>3, <1>6, <2>1 DEF MakeFile
  <2>2. ASSUME NEW i \in Inodes, Make(i, call[c].dir, Name(c), "file", "partial"),
               call' = [call EXCEPT ![c].pc = "fstat", ![c].made = i]
        PROVE  CauseInv'
    <3>1. /\ call'[c] = [call[c] EXCEPT !.pc = "fstat", !.made = i]
          /\ \A d \in Calls \ {c} : call'[d] = call[d]
      BY <1>2, <2>2 DEF Inv, TypeOK
    <3>2. /\ call'[c].pc = "fstat" /\ call'[c].dir = call[c].dir
          /\ call'[c].at = call[c].at /\ call'[c].path = call[c].path
      BY <1>2, <3>1 DEF Call
    <3> QED
      BY <1>4, <2>2, <3>1, <3>2
  <2> QED
    BY <1>6, <2>1, <2>2 DEF MakeFile
<1> QED
  BY <1>5, <1>6

\* A leaf that was there is looked at.
LEMMA CheckFolderCause ==
  ASSUME Inv, CauseInv, Alone, Faultless, NEW c \in Calls, CheckFolder(c)
  PROVE  CauseInv'
<1>1. call[c] # Idle /\ call[c].pc = "check" /\ UNCHANGED <<kind, entry>> /\ Grows
  BY DEF CheckFolder, At, fs, Grows
<1>2. /\ Accounted(c) /\ call[c].at = Len(call[c].path) /\ Len(call[c].path) \in Nat \ {0}
      /\ Leads(call[c].path, call[c].at - 1, call[c].dir)
      /\ call[c].dir \in Inodes /\ kind[call[c].dir] = "dir"
      /\ Here(c) \in Inodes
  BY <1>1, Position DEF CauseInv, RefusedForCause, Accounted, Arrived, At
<1>3. PICK pc \in {"existed", "refused"} :
        Goto(c, pc) /\ (pc = "refused" => ~IsDir(Here(c)))
  BY DEF CheckFolder
<1>4. /\ \A d \in Calls \ {c} : call'[d] = call[d]
      /\ call'[c] # Idle /\ call'[c].pc = pc
      /\ call'[c].dir = call[c].dir /\ call'[c].at = call[c].at
      /\ call'[c].path = call[c].path /\ call'[c].parents = call[c].parents
      /\ call'[c].folder = call[c].folder
  BY <1>1, <1>3, GotoKnows DEF Steps, Results
<1>5. Leads(call[c].path, call[c].at - 1, call[c].dir)'
  BY <1>1, <1>2, <1>4, StandsThere
<1>6. pc = "refused" => Obstructed(c)
  <2>1. PICK path, n, dir : path = call[c].path /\ n = call[c].at - 1 /\ dir = call[c].dir
    OBVIOUS
  <2>2. /\ n \in Nat /\ n + 1 = Len(path) /\ IsDir(dir) /\ dir \in Inodes
        /\ Leads(path, n, dir) /\ Here(c) = entry[dir][path[n + 1]]
    BY <1>2, <2>1, InodesAssumption DEF IsDir, Here, Name
  <2>3. Leads(path, Len(path), Here(c))
    BY <1>2, <2>2, LeadsOn
  <2> QED
    BY <1>2, <1>3, <2>1, <2>3 DEF Obstructed
<1>7. pc = "refused" => Obstructed(c)'
  BY <1>1, <1>4, <1>6, ObstructedStays
<1>8. Accounted(c)'
  BY <1>4, <1>5, <1>7 DEF Accounted, Arrived, At
<1> QED
  BY <1>1, <1>4, <1>8, OneCallSteps

\* A file that is written, or left to be removed, obstructs as before.
LEMMA FileCause ==
  ASSUME Inv, CauseInv, Alone, Faultless, NEW c \in Calls,
         Identify(c) \/ Write(c) \/ WriteFails(c) \/ Stat(c)
  PROVE  CauseInv'
<1>1. call[c] # Idle
  BY DEF Identify, Write, WriteFails, Stat, At
<1>2. PICK pc \in {"write", "created", "stat", "unlink", "fault", "left"} : Goto(c, pc)
  BY DEF Identify, Write, WriteFails, Stat
<1>3. CASE pc \in {"fault", "left"}
  BY <1>1, <1>2, <1>3, FaultCause
<1>4. CASE pc \notin {"fault", "left"}
  <2>1. /\ \A d \in Calls \ {c} : call'[d] = call[d]
        /\ call'[c] # Idle /\ call'[c].pc = pc
        /\ call'[c].dir = call[c].dir /\ call'[c].at = call[c].at /\ call'[c].path = call[c].path
    BY <1>1, <1>2, GotoKnows DEF Steps, Results
  <2>2. Grows
    <3>1. CASE Identify(c) \/ Write(c) \/ Stat(c)
      BY <3>1 DEF Identify, Write, Stat, fs, Grows
    <3>2. CASE WriteFails(c)
      <4>1. /\ entry' = entry
            /\ \A d \in Inodes, n \in Names : entry[d][n] # Null =>
                 kind'[entry[d][n]] = kind[entry[d][n]]
        BY <3>2 DEF WriteFails, Inv, TypeOK
      <4> QED
        BY <4>1 DEF Grows
    <3> QED
      BY <3>1, <3>2
  <2>3. Accounted(c)
    BY <1>1 DEF CauseInv, RefusedForCause, Accounted, At
  <2>4. call[c].at > 0 => Leads(call[c].path, call[c].at - 1, call[c].dir)'
    BY <1>1, <2>1, <2>2, <2>3, StandsThere
  <2>5. Accounted(c)'
    BY <1>4, <2>1, <2>4 DEF Accounted, Arrived, At
  <2> QED
    BY <2>1, <2>2, <2>5, OneCallSteps
<1> QED
  BY <1>3, <1>4

LEMMA CauseStep ==
  ASSUME Inv, CauseInv, [Next]_vars
  PROVE  CauseInv'
<1>1. CASE UNCHANGED vars
  <2>1. UNCHANGED <<kind, entry, call, foreign>>
    BY <1>1 DEF vars
  <2>2. Grows
    BY <2>1 DEF Grows
  <2>3. (Alone' <=> Alone) /\ (Faultless' <=> Faultless)
    BY <2>1 DEF Alone, Faultless
  <2>4. ASSUME Alone, Faultless
        PROVE  \A d \in Calls : Accounted(d)'
    <3>1. \A d \in Calls : Accounted(d) /\ call'[d] = call[d]
      BY <2>1, <2>4 DEF CauseInv, RefusedForCause, Accounted, At
    <3> QED
      BY <2>2, <3>1, AccountedStays
  <2> QED
    BY <2>3, <2>4 DEF CauseInv, RefusedForCause, Accounted, At
<1>2. ASSUME NEW dir \in Inodes, NEW name \in Names,
             ForeignMakes(dir, name) \/ ForeignRemoves(dir, name) \/ ForeignMoves(dir, name)
      PROVE  CauseInv'
  <2>1. foreign' = foreign + 1 /\ foreign \in Nat
    BY <1>2, ForeignAssumption
       DEF ForeignMakes, ForeignRemoves, ForeignMoves, Foreign, Inv, TypeOK
  <2>2. ~Alone'
    BY <2>1 DEF Alone
  <2> QED
    BY <2>2 DEF CauseInv, RefusedForCause
<1>3. ASSUME NEW c \in Calls,
             \/ \E path \in Paths, parents, folder \in BOOLEAN : Begin(c, path, parents, folder)
             \/ MakeParent(c) \/ OpenDirectory(c) \/ MakeFolder(c) \/ CheckFolder(c)
             \/ MakeFile(c) \/ Identify(c) \/ Write(c) \/ WriteFails(c) \/ Stat(c) \/ Unlink(c)
             \/ Fault(c)
      PROVE  CauseInv'
  <2>1. CASE ~Alone
    <3>1. foreign' = foreign
      BY <1>3 DEF Begin, MakeParent, OpenDirectory, MakeFolder, CheckFolder, MakeFile,
         Identify, Write, WriteFails, Stat, Unlink, Fault
    <3> QED
      BY <2>1, <3>1 DEF CauseInv, RefusedForCause, Alone
  <2>2. CASE Alone /\ Faultless
    <3>1. CASE Unlink(c) \/ Fault(c)
      <4>1. call[c] # Idle /\ \E pc \in {"fault", "left", "leaked"} : Goto(c, pc)
        BY <3>1 DEF Unlink, Fault, At
      <4> QED
        BY <4>1, FaultCause
    <3>2. CASE \E path \in Paths, parents, folder \in BOOLEAN : Begin(c, path, parents, folder)
      BY <2>2, <3>2, BeginCause
    <3> QED
      BY <1>3, <2>2, <3>1, <3>2, MakeParentCause, OpenDirectoryCause, LeafCause,
         CheckFolderCause, FileCause
  <2>3. CASE ~Faultless
    <3>1. PICK d \in Calls : call[d] # Idle /\ call[d].pc \in {"fault", "left", "leaked"}
      BY <2>3 DEF Faultless
    <3>2. d # c
      BY <1>3, <3>1 DEF Begin, MakeParent, OpenDirectory, MakeFolder, CheckFolder, MakeFile,
         Identify, Write, WriteFails, Stat, Unlink, Fault, At
    <3>3. call'[d] = call[d]
      BY <1>3, <3>2 DEF Begin, MakeParent, OpenDirectory, MakeFolder, CheckFolder, MakeFile,
         Identify, Write, WriteFails, Stat, Unlink, Fault, Goto, Inv, TypeOK
    <3>4. ~Faultless'
      BY <3>1, <3>3 DEF Faultless
    <3> QED
      BY <3>4 DEF CauseInv, RefusedForCause
  <2> QED
    BY <2>1, <2>2, <2>3
<1> QED
  BY <1>1, <1>2, <1>3 DEF Next

\* A call that may make parents is refused only for what is there, as long as no
\* call meets a fault and no other process acts: calls that make the same parents
\* at once do not refuse one another (_create).
THEOREM RefusalsHaveCause == Spec => []RefusedForCause
<1>1. Init => CauseInv
  BY DEF Init, CauseInv, RefusedForCause, At
<1>2. Inv /\ CauseInv /\ [Next]_vars => CauseInv'
  BY CauseStep
<1>3. CauseInv => RefusedForCause
  BY DEF CauseInv
<1> QED
  BY <1>1, <1>2, <1>3, Invariance, PTL DEF Spec
=============================================================================
