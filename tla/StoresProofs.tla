---------------------------- MODULE StoresProofs ----------------------------
(***************************************************************************)
(* What Carl keeps and what it believes of it, for every value of the      *)
(* constants: the artifact store, the candidate workspace of a verification *)
(* and the context package.  They share no state; each part has its own    *)
(* inductive invariant.                                                    *)
(***************************************************************************)
EXTENDS ArtifactStore, CandidateWorkspace, ContextAssembly, FiniteSetTheorems,
        WellFoundedInduction, TLAPS

-----------------------------------------------------------------------------
(***************************************************************************)
(* What the artifact store promises, for any set of contents and files,    *)
(* any quota and any number of crashes.                                     *)
(*                                                                          *)
(* None of the promises is inductive.  That an opening never finds the      *)
(* store corrupt needs that a canonical name, in the directory or only on   *)
(* the medium, always names a whole, sealed and synced file (Genuine), and  *)
(* this needs what a publication has and has not done at each of its        *)
(* stages (Unpublished, Prepared).  That what was acknowledged survives a   *)
(* power loss needs its name in both images (AckedThere); that it can be    *)
(* read needs that no temporary shares its file (AckedAlone), which needs   *)
(* that a recovered directory holds none (Recovered).  The quota needs more *)
(* than the account: a removal that was not synced can come back with a     *)
(* power loss, and the scan accepts more objects than the quota; only the   *)
(* removal that follows brings the store below it, because a name that      *)
(* comes back was never acknowledged (StaleUnnamed), and the named objects  *)
(* alone fit the quota at all times (the last part of Account).             *)
(***************************************************************************)

\* The values that the state takes.
EntryNames == Objects \cup Inodes
Stages     == {"created", "written", "sealed", "prepared", "linked", "durable", "removed"}
Unlinking  == {"created", "written", "sealed", "prepared"}
Phases     == {"down", "creating", "recover", "recover_sync", "retain", "retain_sync", "serving"}
FileStates == [bytes : Objects \cup {Torn}, sealed : BOOLEAN, kept : {"nothing", "bytes", "all"}]
PutRecords == [content : Objects, inode : Inodes, at : Stages]

\* The canonical entries of a directory whose content is among r.
NamedIn(d, r) == {e \in CanonicalIn(d) : e[1] \in r}

\* A directory image: finitely many entries, one file per name, and a temporary named after its
\* own file.
Directory(d) ==
    /\ d \subseteq EntryNames \X Inodes /\ IsFiniteSet(d)
    /\ OneInodePerName(d)
    /\ \A n, i \in Inodes : <<n, i>> \in d => n = i

\* The types of the state; no opening ended in "corrupt".
Typed ==
    /\ Directory(dir) /\ Directory(disk)
    /\ file \in [Inodes -> FileStates]
    /\ usage \in Nat /\ phase \in Phases /\ lost \in BOOLEAN
    /\ put \in PutRecords \cup {Nil}
    /\ acked \in SUBSET Objects /\ referenced \in SUBSET Objects

\* A canonical name, in the directory or on the medium, names a file that holds exactly that
\* content, is sealed, and has reached the medium with both.
Genuine ==
    \A c \in Objects, i \in Inodes :
        <<c, i>> \in dir \cup disk =>
            file[i].bytes = c /\ file[i].sealed = TRUE /\ file[i].kept = "all"

\* Before its link a publication's file has no name but its temporary one, its content no name
\* at all, and the quota room for it.
Unpublished ==
    put # Nil /\ put.at \in Unlinking =>
        /\ \A n \in EntryNames : <<n, put.inode>> \in dir \cup disk => n = put.inode
        /\ \A i \in Inodes : <<put.content, i>> \notin dir
        /\ usage < MaxObjects

\* What the file of a publication holds at each stage, and that its temporary name stays until
\* the stage that removes it.
Prepared ==
    put # Nil =>
        /\ phase = "serving"
        /\ put.at # "removed" => <<put.inode, put.inode>> \in dir
        /\ put.at \in {"written", "sealed", "prepared"} => file[put.inode].bytes = put.content
        /\ put.at \in {"sealed", "prepared"} => file[put.inode].sealed = TRUE
        /\ put.at = "prepared" => file[put.inode].kept = "all"

\* A committed record names a content that put returned; a store that is down remembers the
\* committed ones only.
Records ==
    /\ referenced \subseteq acked
    /\ phase # "serving" => acked = referenced

\* A removal that has not reached the medium is of a content nobody was given.
StaleUnnamed ==
    \A c \in Objects, i \in Inodes : <<c, i>> \in disk \ dir => c \notin acked

\* An acknowledged content has one name that the directory and the medium agree on.
AckedThere ==
    ~lost => \A c \in acked : \E i \in Inodes : <<c, i>> \in dir /\ <<c, i>> \in disk

\* While the store serves, no temporary shares the file of an acknowledged content.
AckedAlone ==
    ~lost /\ phase = "serving" =>
        \A c \in acked, i \in Inodes : <<c, i>> \in dir => <<i, i>> \notin dir

\* Once recovery has ended the directory holds no temporary until the store serves.
Recovered == phase \in {"retain", "retain_sync"} => \A i \in Inodes : <<i, i>> \notin dir

\* The account is the number of canonical names from the scan on, it is within the quota while
\* the store serves, and the named objects alone are within it always.
Account ==
    /\ phase \in {"retain", "retain_sync", "serving"} => usage = Cardinality(CanonicalIn(dir))
    /\ phase = "serving" => usage <= MaxObjects
    /\ Cardinality(NamedIn(dir, referenced)) <= MaxObjects

\* The inductive invariant.
StoreInv ==
    /\ Typed /\ Genuine /\ Unpublished /\ Prepared /\ Records /\ StaleUnnamed
    /\ AckedThere /\ AckedAlone /\ Recovered /\ Account

------------------------------------------------------------------------------
\* The size of sets of one and of two elements.
LEMMA PairCardinality ==
    ASSUME NEW a, NEW b, a # b
    PROVE  Cardinality({a}) = 1 /\ Cardinality({a, b}) = 2
<1>1. IsFiniteSet({a}) /\ Cardinality({a}) = 1
  BY FS_Singleton
<1>2. Cardinality({a} \cup {b}) = Cardinality({a}) + 1
  BY <1>1, FS_AddElement
<1>3. {a} \cup {b} = {a, b}
  OBVIOUS
<1> QED BY <1>1, <1>2, <1>3

\* A file has its content's name, its temporary name, or both.
LEMMA LinksAre ==
    ASSUME StoreConstants, Typed, Genuine, NEW i \in Inodes
    PROVE  /\ \A c \in Objects : <<c, i>> \in dir =>
                  /\ <<i, i>> \notin dir => Links(i) = {c}
                  /\ <<i, i>> \in dir => Links(i) = {c, i}
                  /\ c # i /\ c = file[i].bytes /\ file[i].sealed = TRUE
           /\ (\A c \in Objects : <<c, i>> \notin dir) /\ <<i, i>> \in dir => Links(i) = {i}
<1>1. \A n \in Inodes : <<n, i>> \in dir => n = i
  BY DEF Typed, Directory
<1>2. \A c \in Objects : <<c, i>> \in dir => c = file[i].bytes /\ file[i].sealed = TRUE
  BY DEF Genuine
<1>3. \A c \in Objects : c # i
  BY DEF StoreConstants
<1> QED BY <1>1, <1>2, <1>3 DEF Links

\* The single-link check passes on a canonical name exactly when no temporary is left beside it.
LEMMA SealedIffAlone ==
    ASSUME StoreConstants, Typed, Genuine, NEW i \in Inodes, NEW c \in Objects, <<c, i>> \in dir
    PROVE  SealedFile(i) <=> <<i, i>> \notin dir
<1>1. c # i /\ file[i].sealed = TRUE
  BY LinksAre
<1>2. Cardinality({c}) = 1 /\ Cardinality({c, i}) = 2
  BY <1>1, PairCardinality
<1>3. CASE <<i, i>> \in dir
  <2>1. Cardinality(Links(i)) = 2
    BY <1>2, <1>3, LinksAre
  <2> QED BY <1>3, <2>1 DEF SealedFile
<1>4. CASE <<i, i>> \notin dir
  <2>1. Cardinality(Links(i)) = 1
    BY <1>2, <1>4, LinksAre
  <2> QED BY <1>1, <1>4, <2>1 DEF SealedFile
<1> QED BY <1>3, <1>4

\* Every temporary that can be met is one of the two kinds that recovery accepts.
LEMMA TemporaryRecoverable ==
    ASSUME StoreConstants, Typed, Genuine, NEW i \in Inodes, <<i, i>> \in dir
    PROVE  Recoverable(i)
<1>1. CASE \E c \in Objects : <<c, i>> \in dir
  <2> PICK c \in Objects : <<c, i>> \in dir
    BY <1>1
  <2>1. c # i /\ c = file[i].bytes /\ file[i].sealed = TRUE /\ Links(i) = {c, i}
    BY LinksAre
  <2>2. Cardinality({c, i}) = 2
    BY <2>1, PairCardinality
  <2> QED BY <2>1, <2>2 DEF Recoverable, RecoverablePublication
<1>2. CASE \A c \in Objects : <<c, i>> \notin dir
  <2>1. Links(i) = {i}
    BY <1>2, LinksAre
  <2>2. Cardinality({i}) = 1
    BY FS_Singleton
  <2> QED BY <2>1, <2>2 DEF Recoverable, PrivateTemporary
<1> QED BY <1>1, <1>2

\* The canonical entries are finitely many, and the named ones no more than those.
LEMMA DirectoryCount ==
    ASSUME NEW d, Directory(d), NEW r
    PROVE  /\ IsFiniteSet(CanonicalIn(d)) /\ Cardinality(CanonicalIn(d)) \in Nat
           /\ Cardinality(NamedIn(d, r)) \in Nat
           /\ Cardinality(NamedIn(d, r)) <= Cardinality(CanonicalIn(d))
<1>1. IsFiniteSet(CanonicalIn(d))
  <2>1. CanonicalIn(d) \subseteq d /\ IsFiniteSet(d)
    BY DEF CanonicalIn, Directory
  <2> QED BY <2>1, FS_Subset
<1>2. NamedIn(d, r) \subseteq CanonicalIn(d)
  BY DEF NamedIn
<1>3. IsFiniteSet(NamedIn(d, r)) /\ Cardinality(NamedIn(d, r)) <= Cardinality(CanonicalIn(d))
  BY <1>1, <1>2, FS_Subset
<1> QED BY <1>1, <1>3, FS_CardinalityType

\* A smaller set of named entries has no more elements.
LEMMA FewerNamed ==
    ASSUME NEW d, Directory(d), NEW r, NEW f, NEW q, NamedIn(f, q) \subseteq NamedIn(d, r)
    PROVE  /\ Cardinality(NamedIn(f, q)) \in Nat
           /\ Cardinality(NamedIn(f, q)) <= Cardinality(NamedIn(d, r))
<1>1. IsFiniteSet(NamedIn(d, r))
  <2>1. NamedIn(d, r) \subseteq d /\ IsFiniteSet(d)
    BY DEF NamedIn, CanonicalIn, Directory
  <2> QED BY <2>1, FS_Subset
<1>2. IsFiniteSet(NamedIn(f, q)) /\ Cardinality(NamedIn(f, q)) <= Cardinality(NamedIn(d, r))
  BY <1>1, FS_Subset
<1> QED BY <1>2, FS_CardinalityType

\* Part of a directory image is one.
LEMMA DirectoryLess ==
    ASSUME NEW d, Directory(d), NEW f, f \subseteq d
    PROVE  Directory(f)
<1>1. IsFiniteSet(f)
  BY FS_Subset DEF Directory
<1> QED BY <1>1 DEF Directory, OneInodePerName

\* Removing a temporary name leaves the canonical entries as they are.
LEMMA DirectoryUnlinked ==
    ASSUME StoreConstants, NEW d, Directory(d), NEW i \in Inodes
    PROVE  /\ Directory(d \ {<<i, i>>})
           /\ CanonicalIn(d \ {<<i, i>>}) = CanonicalIn(d)
           /\ \A r : NamedIn(d \ {<<i, i>>}, r) = NamedIn(d, r)
           /\ \A c \in Objects, j \in Inodes : <<c, j>> \in d \ {<<i, i>>} <=> <<c, j>> \in d
<1>1. Directory(d \ {<<i, i>>})
  BY DirectoryLess
<1>2. i \notin Objects
  BY DEF StoreConstants
<1>3. CanonicalIn(d \ {<<i, i>>}) = CanonicalIn(d)
  BY <1>2 DEF CanonicalIn
<1>4. \A r : NamedIn(d \ {<<i, i>>}, r) = NamedIn(d, r)
  BY <1>3 DEF NamedIn
<1> QED BY <1>1, <1>2, <1>3, <1>4

\* So does creating one for a free file.
LEMMA DirectoryCreated ==
    ASSUME StoreConstants, NEW d, Directory(d), NEW i \in Inodes,
           \A e \in d : e[2] # i
    PROVE  /\ Directory(d \cup {<<i, i>>})
           /\ CanonicalIn(d \cup {<<i, i>>}) = CanonicalIn(d)
           /\ \A r : NamedIn(d \cup {<<i, i>>}, r) = NamedIn(d, r)
           /\ \A c \in Objects, j \in Inodes : <<c, j>> \in d \cup {<<i, i>>} <=> <<c, j>> \in d
<1>1. IsFiniteSet(d \cup {<<i, i>>})
  BY FS_AddElement DEF Directory
<1>2. i \notin Objects
  BY DEF StoreConstants
<1>3. CanonicalIn(d \cup {<<i, i>>}) = CanonicalIn(d)
  BY <1>2 DEF CanonicalIn
<1>4. \A r : NamedIn(d \cup {<<i, i>>}, r) = NamedIn(d, r)
  BY <1>3 DEF NamedIn
<1>5. \A e \in d : e = <<e[1], e[2]>> /\ e[1] \in EntryNames /\ e[2] \in Inodes
  BY DEF Directory
<1>6. \A e \in d : e[1] # i
  BY <1>5, <1>2 DEF Directory, EntryNames
<1>7. OneInodePerName(d \cup {<<i, i>>})
  BY <1>6 DEF OneInodePerName, Directory
<1>8. d \cup {<<i, i>>} \subseteq EntryNames \X Inodes
  BY DEF Directory, EntryNames
<1>9. \A n, j \in Inodes : <<n, j>> \in d \cup {<<i, i>>} => n = j
  BY DEF Directory
<1> QED BY <1>1, <1>2, <1>3, <1>4, <1>7, <1>8, <1>9 DEF Directory

\* Linking a name that was not there adds one canonical entry.
LEMMA DirectoryLinked ==
    ASSUME StoreConstants, NEW d, Directory(d), NEW c \in Objects, NEW i \in Inodes,
           \A j \in Inodes : <<c, j>> \notin d
    PROVE  /\ Directory(d \cup {<<c, i>>})
           /\ Cardinality(CanonicalIn(d \cup {<<c, i>>})) = Cardinality(CanonicalIn(d)) + 1
<1>1. IsFiniteSet(d \cup {<<c, i>>})
  BY FS_AddElement DEF Directory
<1>2. c \notin Inodes
  BY DEF StoreConstants
<1>3. \A e \in d : e = <<e[1], e[2]>> /\ e[1] \in EntryNames /\ e[2] \in Inodes
  BY DEF Directory
<1>4. \A e \in d : e[1] # c
  BY <1>3
<1>5. OneInodePerName(d \cup {<<c, i>>})
  BY <1>4 DEF OneInodePerName, Directory
<1>6. d \cup {<<c, i>>} \subseteq EntryNames \X Inodes
  BY DEF Directory, EntryNames
<1>7. \A n, j \in Inodes : <<n, j>> \in d \cup {<<c, i>>} => n = j
  BY <1>2 DEF Directory
<1>8. CanonicalIn(d \cup {<<c, i>>}) = CanonicalIn(d) \cup {<<c, i>>}
  BY DEF CanonicalIn
<1>9. <<c, i>> \notin CanonicalIn(d)
  BY DEF CanonicalIn
<1>10. Cardinality(CanonicalIn(d \cup {<<c, i>>})) = Cardinality(CanonicalIn(d)) + 1
  BY <1>8, <1>9, DirectoryCount, FS_AddElement
<1> QED BY <1>1, <1>5, <1>6, <1>7, <1>10 DEF Directory

------------------------------------------------------------------------------
\* The invariant holds of an empty store.
LEMMA InitStore ==
    ASSUME StoreConstants, Init
    PROVE  StoreInv
<1> USE DEF Init
<1>1. IsFiniteSet({}) /\ Cardinality({}) = 0
  BY FS_EmptySet
<1>2. Directory({})
  BY <1>1 DEF Directory, OneInodePerName
<1>3. Typed
  BY <1>2 DEF Typed, Phases, FileStates, Blank
<1>4. CanonicalIn({}) = {} /\ NamedIn({}, {}) = {}
  BY DEF CanonicalIn, NamedIn
<1>5. Account
  BY <1>1, <1>4 DEF Account, StoreConstants
<1>6. /\ Genuine /\ Unpublished /\ Prepared /\ Records /\ StaleUnnamed
      /\ AckedThere /\ AckedAlone /\ Recovered
  BY DEF Genuine, Unpublished, Prepared, Records, StaleUnnamed, AckedThere, AckedAlone, Recovered
<1> QED BY <1>3, <1>5, <1>6 DEF StoreInv

\* Creating or opening the tree keeps the invariant.
LEMMA OpeningKeeps ==
    ASSUME StoreConstants, StoreInv, CreateTree \/ SyncTree \/ OpenTree
    PROVE  StoreInv'
<1>1. /\ UNCHANGED <<dir, disk, file, usage, put, acked, referenced, lost>>
      /\ phase \in {"down", "creating"} /\ phase' \in {"down", "creating", "recover"}
  BY DEF CreateTree, SyncTree, OpenTree
<1>2. put = Nil
  BY <1>1 DEF StoreInv, Prepared
<1>3. Typed'
  BY <1>1 DEF StoreInv, Typed, Phases
<1>4. /\ Genuine' /\ Unpublished' /\ Prepared' /\ Records' /\ StaleUnnamed'
      /\ AckedThere' /\ AckedAlone' /\ Recovered'
  BY <1>1, <1>2 DEF StoreInv, Genuine, Unpublished, Prepared, Records, StaleUnnamed, AckedThere,
     AckedAlone, Recovered
<1>5. Account'
  BY <1>1 DEF StoreInv, Account
<1> QED BY <1>3, <1>4, <1>5 DEF StoreInv

\* Recovery never meets a temporary it has to call corrupt.
LEMMA RecoverTemporaryKeeps ==
    ASSUME StoreConstants, StoreInv, NEW i \in Inodes, RecoverTemporary(i)
    PROVE  StoreInv'
<1>1. Recoverable(i)
  BY TemporaryRecoverable DEF StoreInv, RecoverTemporary, Temporary
<1>2. /\ dir' = dir \ {<<i, i>>} /\ phase = "recover" /\ phase' = "recover_sync"
      /\ UNCHANGED <<disk, file, usage, put, acked, referenced, lost>>
  BY <1>1 DEF RecoverTemporary, Unlinked
<1>3. put = Nil
  BY <1>2 DEF StoreInv, Prepared
<1>4. /\ Directory(dir') /\ \A r : NamedIn(dir', r) = NamedIn(dir, r)
      /\ \A c \in Objects, j \in Inodes : <<c, j>> \in dir' <=> <<c, j>> \in dir
  BY <1>2, DirectoryUnlinked DEF StoreInv, Typed
<1>5. Typed'
  BY <1>2, <1>4 DEF StoreInv, Typed, Phases
<1>6. /\ Genuine' /\ Unpublished' /\ Prepared' /\ Records' /\ StaleUnnamed' /\ AckedAlone'
      /\ Recovered'
  BY <1>2, <1>3, <1>4 DEF StoreInv, Genuine, Unpublished, Prepared, Records, StaleUnnamed,
     AckedAlone, Recovered
<1>7. AckedThere'
  BY <1>2, <1>4 DEF StoreInv, AckedThere, Typed
<1>8. Account'
  BY <1>2, <1>4 DEF StoreInv, Account
<1> QED BY <1>5, <1>6, <1>7, <1>8 DEF StoreInv

\* Every canonical name passes the checks of the inspection, or still has its temporary.
LEMMA CanonicalSealed ==
    ASSUME StoreConstants, StoreInv
    PROVE  \A e \in CanonicalIn(dir) : SealedFile(e[2]) \/ Temporary(e[2])
<1> TAKE e \in CanonicalIn(dir)
<1>1. e = <<e[1], e[2]>> /\ e[1] \in Objects /\ e[2] \in Inodes /\ e \in dir
  BY DEF CanonicalIn, StoreInv, Typed, Directory
<1>2. SealedFile(e[2]) <=> <<e[2], e[2]>> \notin dir
  BY <1>1, SealedIffAlone DEF StoreInv
<1> QED BY <1>2 DEF Temporary

\* The sync after each recovered temporary, and the inspection that follows it.
LEMMA RecoverSyncKeeps ==
    ASSUME StoreConstants, StoreInv, RecoverSync
    PROVE  StoreInv'
<1>1. /\ disk' = dir \/ disk' = disk
      /\ phase = "recover_sync" /\ phase' \in {"recover", "down"}
      /\ UNCHANGED <<dir, file, usage, put, acked, referenced, lost>>
  BY CanonicalSealed DEF RecoverSync, Sync
<1>2. put = Nil
  BY <1>1 DEF StoreInv, Prepared
<1>3. Typed'
  BY <1>1 DEF StoreInv, Typed, Phases
<1>4. /\ Genuine' /\ Unpublished' /\ Prepared' /\ Records' /\ StaleUnnamed' /\ AckedAlone'
      /\ Recovered'
  BY <1>1, <1>2 DEF StoreInv, Genuine, Unpublished, Prepared, Records, StaleUnnamed,
     AckedAlone, Recovered
<1>5. AckedThere'
  BY <1>1 DEF StoreInv, AckedThere
<1>6. Account'
  BY <1>1 DEF StoreInv, Account
<1> QED BY <1>3, <1>4, <1>5, <1>6 DEF StoreInv

\* The scan counts exactly the canonical names, because no other name is left.
LEMMA ScanUsageKeeps ==
    ASSUME StoreConstants, StoreInv, ScanUsage
    PROVE  StoreInv'
<1>1. /\ phase = "recover" /\ \A i \in Inodes : <<i, i>> \notin dir
      /\ UNCHANGED <<dir, disk, file, put, acked, referenced, lost>>
  BY DEF ScanUsage, Temporary
<1>2. \A e \in CanonicalIn(dir) : SealedFile(e[2])
  <2> TAKE e \in CanonicalIn(dir)
  <2>1. e[2] \in Inodes
    BY DEF CanonicalIn, StoreInv, Typed, Directory
  <2> QED BY <2>1, <1>1, CanonicalSealed DEF Temporary
<1>3. phase' = "retain" /\ usage' = Cardinality(dir)
  BY <1>2 DEF ScanUsage
<1>4. put = Nil
  BY <1>1 DEF StoreInv, Prepared
<1>5. CanonicalIn(dir) = dir
  <2>1. \A e \in dir : e = <<e[1], e[2]>> /\ e[1] \in EntryNames /\ e[2] \in Inodes
    BY DEF StoreInv, Typed, Directory
  <2>2. \A e \in dir : e[1] \in Objects
    BY <1>1, <2>1 DEF StoreInv, Typed, Directory, EntryNames
  <2> QED BY <2>2 DEF CanonicalIn
<1>6. Cardinality(dir) \in Nat
  BY <1>5, DirectoryCount DEF StoreInv, Typed
<1>7. Typed'
  BY <1>1, <1>3, <1>6 DEF StoreInv, Typed, Phases
<1>8. /\ Genuine' /\ Unpublished' /\ Prepared' /\ Records' /\ StaleUnnamed' /\ AckedAlone'
      /\ AckedThere' /\ Recovered'
  BY <1>1, <1>3, <1>4 DEF StoreInv, Genuine, Unpublished, Prepared, Records, StaleUnnamed,
     AckedAlone, AckedThere, Recovered
<1>9. Account'
  BY <1>1, <1>3, <1>5 DEF StoreInv, Account
<1> QED BY <1>7, <1>8, <1>9 DEF StoreInv

\* A removal takes a content no record names, and takes it off the account.
LEMMA RetainRemoveKeeps ==
    ASSUME StoreConstants, StoreInv, NEW e \in dir, RetainRemove(e)
    PROVE  StoreInv'
<1>1. /\ phase \in {"retain", "retain_sync"} /\ phase' = "retain_sync"
      /\ dir' = dir \ {e} /\ usage' = usage - 1
      /\ e \in CanonicalIn(dir) /\ e[1] \notin referenced
      /\ UNCHANGED <<disk, file, put, acked, referenced, lost>>
  BY DEF RetainRemove, Unreferenced
<1>2. e = <<e[1], e[2]>> /\ e[1] \in Objects /\ e[2] \in Inodes
  BY <1>1 DEF CanonicalIn, StoreInv, Typed, Directory
<1>3. put = Nil /\ acked = referenced
  BY <1>1 DEF StoreInv, Prepared, Records
<1>4. Directory(dir')
  BY <1>1, DirectoryLess DEF StoreInv, Typed
<1>5. CanonicalIn(dir') = CanonicalIn(dir) \ {e}
  BY <1>1 DEF CanonicalIn
<1>6. /\ Cardinality(CanonicalIn(dir')) = Cardinality(CanonicalIn(dir)) - 1
      /\ Cardinality(CanonicalIn(dir')) \in Nat
  BY <1>1, <1>4, <1>5, DirectoryCount, FS_RemoveElement DEF StoreInv, Typed
<1>7. usage' = Cardinality(CanonicalIn(dir'))
  BY <1>1, <1>6 DEF StoreInv, Account
<1>8. NamedIn(dir', referenced') = NamedIn(dir, referenced)
  BY <1>1, <1>5 DEF NamedIn
<1>9. Typed'
  BY <1>1, <1>4, <1>6, <1>7 DEF StoreInv, Typed, Phases
<1>10. /\ Genuine' /\ Unpublished' /\ Prepared' /\ Records' /\ AckedAlone' /\ Recovered'
  BY <1>1, <1>3 DEF StoreInv, Genuine, Unpublished, Prepared, Records, AckedAlone, Recovered
<1>11. StaleUnnamed'
  BY <1>1, <1>2, <1>3 DEF StoreInv, StaleUnnamed
<1>12. AckedThere'
  BY <1>1, <1>2, <1>3 DEF StoreInv, AckedThere
<1>13. Account'
  BY <1>1, <1>7, <1>8 DEF StoreInv, Account
<1> QED BY <1>9, <1>10, <1>11, <1>12, <1>13 DEF StoreInv

\* When collection ends the named objects are all there is, so the quota holds again.
LEMMA RetainDoneKeeps ==
    ASSUME StoreConstants, StoreInv, RetainDone
    PROVE  StoreInv'
<1>1. /\ phase \in {"retain", "retain_sync"} /\ phase' \in {"serving", "down"}
      /\ phase' = "serving" => Unreferenced = {}
      /\ disk' = dir \/ disk' = disk
      /\ UNCHANGED <<dir, file, usage, put, acked, referenced, lost>>
  BY DEF RetainDone, Sync
<1>2. put = Nil /\ acked = referenced /\ \A i \in Inodes : <<i, i>> \notin dir
  BY <1>1 DEF StoreInv, Prepared, Records, Recovered
<1>3. Typed'
  BY <1>1 DEF StoreInv, Typed, Phases
<1>4. /\ Genuine' /\ Unpublished' /\ Prepared' /\ Records' /\ StaleUnnamed' /\ AckedAlone'
      /\ Recovered'
  BY <1>1, <1>2 DEF StoreInv, Genuine, Unpublished, Prepared, Records, StaleUnnamed,
     AckedAlone, Recovered
<1>5. AckedThere'
  BY <1>1 DEF StoreInv, AckedThere
<1>6. Account'
  <2>1. phase' = "serving" => CanonicalIn(dir) = NamedIn(dir, referenced)
    BY <1>1 DEF Unreferenced, NamedIn
  <2> QED BY <1>1, <2>1 DEF StoreInv, Account
<1> QED BY <1>3, <1>4, <1>5, <1>6 DEF StoreInv

------------------------------------------------------------------------------
\* An object that is already there is synced before it is acknowledged.
LEMMA PutExistingKeeps ==
    ASSUME StoreConstants, StoreInv, NEW c \in Objects, PutExisting(c)
    PROVE  StoreInv'
<1>1. /\ phase = "serving" /\ put = Nil /\ ReadVerified(c)
      /\ disk' = dir /\ acked' = acked \cup {c}
      /\ UNCHANGED <<dir, file, usage, phase, put, referenced, lost>>
  BY DEF PutExisting, Sync
<1>2. PICK i \in Inodes : <<c, i>> \in dir /\ SealedFile(i)
  BY <1>1 DEF ReadVerified
<1>3. <<i, i>> \notin dir
  BY <1>2, SealedIffAlone DEF StoreInv
<1>4. Typed'
  BY <1>1 DEF StoreInv, Typed
<1>5. /\ Genuine' /\ Unpublished' /\ Prepared' /\ Records' /\ StaleUnnamed' /\ Recovered'
  BY <1>1 DEF StoreInv, Genuine, Unpublished, Prepared, Records, StaleUnnamed, Recovered
<1>6. AckedThere'
  BY <1>1, <1>2 DEF StoreInv, AckedThere
<1>7. AckedAlone'
  <2>1. \A j \in Inodes : <<c, j>> \in dir => j = i
    <3>1. \A j \in Inodes : <<c, j>> \in dir => <<c, j>> = <<c, i>>
      BY <1>2 DEF StoreInv, Typed, Directory, OneInodePerName
    <3> QED BY <3>1
  <2> QED BY <1>1, <1>3, <2>1 DEF StoreInv, AckedAlone
<1>8. Account'
  BY <1>1 DEF StoreInv, Account
<1> QED BY <1>4, <1>5, <1>6, <1>7, <1>8 DEF StoreInv

\* A publication starts on a file that has no name, in the directory or on the medium.
LEMMA PutCreateKeeps ==
    ASSUME StoreConstants, StoreInv, NEW c \in Objects, NEW i \in Inodes, PutCreate(c, i)
    PROVE  StoreInv'
<1>1. /\ phase = "serving" /\ put = Nil /\ usage + 1 <= MaxObjects
      /\ \A j \in Inodes : <<c, j>> \notin dir
      /\ \A e \in dir \cup disk : e[2] # i
      /\ dir' = dir \cup {<<i, i>>}
      /\ file' = [file EXCEPT ![i] = Blank]
      /\ put' = [content |-> c, inode |-> i, at |-> "created"]
      /\ UNCHANGED <<disk, usage, phase, acked, referenced, lost>>
  BY DEF PutCreate, Exists, EnsureCanAdd, Free
<1>2. /\ Directory(dir') /\ CanonicalIn(dir') = CanonicalIn(dir)
      /\ \A r : NamedIn(dir', r) = NamedIn(dir, r)
      /\ \A d \in Objects, j \in Inodes : <<d, j>> \in dir' <=> <<d, j>> \in dir
  BY <1>1, DirectoryCreated DEF StoreInv, Typed
<1>3. \A n : <<n, i>> \notin dir \cup disk
  <2>1. \A n : <<n, i>> \in dir \cup disk => <<n, i>>[2] # i
    BY <1>1
  <2> QED BY <2>1
<1>4. put'.content = c /\ put'.inode = i /\ put'.at = "created"
  BY <1>1
<1>5. Typed'
  <2>1. file' \in [Inodes -> FileStates]
    BY <1>1 DEF StoreInv, Typed, FileStates, Blank
  <2>2. put' \in PutRecords
    BY <1>1 DEF PutRecords, Stages
  <2> QED BY <1>1, <1>2, <2>1, <2>2 DEF StoreInv, Typed
<1>6. Genuine'
  <2>1. \A j \in Inodes : j # i => file'[j] = file[j]
    BY <1>1 DEF StoreInv, Typed
  <2> QED BY <1>1, <1>2, <1>3, <2>1 DEF StoreInv, Genuine
<1>7. Unpublished'
  <2>1. \A n : <<n, i>> \in dir' \cup disk' => n = i
    BY <1>1, <1>3
  <2>2. \A j \in Inodes : <<c, j>> \notin dir'
    BY <1>1, <1>2
  <2>3. usage' < MaxObjects
    BY <1>1 DEF StoreInv, Typed, StoreConstants
  <2> QED BY <1>4, <2>1, <2>2, <2>3 DEF Unpublished
<1>8. Prepared'
  BY <1>1, <1>4 DEF Prepared
<1>9. Records' /\ StaleUnnamed' /\ Recovered'
  BY <1>1, <1>2 DEF StoreInv, Records, StaleUnnamed, Recovered
<1>10. AckedThere'
  BY <1>1, <1>2 DEF StoreInv, AckedThere
<1>11. AckedAlone'
  <2>1. \A j \in Inodes, d \in Objects : <<d, j>> \in dir => j # i
    BY <1>3
  <2>2. \A j \in Inodes : j # i /\ <<j, j>> \notin dir => <<j, j>> \notin dir'
    BY <1>1
  <2> QED BY <1>1, <1>2, <2>1, <2>2 DEF StoreInv, AckedAlone, Typed
<1>12. Account'
  BY <1>1, <1>2 DEF StoreInv, Account
<1> QED BY <1>5, <1>6, <1>7, <1>8, <1>9, <1>10, <1>11, <1>12 DEF StoreInv

\* The publication that holds the mutex is a record, and the store serves.
LEMMA PutParts ==
    ASSUME StoreInv, put # Nil
    PROVE  /\ put = [content |-> put.content, inode |-> put.inode, at |-> put.at]
           /\ put.content \in Objects /\ put.inode \in Inodes /\ put.at \in Stages
           /\ \A s \in Stages : /\ [put EXCEPT !.at = s].content = put.content
                                /\ [put EXCEPT !.at = s].inode = put.inode
                                /\ [put EXCEPT !.at = s].at = s
                                /\ [put EXCEPT !.at = s] \in PutRecords
           /\ phase = "serving"
<1>1. put \in PutRecords
  BY DEF StoreInv, Typed
<1>2. phase = "serving"
  BY DEF StoreInv, Prepared
<1> QED BY <1>1, <1>2 DEF PutRecords

\* Writing, sealing and syncing touch a file that no canonical name reaches.
LEMMA PrepareKeeps ==
    ASSUME StoreConstants, StoreInv, Prepare
    PROVE  StoreInv'
<1>1. /\ put # Nil /\ put.at \in {"created", "written", "sealed"}
      /\ UNCHANGED <<dir, disk, usage, phase, acked, referenced, lost>>
  BY DEF Prepare
<1> DEFINE i == put.inode
           c == put.content
<1>2. /\ put.content \in Objects /\ put.inode \in Inodes /\ phase = "serving"
      /\ put'.content = put.content /\ put'.inode = put.inode /\ put' \in PutRecords
      /\ put.at = "created" => put'.at = "written"
      /\ put.at = "written" => put'.at = "sealed"
      /\ put.at = "sealed" => put'.at = "prepared"
  BY <1>1, PutParts DEF Prepare, Stages
<1>3. file[i] \in FileStates
  BY <1>2 DEF StoreInv, Typed
<1>4. /\ file' \in [Inodes -> FileStates]
      /\ \A j \in Inodes : j # i => file'[j] = file[j]
      /\ put.at = "created" => file'[i].bytes = c
      /\ put.at = "written" =>
           file'[i].bytes = file[i].bytes /\ file'[i].sealed = TRUE
      /\ put.at = "sealed" =>
           file'[i].bytes = file[i].bytes /\ file'[i].sealed = file[i].sealed /\ file'[i].kept = "all"
  <2>1. file \in [Inodes -> FileStates]
    BY DEF StoreInv, Typed
  <2>2. CASE put.at = "created"
    <3>1. file' = [file EXCEPT ![i].bytes = c]
      BY <2>2 DEF Prepare
    <3> QED BY <1>2, <2>1, <2>2, <3>1 DEF FileStates
  <2>3. CASE put.at = "written"
    <3>1. file' = [file EXCEPT ![i].sealed = TRUE, ![i].kept = "bytes"]
      BY <2>3 DEF Prepare, SealCreated
    <3> QED BY <1>2, <2>1, <2>3, <3>1 DEF FileStates
  <2>4. CASE put.at = "sealed"
    <3>1. file' = [file EXCEPT ![i].kept = "all"]
      BY <2>4 DEF Prepare
    <3> QED BY <1>2, <2>1, <2>4, <3>1 DEF FileStates
  <2> QED BY <1>1, <2>2, <2>3, <2>4
<1>5. Typed'
  BY <1>1, <1>2, <1>4 DEF StoreInv, Typed
<1>6. /\ \A n \in EntryNames : <<n, i>> \in dir \cup disk => n = i
      /\ \A j \in Inodes : <<c, j>> \notin dir
      /\ usage < MaxObjects
  BY <1>1 DEF StoreInv, Unpublished, Unlinking
<1>7. Genuine'
  <2>1. \A d \in Objects : <<d, i>> \notin dir \cup disk
    BY <1>2, <1>6 DEF EntryNames, StoreConstants
  <2> QED BY <1>1, <1>4, <2>1 DEF StoreInv, Genuine
<1>8. Unpublished'
  BY <1>1, <1>2, <1>6 DEF Unpublished
<1>9. Prepared'
  BY <1>1, <1>2, <1>4 DEF StoreInv, Prepared
<1>10. Records' /\ StaleUnnamed' /\ Recovered' /\ AckedThere' /\ AckedAlone' /\ Account'
  BY <1>1 DEF StoreInv, Records, StaleUnnamed, Recovered, AckedThere, AckedAlone, Account
<1> QED BY <1>5, <1>7, <1>8, <1>9, <1>10 DEF StoreInv

\* The canonical name appears when its file is whole, sealed and synced, and is counted.
LEMMA LinkCanonicalKeeps ==
    ASSUME StoreConstants, StoreInv, LinkCanonical
    PROVE  StoreInv'
<1> DEFINE i == put.inode
           c == put.content
<1>1. /\ put # Nil /\ put.at = "prepared"
      /\ dir' = dir \cup {<<c, i>>} /\ usage' = usage + 1
      /\ UNCHANGED <<disk, file, phase, acked, referenced, lost>>
  BY DEF LinkCanonical
<1>2. /\ c \in Objects /\ i \in Inodes /\ phase = "serving"
      /\ put'.content = c /\ put'.inode = i /\ put' \in PutRecords /\ put'.at = "linked"
  BY <1>1, PutParts DEF LinkCanonical, Stages
<1>3. /\ \A n \in EntryNames : <<n, i>> \in dir \cup disk => n = i
      /\ \A j \in Inodes : <<c, j>> \notin dir
      /\ usage < MaxObjects
  BY <1>1 DEF StoreInv, Unpublished, Unlinking
<1>4. /\ <<i, i>> \in dir
      /\ file[i].bytes = c /\ file[i].sealed = TRUE /\ file[i].kept = "all"
  BY <1>1 DEF StoreInv, Prepared
<1> HIDE DEF i, c
<1>5. /\ Directory(dir')
      /\ Cardinality(CanonicalIn(dir')) = Cardinality(CanonicalIn(dir)) + 1
  BY <1>1, <1>2, <1>3, DirectoryLinked DEF StoreInv, Typed
<1>6. Typed'
  BY <1>1, <1>2, <1>5 DEF StoreInv, Typed
<1>7. Genuine'
  BY <1>1, <1>4 DEF StoreInv, Genuine
<1>8. Unpublished' /\ Prepared'
  BY <1>1, <1>2, <1>4 DEF Unpublished, Unlinking, Prepared
<1>9. Records' /\ StaleUnnamed' /\ Recovered' /\ AckedThere'
  <2>1. Records' /\ Recovered'
    BY <1>1, <1>2 DEF StoreInv, Records, Recovered
  <2>2. \A x : x \in dir => x \in dir'
    BY <1>1
  <2>3. StaleUnnamed'
    BY <1>1, <2>2 DEF StoreInv, StaleUnnamed
  <2>4. AckedThere'
    BY <1>1, <2>2 DEF StoreInv, AckedThere
  <2> QED BY <2>1, <2>3, <2>4
<1>10. AckedAlone'
  <2>1. ~lost => c \notin acked
    BY <1>3 DEF StoreInv, AckedThere
  <2>2. \A j : <<j, j>> \in dir' => <<j, j>> \in dir \/ c = i
    BY <1>1
  <2>3. c # i
    BY <1>2 DEF StoreConstants
  <2> QED BY <1>1, <1>2, <2>1, <2>2, <2>3 DEF StoreInv, AckedAlone
<1>11. Account'
  <2>1. usage' = Cardinality(CanonicalIn(dir')) /\ usage' <= MaxObjects
    BY <1>1, <1>2, <1>3, <1>5 DEF StoreInv, Account, Typed, StoreConstants
  <2>2. /\ Cardinality(NamedIn(dir', referenced')) \in Nat
        /\ Cardinality(NamedIn(dir', referenced')) <= Cardinality(CanonicalIn(dir'))
        /\ Cardinality(CanonicalIn(dir')) \in Nat
    BY <1>5, DirectoryCount
  <2> QED BY <2>1, <2>2 DEF Account, StoreConstants
<1> QED BY <1>6, <1>7, <1>8, <1>9, <1>10, <1>11 DEF StoreInv

\* Sync, drop the temporary, sync and read back: only then is the content acknowledged.
LEMMA PublishKeeps ==
    ASSUME StoreConstants, StoreInv, Publish
    PROVE  StoreInv'
<1>1. /\ put # Nil /\ UNCHANGED <<file, usage, phase, referenced, lost>>
  BY DEF Publish
<1>2. put.content \in Objects /\ put.inode \in Inodes /\ phase = "serving"
  BY <1>1, PutParts
<1>3. CASE put.at = "linked"
  <2>1. /\ disk' = dir /\ dir' = dir /\ acked' = acked
        /\ put' = [put EXCEPT !.at = "durable"]
    BY <1>3 DEF Publish, Sync
  <2>2. put'.inode = put.inode /\ put' \in PutRecords /\ put'.at = "durable"
    BY <1>1, <2>1, PutParts DEF Stages
  <2>3. Typed'
    BY <1>1, <2>1, <2>2 DEF StoreInv, Typed
  <2>4. Unpublished' /\ Prepared'
    BY <1>1, <1>3, <2>1, <2>2 DEF StoreInv, Unpublished, Unlinking, Prepared
  <2>5. Genuine' /\ Records' /\ StaleUnnamed' /\ Recovered' /\ AckedThere' /\ AckedAlone'
    BY <1>1, <2>1 DEF StoreInv, Genuine, Records, StaleUnnamed, Recovered, AckedThere, AckedAlone
  <2>6. Account'
    BY <1>1, <2>1 DEF StoreInv, Account
  <2> QED BY <2>3, <2>4, <2>5, <2>6 DEF StoreInv
<1>4. CASE put.at = "durable"
  <2>1. /\ dir' = dir \ {<<put.inode, put.inode>>} /\ disk' = disk /\ acked' = acked
        /\ put' = [put EXCEPT !.at = "removed"]
    BY <1>4 DEF Publish, Unlinked
  <2>2. put'.inode = put.inode /\ put' \in PutRecords /\ put'.at = "removed"
    BY <1>1, <2>1, PutParts DEF Stages
  <2>3. /\ Directory(dir') /\ CanonicalIn(dir') = CanonicalIn(dir)
        /\ \A r : NamedIn(dir', r) = NamedIn(dir, r)
        /\ \A d \in Objects, j \in Inodes : <<d, j>> \in dir' <=> <<d, j>> \in dir
    BY <1>2, <2>1, DirectoryUnlinked DEF StoreInv, Typed
  <2>4. \A x : x \in dir' => x \in dir
    BY <2>1
  <2>5. Typed'
    BY <1>1, <2>1, <2>2, <2>3 DEF StoreInv, Typed
  <2>6. Unpublished' /\ Prepared'
    BY <1>1, <1>2, <2>2 DEF Unpublished, Unlinking, Prepared
  <2>7. Genuine' /\ Records' /\ StaleUnnamed' /\ Recovered'
    BY <1>1, <1>2, <2>1, <2>3 DEF StoreInv, Genuine, Records, StaleUnnamed, Recovered
  <2>8. AckedThere' /\ AckedAlone'
    BY <1>1, <2>1, <2>3, <2>4 DEF StoreInv, AckedThere, AckedAlone, Typed
  <2>9. Account'
    BY <1>1, <2>3 DEF StoreInv, Account
  <2> QED BY <2>5, <2>6, <2>7, <2>8, <2>9 DEF StoreInv
<1>5. CASE put.at = "removed"
  <2> DEFINE c == put.content
  <2>1. /\ ReadVerified(c) /\ disk' = dir /\ dir' = dir /\ acked' = acked \cup {c} /\ put' = Nil
    BY <1>5 DEF Publish, Sync
  <2> HIDE DEF c
  <2>2. PICK i \in Inodes : <<c, i>> \in dir /\ SealedFile(i)
    BY <2>1 DEF ReadVerified
  <2>3. c \in Objects
    BY <1>2 DEF c
  <2>4. <<i, i>> \notin dir
    BY <2>2, <2>3, SealedIffAlone DEF StoreInv
  <2>5. Typed'
    BY <1>1, <2>1, <2>3 DEF StoreInv, Typed
  <2>6. /\ Genuine' /\ Unpublished' /\ Prepared' /\ Records' /\ StaleUnnamed' /\ Recovered'
    BY <1>1, <1>2, <2>1 DEF StoreInv, Genuine, Unpublished, Prepared, Records, StaleUnnamed,
       Recovered
  <2>7. AckedThere'
    BY <1>1, <2>1, <2>2 DEF StoreInv, AckedThere
  <2>8. AckedAlone'
    <3>1. \A j \in Inodes : <<c, j>> \in dir => <<c, j>> = <<c, i>>
      BY <2>2 DEF StoreInv, Typed, Directory, OneInodePerName
    <3>2. \A j \in Inodes : <<c, j>> \in dir => j = i
      BY <3>1
    <3> QED BY <1>1, <2>1, <2>4, <3>2 DEF StoreInv, AckedAlone
  <2>9. Account'
    BY <1>1, <2>1 DEF StoreInv, Account
  <2> QED BY <2>5, <2>6, <2>7, <2>8, <2>9 DEF StoreInv
<1> QED BY <1>3, <1>4, <1>5 DEF Publish

\* A failure at any stage removes nothing but the temporary.
LEMMA PutFailsKeeps ==
    ASSUME StoreConstants, StoreInv, PutFails
    PROVE  StoreInv'
<1>1. /\ put # Nil /\ put' = Nil /\ UNCHANGED <<file, usage, phase, acked, referenced, lost>>
      /\ \/ dir' = dir \ {<<put.inode, put.inode>>} /\ (disk' = dir' \/ disk' = disk)
         \/ dir' = dir /\ disk' = disk
  BY DEF PutFails, Unlinked
<1>2. put.inode \in Inodes /\ phase = "serving"
  BY <1>1, PutParts
<1>3. /\ Directory(dir') /\ CanonicalIn(dir') = CanonicalIn(dir)
      /\ \A r : NamedIn(dir', r) = NamedIn(dir, r)
      /\ \A d \in Objects, j \in Inodes : <<d, j>> \in dir' <=> <<d, j>> \in dir
  <2>1. Directory(dir)
    BY DEF StoreInv, Typed
  <2>2. CASE dir' = dir
    BY <2>1, <2>2
  <2>3. CASE dir' = dir \ {<<put.inode, put.inode>>}
    BY <1>2, <2>1, <2>3, DirectoryUnlinked
  <2> QED BY <1>1, <2>2, <2>3
<1>4. (\A x : x \in dir' => x \in dir) /\ (disk' = dir' \/ disk' = disk)
  BY <1>1
<1>5. Typed'
  BY <1>1, <1>3, <1>4 DEF StoreInv, Typed
<1>6. Genuine' /\ StaleUnnamed'
  BY <1>1, <1>3, <1>4 DEF StoreInv, Genuine, StaleUnnamed
<1>7. Unpublished' /\ Prepared' /\ Records' /\ Recovered'
  BY <1>1, <1>2 DEF StoreInv, Unpublished, Prepared, Records, Recovered
<1>8. AckedThere'
  BY <1>1, <1>3, <1>4 DEF StoreInv, AckedThere, Typed
<1>9. AckedAlone'
  BY <1>1, <1>3, <1>4 DEF StoreInv, AckedAlone, Typed
<1>10. Account'
  BY <1>1, <1>3 DEF StoreInv, Account
<1> QED BY <1>5, <1>6, <1>7, <1>8, <1>9, <1>10 DEF StoreInv

\* A committed record names a content that is there, so the named ones stay within the quota.
LEMMA CommitReferenceKeeps ==
    ASSUME StoreConstants, StoreInv, NEW c \in Objects, CommitReference(c)
    PROVE  StoreInv'
<1>1. /\ phase = "serving" /\ c \in acked /\ referenced' = referenced \cup {c}
      /\ UNCHANGED <<dir, disk, file, usage, phase, put, acked, lost>>
  BY DEF CommitReference
<1>2. Typed'
  BY <1>1 DEF StoreInv, Typed
<1>3. /\ Genuine' /\ Unpublished' /\ Prepared' /\ Records' /\ StaleUnnamed' /\ Recovered'
      /\ AckedThere' /\ AckedAlone'
  BY <1>1 DEF StoreInv, Genuine, Unpublished, Prepared, Records, StaleUnnamed, Recovered,
     AckedThere, AckedAlone
<1>4. Account'
  <2>1. Cardinality(CanonicalIn(dir)) = usage /\ usage <= MaxObjects /\ usage \in Nat
    BY <1>1 DEF StoreInv, Account, Typed
  <2>2. /\ Cardinality(NamedIn(dir, referenced')) \in Nat
        /\ Cardinality(NamedIn(dir, referenced')) <= Cardinality(CanonicalIn(dir))
    BY DirectoryCount DEF StoreInv, Typed
  <2>3. Cardinality(NamedIn(dir, referenced')) <= MaxObjects
    BY <2>1, <2>2 DEF StoreConstants
  <2> QED BY <1>1, <2>1, <2>3 DEF Account
<1> QED BY <1>2, <1>3, <1>4 DEF StoreInv

------------------------------------------------------------------------------
\* The process dies between any two steps.
LEMMA ProcessDiesKeeps ==
    ASSUME StoreConstants, StoreInv, ProcessDies
    PROVE  StoreInv'
<1>1. /\ phase' = "down" /\ put' = Nil /\ acked' = referenced /\ referenced \subseteq acked
      /\ UNCHANGED <<dir, disk, file, usage, referenced, lost>>
  BY DEF ProcessDies, Down, StoreInv, Records
<1>2. Typed'
  BY <1>1 DEF StoreInv, Typed, Phases
<1>3. /\ Genuine' /\ Unpublished' /\ Prepared' /\ Records' /\ StaleUnnamed' /\ Recovered'
      /\ AckedThere' /\ AckedAlone'
  BY <1>1 DEF StoreInv, Genuine, Unpublished, Prepared, Records, StaleUnnamed, Recovered,
     AckedThere, AckedAlone
<1>4. Account'
  BY <1>1 DEF StoreInv, Account
<1> QED BY <1>2, <1>3, <1>4 DEF StoreInv

\* A tree whose parent was never synced vanishes.
LEMMA TreeLostKeeps ==
    ASSUME StoreConstants, StoreInv, TreeLost
    PROVE  StoreInv'
<1>1. /\ phase' = "down" /\ put' = Nil /\ acked' = referenced /\ lost' = TRUE
      /\ dir' = {} /\ disk' = {}
      /\ UNCHANGED <<file, usage, referenced>>
  BY DEF TreeLost, Down
<1>2. IsFiniteSet({}) /\ Cardinality({}) = 0
  BY FS_EmptySet
<1>3. Directory({}) /\ \A r : NamedIn({}, r) = {}
  BY <1>2 DEF Directory, OneInodePerName, NamedIn, CanonicalIn
<1>4. Typed'
  BY <1>1, <1>3 DEF StoreInv, Typed, Phases
<1>5. /\ Genuine' /\ Unpublished' /\ Prepared' /\ Records' /\ StaleUnnamed' /\ Recovered'
      /\ AckedThere' /\ AckedAlone'
  BY <1>1 DEF Genuine, Unpublished, Prepared, Records, StaleUnnamed, Recovered,
     AckedThere, AckedAlone
<1>6. Account'
  BY <1>1, <1>2, <1>3 DEF Account, StoreConstants
<1> QED BY <1>4, <1>5, <1>6 DEF StoreInv

\* Power loss leaves a file that was synced whole as it was.
LEMMA SurvivorsAre ==
    ASSUME Typed, NEW i \in Inodes, NEW f \in Survivors(i)
    PROVE  f \in FileStates /\ (file[i].kept = "all" => f = file[i])
<1>1. file[i] \in FileStates
  BY DEF Typed
<1>2. CASE file[i].kept = "nothing"
  <2>1. \E b \in {Torn, file[i].bytes}, s \in {FALSE, file[i].sealed} :
          f = [file[i] EXCEPT !.bytes = b, !.sealed = s]
    BY <1>2 DEF Survivors
  <2> QED BY <1>1, <1>2, <2>1 DEF FileStates
<1>3. CASE file[i].kept = "bytes"
  <2>1. \E s \in {FALSE, file[i].sealed} : f = [file[i] EXCEPT !.sealed = s]
    BY <1>3 DEF Survivors
  <2> QED BY <1>1, <1>3, <2>1 DEF FileStates
<1>4. CASE file[i].kept = "all"
  BY <1>1, <1>4 DEF Survivors
<1> QED BY <1>1, <1>2, <1>3, <1>4 DEF FileStates

\* Power loss keeps what both images agree on and any part of the rest.
LEMMA PowerLossKeeps ==
    ASSUME StoreConstants, StoreInv, PowerLoss
    PROVE  StoreInv'
<1>1. /\ phase' = "down" /\ put' = Nil /\ acked' = referenced /\ referenced \subseteq acked
      /\ UNCHANGED <<usage, referenced, lost>>
  BY DEF PowerLoss, Down, StoreInv, Records
<1>2. PICK part \in SUBSET ((dir \ disk) \cup (disk \ dir)) :
        /\ OneInodePerName((dir \cap disk) \cup part)
        /\ dir' = (dir \cap disk) \cup part /\ disk' = (dir \cap disk) \cup part
  BY DEF PowerLoss
<1>3. dir' = disk' /\ dir' \subseteq dir \cup disk /\ dir \cap disk \subseteq dir'
  BY <1>2
<1>4. Directory(dir')
  <2>1. IsFiniteSet(dir \cup disk)
    BY FS_Union DEF StoreInv, Typed, Directory
  <2>2. IsFiniteSet(dir')
    BY <1>3, <2>1, FS_Subset
  <2> QED BY <1>2, <1>3, <2>2 DEF Directory, StoreInv, Typed
<1>5. file' \in [Inodes -> FileStates] /\ \A i \in Inodes : file[i].kept = "all" => file'[i] = file[i]
  <2>1. /\ file' \in [Inodes -> UNION {Survivors(i) : i \in Inodes}]
        /\ \A i \in Inodes : file'[i] \in Survivors(i)
    BY DEF PowerLoss
  <2>2. \A i \in Inodes : file'[i] \in FileStates /\ (file[i].kept = "all" => file'[i] = file[i])
    BY <2>1, SurvivorsAre DEF StoreInv
  <2> QED BY <2>1, <2>2
<1>6. Typed'
  BY <1>1, <1>3, <1>4, <1>5 DEF StoreInv, Typed, Phases
<1>7. Genuine'
  <2>1. \A x : x \in dir' \cup disk' => x \in dir \cup disk
    BY <1>3
  <2> QED BY <1>5, <2>1 DEF StoreInv, Genuine
<1>8. Unpublished' /\ Prepared' /\ Records' /\ StaleUnnamed' /\ Recovered' /\ AckedAlone'
  BY <1>1, <1>3 DEF Unpublished, Prepared, Records, StaleUnnamed, Recovered, AckedAlone
<1>9. AckedThere'
  <2>1. \A x : x \in dir /\ x \in disk => x \in dir' /\ x \in disk'
    BY <1>3
  <2> QED BY <1>1, <2>1 DEF StoreInv, AckedThere
<1>10. Account'
  <2>1. NamedIn(dir', referenced) \subseteq NamedIn(dir, referenced)
    <3>1. SUFFICES ASSUME NEW e \in dir', e[1] \in Objects, e[1] \in referenced
                   PROVE  e \in dir
      BY <3>1 DEF NamedIn, CanonicalIn
    <3>2. e = <<e[1], e[2]>> /\ e[2] \in Inodes
      BY <1>4 DEF Directory
    <3>3. e \in dir \cup disk
      BY <1>3
    <3>4. e[1] \in acked
      BY <1>1, <3>1
    <3> QED BY <3>1, <3>2, <3>3, <3>4 DEF StoreInv, StaleUnnamed
  <2>2. /\ Cardinality(NamedIn(dir', referenced)) \in Nat
        /\ Cardinality(NamedIn(dir', referenced)) <= Cardinality(NamedIn(dir, referenced))
        /\ Cardinality(NamedIn(dir, referenced)) \in Nat
    BY <2>1, FewerNamed, DirectoryCount DEF StoreInv, Typed
  <2>3. Cardinality(NamedIn(dir', referenced)) <= MaxObjects
    BY <2>2 DEF StoreInv, Account, StoreConstants
  <2> QED BY <1>1, <2>3 DEF Account
<1> QED BY <1>6, <1>7, <1>8, <1>9, <1>10 DEF StoreInv

------------------------------------------------------------------------------
\* Every step keeps the invariant.
LEMMA NextKeeps ==
    ASSUME StoreConstants, StoreInv, [Next]_vars
    PROVE  StoreInv'
<1>1. CASE CreateTree \/ SyncTree \/ OpenTree
  BY <1>1, OpeningKeeps
<1>2. CASE RecoverSync
  BY <1>2, RecoverSyncKeeps
<1>3. CASE ScanUsage
  BY <1>3, ScanUsageKeeps
<1>4. CASE RetainDone
  BY <1>4, RetainDoneKeeps
<1>5. CASE \E i \in Inodes : RecoverTemporary(i)
  BY <1>5, RecoverTemporaryKeeps
<1>6. CASE \E e \in dir : RetainRemove(e)
  BY <1>6, RetainRemoveKeeps
<1>7. CASE \E c \in Objects : PutExisting(c) \/ CommitReference(c)
  BY <1>7, PutExistingKeeps, CommitReferenceKeeps
<1>8. CASE \E c \in Objects, i \in Inodes : PutCreate(c, i)
  BY <1>8, PutCreateKeeps
<1>9. CASE Prepare
  BY <1>9, PrepareKeeps
<1>10. CASE LinkCanonical
  BY <1>10, LinkCanonicalKeeps
<1>11. CASE Publish
  BY <1>11, PublishKeeps
<1>12. CASE PutFails
  BY <1>12, PutFailsKeeps
<1>13. CASE ProcessDies
  BY <1>13, ProcessDiesKeeps
<1>14. CASE PowerLoss
  BY <1>14, PowerLossKeeps
<1>15. CASE TreeLost
  BY <1>15, TreeLostKeeps
<1>16. CASE UNCHANGED vars
  <2>1. UNCHANGED <<dir, disk, file, usage, phase, put, acked, referenced, lost>>
    BY <1>16 DEF vars
  <2>2. Typed' /\ Account'
    BY <2>1 DEF StoreInv, Typed, Account
  <2>3. /\ Genuine' /\ Unpublished' /\ Prepared' /\ Records' /\ StaleUnnamed' /\ Recovered'
        /\ AckedThere' /\ AckedAlone'
    BY <2>1 DEF StoreInv, Genuine, Unpublished, Prepared, Records, StaleUnnamed, Recovered,
       AckedThere, AckedAlone
  <2> QED BY <2>2, <2>3 DEF StoreInv
<1> QED BY <1>1, <1>2, <1>3, <1>4, <1>5, <1>6, <1>7, <1>8, <1>9, <1>10, <1>11, <1>12, <1>13,
           <1>14, <1>15, <1>16 DEF Next

\* The invariant implies what the store promises of every state.
LEMMA StoreInvSays ==
    ASSUME StoreConstants, StoreInv
    PROVE  StoreTypeOK /\ AckDurable /\ AckReadable /\ NeverCorrupt /\ UsageExact
<1>1. StoreTypeOK
  <2>1. put # Nil => phase = "serving" /\ (Temporary(put.inode) \/ put.at = "removed")
    BY DEF StoreInv, Prepared, Temporary
  <2> QED BY <2>1 DEF StoreTypeOK, StoreInv, Typed, Directory, EntryNames
<1>2. AckDurable
  <2> SUFFICES ASSUME ~lost, NEW c \in acked \cup referenced
               PROVE  \E i \in Inodes : /\ <<c, i>> \in dir \cap disk
                                        /\ file[i].bytes = c /\ file[i].sealed
                                        /\ file[i].kept = "all"
    BY DEF AckDurable
  <2>1. c \in acked /\ c \in Objects
    BY DEF StoreInv, Records, Typed
  <2>2. PICK i \in Inodes : <<c, i>> \in dir /\ <<c, i>> \in disk
    BY <2>1 DEF StoreInv, AckedThere
  <2>3. file[i].bytes = c /\ file[i].sealed = TRUE /\ file[i].kept = "all"
    BY <2>1, <2>2 DEF StoreInv, Genuine
  <2> QED BY <2>2, <2>3
<1>3. AckReadable
  <2> SUFFICES ASSUME ~lost, phase = "serving", NEW c \in acked
               PROVE  \E i \in Inodes : <<c, i>> \in dir /\ SealedFile(i) /\ file[i].bytes = c
    BY DEF AckReadable
  <2>1. c \in Objects
    BY DEF StoreInv, Typed
  <2>2. PICK i \in Inodes : <<c, i>> \in dir
    BY DEF StoreInv, AckedThere
  <2>3. <<i, i>> \notin dir
    BY <2>2 DEF StoreInv, AckedAlone
  <2>4. SealedFile(i)
    BY <2>1, <2>2, <2>3, SealedIffAlone DEF StoreInv
  <2>5. file[i].bytes = c
    BY <2>1, <2>2 DEF StoreInv, Genuine
  <2> QED BY <2>2, <2>4, <2>5
<1>4. NeverCorrupt
  BY DEF NeverCorrupt, StoreInv, Typed, Phases
<1>5. UsageExact
  BY DEF UsageExact, StoreInv, Account
<1> QED BY <1>1, <1>2, <1>3, <1>4, <1>5

\* Only the end of collection starts serving, and it leaves named objects only.
LEMMA ServesNamedOnly ==
    ASSUME StoreConstants, StoreInv, [Next]_vars, phase # "serving", phase' = "serving"
    PROVE  \A e \in dir' : e[1] \in referenced'
<1>1. put = Nil
  BY DEF StoreInv, Prepared
<1>2. RetainDone
  <2>1. phase' # phase
    OBVIOUS
  <2>2. ~RecoverSync /\ ~ScanUsage
    BY DEF RecoverSync, ScanUsage
  <2>3. \A i \in Inodes : ~RecoverTemporary(i)
    BY DEF RecoverTemporary
  <2>4. \A e : ~RetainRemove(e)
    BY DEF RetainRemove
  <2>5. \A c, i : ~PutExisting(c) /\ ~CommitReference(c) /\ ~PutCreate(c, i)
    BY DEF PutExisting, CommitReference, PutCreate
  <2>6. ~Prepare /\ ~LinkCanonical /\ ~Publish /\ ~PutFails
    BY <1>1 DEF Prepare, LinkCanonical, Publish, PutFails
  <2>7. ~ProcessDies /\ ~PowerLoss /\ ~TreeLost
    BY DEF ProcessDies, PowerLoss, TreeLost, Down
  <2>8. ~CreateTree /\ ~SyncTree /\ ~OpenTree /\ ~UNCHANGED vars
    BY <2>1 DEF CreateTree, SyncTree, OpenTree, vars
  <2> QED BY <2>2, <2>3, <2>4, <2>5, <2>6, <2>7, <2>8 DEF Next
<1>3. /\ phase \in {"retain", "retain_sync"} /\ Unreferenced = {}
      /\ UNCHANGED <<dir, referenced>>
  BY <1>2 DEF RetainDone
<1>4. \A i \in Inodes : <<i, i>> \notin dir
  BY <1>3 DEF StoreInv, Recovered
<1>5. \A e \in dir : e = <<e[1], e[2]>> /\ e[1] \in EntryNames /\ e[2] \in Inodes
  BY DEF StoreInv, Typed, Directory
<1>6. \A e \in dir : e[1] \in Objects
  BY <1>4, <1>5 DEF StoreInv, Typed, Directory, EntryNames
<1> QED BY <1>3, <1>6 DEF Unreferenced, CanonicalIn

\* The invariant holds throughout, for ArtifactStore::open, put and retain_only under failures of
\* any step, process crashes and power losses in any number.
THEOREM StoreInvariant ==
    ASSUME StoreConstants
    PROVE  Spec => []StoreInv
<1>1. Init => StoreInv
  BY InitStore
<1>2. StoreInv /\ [Next]_vars => StoreInv'
  BY NextKeeps
<1> QED BY <1>1, <1>2, PTL DEF Spec

\* What ArtifactStore::put acknowledged and what a committed record names stays, durable and
\* readable; no leftover of a failed or interrupted publication makes the next opening refuse the
\* store; the account is exact and within the quota; and a store that starts to serve holds named
\* objects only.
THEOREM WhatIsPublishedStays ==
    ASSUME StoreConstants
    PROVE  Spec => PublishedStays
<1>1. StoreInv => StoreTypeOK /\ AckDurable /\ AckReadable /\ NeverCorrupt /\ UsageExact
  BY StoreInvSays
<1>2. StoreInv /\ [Next]_vars =>
        [phase # "serving" /\ phase' = "serving" => \A e \in dir' : e[1] \in referenced']_vars
  BY ServesNamedOnly
<1>3. Spec => []StoreInv
  BY StoreInvariant
<1> QED BY <1>1, <1>2, <1>3, PTL DEF Spec, PublishedStays, OrphansDropped

-----------------------------------------------------------------------------
(***************************************************************************)
(* The verdict and the removal of a candidate workspace, for every set of   *)
(* expected files and every number of changes by the execution.             *)
(*                                                                         *)
(* UnchangedTrue is not inductive: a verdict rests on what three            *)
(* inspections read, one file after the other, while files change.  The     *)
(* invariant says what each reading proves.  Nothing changes before the     *)
(* first seal, so that one is exactly what was built (BuiltAsExpected,      *)
(* ReadAsExpected).  A file that is no longer as it was built never is      *)
(* again, so one that a pass still finds so was so when the pass listed the *)
(* directory, and a name that was listed is read or refused (PassFaithful). *)
(***************************************************************************)
\* Until the first seal nobody but Carl writes files.
BuiltAsExpected ==
    /\ seals = <<>> => writes = 0
    /\ (walk = "building" \/ walk = "scanning") /\ seals = <<>> =>
          \A n \in Names : node[n] = Missing \/ node[n] = Expected[n]
    /\ walk = "building" => seals = <<>>
    /\ walk = "ready" => seals # <<>>

\* Until the first seal a scan reads what was built.
ReadAsExpected ==
    walk = "scanning" /\ seals = <<>> =>
        /\ scan.reading # NotReading => scan.reading.file = Expected[scan.reading.name]
        /\ \A n \in Names : /\ scan.got[n] = Missing \/ scan.got[n] = Expected[n]
                            /\ scan.first[n] = Missing \/ scan.first[n] = Expected[n]

\* A pass begins with nothing read, and the file it is reading has one link.
PassShape ==
    /\ ~scan.listed => scan.todo = {} /\ scan.reading = NotReading /\ scan.got = Nothing
    /\ scan.reading # NotReading => scan.reading.name \in Names /\ scan.reading.file.links = 1
    /\ walk = "scanning" => scan.pass # 0

\* What a file that is still as built, or was so when it was read, says of the
\* listing, and what becomes of every name of the listing.
PassFaithful ==
    walk = "scanning" /\ scan.listed =>
        /\ \A n \in Files :
              \/ node[n] = Expected[n]
              \/ scan.got[n] = Expected[n]
              \/ scan.reading.name = n /\ scan.reading.file = Expected[n]
              => atListing[n] = Expected[n]
        /\ \A n \in Names :
              atListing[n].links # 0 =>
                  n \in scan.todo \/ scan.reading.name = n \/ scan.got[n].links = 1

\* The first seal is what was built, at most two precede an inspection, and a
\* verdict ends the inspections.
SealsFaithful ==
    /\ seals # <<>> => seals[1] = Expected
    /\ walk = "scanning" \/ walk = "ready" => Len(seals) <= 2
    /\ verdict # "none" => walk = "cleaning" \/ walk = "done"

\* The held directory is moved aside before its name is removed.
RemovalHeld == cleanup.held => loc = "aside" \/ loc = "gone"

\* The inductive invariant.
WorkspaceInv ==
    /\ WorkspaceTypeOK /\ BuiltAsExpected /\ ReadAsExpected /\ PassShape /\ PassFaithful
    /\ SealsFaithful /\ RemovalHeld /\ UnchangedTrue /\ RemovedHonest

-----------------------------------------------------------------------------
(* Values                                                                    *)

\* The names are positive numbers, and no name stands for "not reading".
LEMMA NameFacts ==
  ASSUME WorkspaceConstants
  PROVE  Names \subseteq Nat /\ 0 \notin Names /\ Files \subseteq Names /\ Extra \notin Files
  BY DEF WorkspaceConstants, Names

\* The entries the operations write.
LEMMA EntryFacts ==
  ASSUME WorkspaceConstants
  PROVE  /\ Missing \in FileEntries
         /\ Nothing \in [Names -> FileEntries]
         /\ Expected \in [Names -> FileEntries]
         /\ \A n \in Names : Nothing[n] = Missing
         /\ \A n \in Files : Expected[n] = [ino |-> n, content |-> 0, links |-> 1]
         /\ \A n \in Names : n \notin Files => Expected[n] = Missing
<1>1. Missing \in FileEntries
  BY DEF FileEntries
<1>2. \A n \in Files : [ino |-> n, content |-> 0, links |-> 1] \in FileEntries
  BY DEF FileEntries, WorkspaceConstants
<1>3. QED
  BY <1>1, <1>2, NameFacts DEF Nothing, Expected

\* A scan that starts, with what an earlier pass read.
LEMMA ScanFacts ==
  ASSUME WorkspaceConstants
  PROVE  /\ NotReading \in [name : Names \cup {0}, file : FileEntries]
         /\ NotReading.name = 0
         /\ \A p \in 0 .. 2, f \in [Names -> FileEntries] : StartScan(p, f) \in Scans
         /\ NoScan \in Scans
<1>1. NotReading \in [name : Names \cup {0}, file : FileEntries] /\ NotReading.name = 0
  BY EntryFacts DEF NotReading
<1>2. \A p \in 0 .. 2, f \in [Names -> FileEntries] : StartScan(p, f) \in Scans
  BY <1>1, EntryFacts DEF StartScan, Scans
<1>3. QED
  BY <1>1, <1>2, EntryFacts DEF NoScan

\* The scan takes the entries of a listing in order, each of them.
LEMMA FirstIsMember ==
  ASSUME NEW s, s \subseteq Nat, s # {}
  PROVE  First(s) \in s
<1> DEFINE R == {p \in Nat \X Nat : p[1] < p[2]}
<1>1. IsWellFoundedOn(R, Nat)
  BY NatLessThanWellFounded, Zenon DEF OpToRel
<1>2. PICK n \in s : \A m \in s : <<m, n>> \notin R
  <2> HIDE DEF R
  <2>1. QED
    BY <1>1, WFMin, Zenon
<1>3. ASSUME NEW m \in s PROVE n <= m
  <2>1. m \in Nat /\ n \in Nat
    OBVIOUS
  <2>2. ASSUME m < n PROVE <<m, n>> \in R
    BY <2>1, <2>2
  <2>3. QED
    BY <1>2, <2>1, <2>2
<1>4. QED
  BY <1>3 DEF First

\* The initial state.
LEMMA WorkspaceStarts ==
  ASSUME WorkspaceConstants, WorkspaceInit
  PROVE  WorkspaceInv
<1>1. WorkspaceTypeOK
  <2>1. cleanup \in Cleanups
    BY DEF WorkspaceInit, NoCleanup, Cleanups
  <2>2. seals \in Seq([Names -> FileEntries]) /\ Len(seals) <= 3
    BY DEF WorkspaceInit
  <2>3. QED
    BY <2>1, <2>2, EntryFacts, ScanFacts DEF WorkspaceInit, WorkspaceTypeOK
<1>2. BuiltAsExpected
  BY EntryFacts DEF WorkspaceInit, BuiltAsExpected
<1>3. PassShape
  BY DEF WorkspaceInit, PassShape, NoScan, StartScan
<1>4. ReadAsExpected /\ PassFaithful /\ SealsFaithful /\ UnchangedTrue
  BY DEF WorkspaceInit, ReadAsExpected, PassFaithful, SealsFaithful, UnchangedTrue
<1>5. RemovalHeld /\ RemovedHonest
  BY DEF WorkspaceInit, RemovalHeld, RemovedHonest, NoCleanup
<1>6. QED
  BY <1>1, <1>2, <1>3, <1>4, <1>5 DEF WorkspaceInv

-----------------------------------------------------------------------------
(* Reconstruction and the scan                                               *)

\* Outside a scan there is nothing to say of what was read.
LEMMA NotScanning ==
  ASSUME walk' = "cleaning" \/ walk' = "ready" \/ walk' = "done"
  PROVE  ReadAsExpected' /\ PassFaithful'
  BY DEF ReadAsExpected, PassFaithful

\* A scan that starts has read nothing.
LEMMA ScanBegins ==
  ASSUME WorkspaceConstants, NEW p \in 1 .. 2, NEW f \in [Names -> FileEntries],
         scan' = StartScan(p, f),
         seals' = <<>> => \A n \in Names : f[n] = Missing \/ f[n] = Expected[n]
  PROVE  scan' \in Scans /\ PassShape' /\ PassFaithful' /\ ReadAsExpected'
<1>1. scan' \in Scans
  BY ScanFacts
<1>2. /\ ~scan'.listed /\ scan'.todo = {} /\ scan'.reading = NotReading
      /\ scan'.got = Nothing /\ scan'.first = f /\ scan'.pass = p
  BY DEF StartScan
<1>3. PassShape' /\ PassFaithful'
  BY <1>2 DEF PassShape, PassFaithful
<1>4. ReadAsExpected'
  BY <1>2, EntryFacts DEF ReadAsExpected
<1>5. QED
  BY <1>1, <1>3, <1>4

\* CreateFile writes what is expected under the name.
LEMMA CreateFileKeeps ==
  ASSUME WorkspaceConstants, WorkspaceInv, NEW n \in Files, CreateFile(n)
  PROVE  WorkspaceInv'
<1>1. /\ walk = "building" /\ UNCHANGED <<walk, scan, seals, verdict, atListing, Removal, Writer>>
      /\ node' = [node EXCEPT ![n] = Expected[n]]
  BY DEF CreateFile
<1>2. WorkspaceTypeOK'
  BY <1>1, NameFacts, EntryFacts DEF WorkspaceInv, WorkspaceTypeOK, Removal, Writer
<1>3. BuiltAsExpected'
  BY <1>1, NameFacts DEF WorkspaceInv, WorkspaceTypeOK, BuiltAsExpected, Removal, Writer
<1>4. ReadAsExpected' /\ PassFaithful'
  BY <1>1 DEF ReadAsExpected, PassFaithful
<1>5. PassShape' /\ SealsFaithful' /\ RemovalHeld' /\ UnchangedTrue' /\ RemovedHonest'
  BY <1>1 DEF WorkspaceInv, PassShape, SealsFaithful, RemovalHeld, UnchangedTrue, RemovedHonest,
              Removal
<1>6. QED
  BY <1>2, <1>3, <1>4, <1>5 DEF WorkspaceInv

\* What ends the reconstruction, runs in the workspace or drops it keeps the files.
LEMMA TurningPoints ==
  ASSUME WorkspaceConstants, WorkspaceInv,
         ReconstructFails \/ Reconstructed \/ Executed \/ Abandon
  PROVE  WorkspaceInv'
<1>1. /\ UNCHANGED <<node, seals, verdict, atListing, Removal, Writer>>
      /\ verdict = "none"
      /\ \/ walk' = "cleaning" /\ scan' \in {scan, NoScan, StartScan(1, Nothing)}
         \/ /\ walk' = "scanning" /\ scan' = StartScan(1, Nothing)
            /\ walk = "building" \/ walk = "ready"
  BY DEF ReconstructFails, Reconstructed, Executed, Abandon, WorkspaceInv, SealsFaithful
<1>2. SealsFaithful' /\ RemovalHeld' /\ UnchangedTrue' /\ RemovedHonest'
  BY <1>1 DEF WorkspaceInv, BuiltAsExpected, SealsFaithful, RemovalHeld, UnchangedTrue,
              RemovedHonest, Removal
<1>3. scan' \in Scans /\ PassShape'
  <2>1. \A s \in {scan, NoScan, StartScan(1, Nothing)} : s \in Scans
    BY ScanFacts, EntryFacts DEF WorkspaceInv, WorkspaceTypeOK
  <2>2. scan' \in Scans
    BY <1>1, <2>1
  <2>3. QED
    BY <1>1, <2>2 DEF WorkspaceInv, PassShape, NoScan, StartScan
<1>4. WorkspaceTypeOK'
  BY <1>1, <1>3 DEF WorkspaceInv, WorkspaceTypeOK, Removal, Writer
<1>5. BuiltAsExpected'
  BY <1>1 DEF WorkspaceInv, BuiltAsExpected, Writer
<1>6. ReadAsExpected' /\ PassFaithful'
  <2>1. CASE walk' = "cleaning"
    BY <2>1, NotScanning
  <2>2. CASE scan' = StartScan(1, Nothing)
    BY <2>2, ScanBegins, EntryFacts
  <2>3. QED
    BY <1>1, <2>1, <2>2
<1>7. QED
  BY <1>2, <1>3, <1>4, <1>5, <1>6 DEF WorkspaceInv

\* ListEntries fixes the instant that the pass will be about.
LEMMA ListEntriesKeeps ==
  ASSUME WorkspaceConstants, WorkspaceInv, ListEntries
  PROVE  WorkspaceInv'
<1> DEFINE td == {n \in Names : Present(n)}
<1>1. /\ walk = "scanning" /\ ~scan.listed /\ scan' = [scan EXCEPT !.listed = TRUE, !.todo = td]
      /\ atListing' = node
      /\ UNCHANGED <<node, walk, seals, verdict, Removal, Writer>>
  BY DEF ListEntries
<1>2. td \subseteq Names /\ \A n \in Names : n \in td <=> node[n].links # 0
  BY DEF Present
<1>3. scan \in Scans
  BY DEF WorkspaceInv, WorkspaceTypeOK
<1> HIDE DEF td
<1>4. /\ scan' \in Scans /\ scan'.listed /\ scan'.todo = td /\ scan'.pass = scan.pass
      /\ scan'.reading = scan.reading /\ scan'.got = scan.got /\ scan'.first = scan.first
  BY <1>1, <1>2, <1>3 DEF Scans
<1>5. scan.reading = NotReading /\ scan.got = Nothing /\ NotReading.name = 0
  BY <1>1, ScanFacts DEF WorkspaceInv, PassShape
<1>6. WorkspaceTypeOK'
  BY <1>1, <1>4 DEF WorkspaceInv, WorkspaceTypeOK, Removal, Writer
<1>7. BuiltAsExpected'
  BY <1>1 DEF WorkspaceInv, BuiltAsExpected, Writer
<1>8. ReadAsExpected'
  BY <1>1, <1>4 DEF WorkspaceInv, ReadAsExpected
<1>9. PassShape'
  BY <1>1, <1>4, <1>5 DEF WorkspaceInv, PassShape
<1>10. PassFaithful'
  <2>1. ASSUME NEW n \in Files PROVE scan'.got[n] # Expected[n] /\ scan'.reading.name # n
    <3>1. Nothing[n] = Missing /\ Expected[n] = [ino |-> n, content |-> 0, links |-> 1] /\ n # 0
      BY NameFacts, EntryFacts
    <3>2. Missing # Expected[n]
      BY <3>1 DEF Missing
    <3>3. QED
      BY <3>1, <3>2, <1>4, <1>5
  <2>2. QED
    BY <1>1, <1>2, <1>4, <2>1 DEF PassFaithful
<1>11. SealsFaithful' /\ RemovalHeld' /\ UnchangedTrue' /\ RemovedHonest'
  BY <1>1 DEF WorkspaceInv, SealsFaithful, RemovalHeld, UnchangedTrue, RemovedHonest, Removal
<1>12. QED
  BY <1>6, <1>7, <1>8, <1>9, <1>10, <1>11 DEF WorkspaceInv

\* A refusal ends the inspection and says so.
LEMMA RefuseKeeps ==
  ASSUME WorkspaceConstants, WorkspaceInv, walk = "scanning", Refuse,
         UNCHANGED <<node, Removal, Writer>>
  PROVE  WorkspaceInv'
<1>1. /\ verdict' = "changed" /\ walk' = "cleaning" /\ scan' = NoScan
      /\ UNCHANGED <<node, seals, atListing, Removal, Writer>>
  BY DEF Refuse
<1>2. WorkspaceTypeOK'
  BY <1>1, ScanFacts DEF WorkspaceInv, WorkspaceTypeOK, Removal, Writer
<1>3. BuiltAsExpected'
  BY <1>1 DEF WorkspaceInv, BuiltAsExpected, Writer
<1>4. ReadAsExpected' /\ PassFaithful'
  BY <1>1, NotScanning
<1>5. PassShape'
  BY <1>1 DEF PassShape, NoScan, StartScan
<1>6. SealsFaithful' /\ RemovalHeld' /\ UnchangedTrue' /\ RemovedHonest'
  BY <1>1 DEF WorkspaceInv, SealsFaithful, RemovalHeld, UnchangedTrue, RemovedHonest, Removal
<1>7. QED
  BY <1>2, <1>3, <1>4, <1>5, <1>6 DEF WorkspaceInv

\* A step of the scan itself touches nothing else, so only what it read is in question.
LEMMA ScanStep ==
  ASSUME WorkspaceConstants, WorkspaceInv, walk = "scanning", scan' \in Scans, PassShape',
         ReadAsExpected', PassFaithful',
         UNCHANGED <<node, walk, seals, verdict, atListing, Removal, Writer>>
  PROVE  WorkspaceInv'
<1>1. WorkspaceTypeOK'
  BY DEF WorkspaceInv, WorkspaceTypeOK, Removal, Writer
<1>2. BuiltAsExpected'
  BY DEF WorkspaceInv, BuiltAsExpected, Writer
<1>3. SealsFaithful' /\ RemovalHeld' /\ UnchangedTrue' /\ RemovedHonest'
  BY DEF WorkspaceInv, SealsFaithful, RemovalHeld, UnchangedTrue, RemovedHonest, Removal
<1>4. QED
  BY <1>1, <1>2, <1>3 DEF WorkspaceInv

\* ReadFile takes the next name of the listing.
LEMMA ReadFileKeeps ==
  ASSUME WorkspaceConstants, WorkspaceInv, ReadFile
  PROVE  WorkspaceInv'
<1> DEFINE n == First(scan.todo)
           rd == [name |-> n, file |-> node[n]]
<1>1. /\ walk = "scanning" /\ scan.todo # {} /\ scan.reading = NotReading
      /\ UNCHANGED <<node, Removal, Writer>>
  BY DEF ReadFile
<1>2. scan \in Scans /\ node \in [Names -> FileEntries]
  BY DEF WorkspaceInv, WorkspaceTypeOK
<1>3. n \in scan.todo /\ n \in Names /\ n # 0
  <2>1. scan.todo \subseteq Names
    BY <1>2 DEF Scans
  <2>2. QED
    BY <1>1, <2>1, FirstIsMember, NameFacts
<1>4. CASE node[n].links # 1
  BY <1>1, <1>4, RefuseKeeps DEF ReadFile
<1>5. CASE node[n].links = 1
  <2>1. /\ scan' = [scan EXCEPT !.reading = rd, !.todo = @ \ {n}]
        /\ UNCHANGED <<walk, seals, verdict, atListing>>
    BY <1>5 DEF ReadFile
  <2> HIDE DEF n
  <2>2. rd \in [name : Names \cup {0}, file : FileEntries] /\ rd.name = n /\ rd.file = node[n]
    BY <1>2, <1>3
  <2> HIDE DEF rd
  <2>3. /\ scan' \in Scans /\ scan'.listed = scan.listed /\ scan'.todo = scan.todo \ {n}
        /\ scan'.pass = scan.pass /\ scan'.reading = rd /\ scan'.got = scan.got
        /\ scan'.first = scan.first
    BY <1>2, <2>1, <2>2 DEF Scans
  <2>4. scan.listed
    BY <1>1 DEF WorkspaceInv, PassShape
  <2>5. PassShape'
    BY <1>1, <1>3, <1>5, <2>1, <2>2, <2>3, <2>4 DEF WorkspaceInv, PassShape
  <2>6. ReadAsExpected'
    <3>1. seals = <<>> => node[n] = Expected[n]
      BY <1>1, <1>3, <1>5 DEF WorkspaceInv, BuiltAsExpected, Missing
    <3>2. QED
      BY <1>1, <2>1, <2>2, <2>3, <3>1 DEF WorkspaceInv, ReadAsExpected
  <2>7. PassFaithful'
    <3>1. NotReading.name = 0 /\ 0 \notin Names
      BY NameFacts, ScanFacts
    <3>2. ASSUME NEW m \in Files,
                 \/ node[m] = Expected[m]
                 \/ scan'.got[m] = Expected[m]
                 \/ scan'.reading.name = m /\ scan'.reading.file = Expected[m]
          PROVE  atListing[m] = Expected[m]
      BY <1>1, <2>2, <2>3, <2>4, <3>2 DEF WorkspaceInv, PassFaithful
    <3>3. ASSUME NEW m \in Names, atListing[m].links # 0
          PROVE  m \in scan'.todo \/ scan'.reading.name = m \/ scan'.got[m].links = 1
      BY <1>1, <2>2, <2>3, <2>4, <3>1, <3>3 DEF WorkspaceInv, PassFaithful
    <3>4. QED
      BY <1>1, <2>1, <3>2, <3>3 DEF PassFaithful
  <2>8. QED
    BY <1>1, <2>1, <2>3, <2>5, <2>6, <2>7, ScanStep
<1>6. QED
  BY <1>4, <1>5

\* ConfirmFile records what was read, which the listing held if it is as built.
LEMMA ConfirmFileKeeps ==
  ASSUME WorkspaceConstants, WorkspaceInv, ConfirmFile
  PROVE  WorkspaceInv'
<1> DEFINE n == scan.reading.name
<1>1. /\ walk = "scanning" /\ scan.reading # NotReading
      /\ UNCHANGED <<node, Removal, Writer>>
  BY DEF ConfirmFile
<1>2. scan \in Scans
  BY DEF WorkspaceInv, WorkspaceTypeOK
<1>3. n \in Names /\ scan.reading.file.links = 1 /\ scan.listed
  BY <1>1 DEF WorkspaceInv, PassShape
<1>4. CASE node[n].links # 1 \/ node[n].ino # scan.reading.file.ino
  BY <1>1, <1>4, RefuseKeeps DEF ConfirmFile
<1>5. CASE ~(node[n].links # 1 \/ node[n].ino # scan.reading.file.ino)
  <2>1. /\ scan' = [scan EXCEPT !.reading = NotReading, !.got[n] = scan.reading.file]
        /\ UNCHANGED <<walk, seals, verdict, atListing>>
    BY <1>5 DEF ConfirmFile
  <2>2. scan.reading.file \in FileEntries /\ scan.got \in [Names -> FileEntries]
    BY <1>2 DEF Scans
  <2>3. /\ scan'.listed = scan.listed /\ scan'.todo = scan.todo /\ scan'.pass = scan.pass
        /\ scan'.reading = NotReading /\ scan'.first = scan.first
        /\ scan'.got = [scan.got EXCEPT ![n] = scan.reading.file]
        /\ scan' \in Scans
    BY <1>2, <1>3, <2>1, <2>2, ScanFacts DEF Scans
  <2>4. /\ scan'.got[n] = scan.reading.file
        /\ \A m \in Names : m # n => scan'.got[m] = scan.got[m]
    BY <1>3, <2>2, <2>3
  <2>5. PassShape'
    BY <1>1, <1>3, <2>1, <2>3 DEF WorkspaceInv, PassShape
  <2>6. ReadAsExpected'
    BY <1>1, <2>1, <2>3, <2>4 DEF WorkspaceInv, ReadAsExpected
  <2>7. PassFaithful'
    <3>1. NotReading.name = 0 /\ 0 \notin Names /\ Files \subseteq Names
      BY NameFacts, ScanFacts
    <3>2. ASSUME NEW m \in Files,
                 \/ node[m] = Expected[m]
                 \/ scan'.got[m] = Expected[m]
                 \/ scan'.reading.name = m /\ scan'.reading.file = Expected[m]
          PROVE  atListing[m] = Expected[m]
      BY <1>1, <1>3, <2>3, <2>4, <3>1, <3>2 DEF WorkspaceInv, PassFaithful
    <3>3. ASSUME NEW m \in Names, atListing[m].links # 0
          PROVE  m \in scan'.todo \/ scan'.reading.name = m \/ scan'.got[m].links = 1
      BY <1>1, <1>3, <2>3, <2>4, <3>3 DEF WorkspaceInv, PassFaithful
    <3>4. QED
      BY <1>1, <2>1, <3>2, <3>3 DEF PassFaithful
  <2>8. QED
    BY <1>1, <2>1, <2>3, <2>5, <2>6, <2>7, ScanStep
<1>6. QED
  BY <1>4, <1>5

\* SecondPass keeps what the first pass read.
LEMMA SecondPassKeeps ==
  ASSUME WorkspaceConstants, WorkspaceInv, SecondPass
  PROVE  WorkspaceInv'
<1>1. /\ walk = "scanning" /\ scan' = StartScan(2, scan.got)
      /\ UNCHANGED <<node, walk, seals, verdict, atListing, Removal, Writer>>
  BY DEF SecondPass, PassDone
<1>2. scan.got \in [Names -> FileEntries]
  BY DEF WorkspaceInv, WorkspaceTypeOK, Scans
<1>3. seals' = <<>> => \A n \in Names : scan.got[n] = Missing \/ scan.got[n] = Expected[n]
  BY <1>1 DEF WorkspaceInv, ReadAsExpected
<1>4. QED
  BY <1>1, <1>2, <1>3, ScanBegins, ScanStep

\* The two passes agree with each other and with what was built: then the
\* directory was as built when the second one listed it.
LEMMA SealMeans ==
  ASSUME WorkspaceConstants, WorkspaceInv, PassDone, scan.got = Expected
  PROVE  atListing = Expected
<1>1. /\ walk = "scanning" /\ scan.listed /\ scan.todo = {} /\ scan.reading = NotReading
      /\ NotReading.name = 0 /\ 0 \notin Names
  BY ScanFacts, NameFacts DEF PassDone
<1>2. atListing \in [Names -> FileEntries]
  BY DEF WorkspaceInv, WorkspaceTypeOK
<1>3. \A n \in Files : atListing[n] = Expected[n]
  BY <1>1 DEF WorkspaceInv, PassFaithful
<1>4. ASSUME NEW n \in Names, n \notin Files PROVE atListing[n].links = 0
  <2>1. Expected[n].links = 0
    BY <1>4, EntryFacts DEF Missing
  <2>2. QED
    BY <1>1, <2>1 DEF WorkspaceInv, PassFaithful
<1>5. \A n \in Names : atListing[n].links = 0 => atListing[n] = Missing
  BY <1>2 DEF FileEntries
<1>6. QED
  BY <1>2, <1>3, <1>4, <1>5, EntryFacts

\* SealSnapshot: the first seal is what was built, and the third one ends with
\* a verdict about the listing of its second pass.
LEMMA SealSnapshotKeeps ==
  ASSUME WorkspaceConstants, WorkspaceInv, SealSnapshot
  PROVE  WorkspaceInv'
<1>1. /\ walk = "scanning" /\ UNCHANGED <<node, Removal, Writer>> /\ PassDone
  BY DEF SealSnapshot, PassDone
<1>2. scan.first \in [Names -> FileEntries] /\ seals \in Seq([Names -> FileEntries])
      /\ Len(seals) <= 2 /\ Len(seals) \in Nat
  BY <1>1 DEF WorkspaceInv, WorkspaceTypeOK, SealsFaithful, Scans
<1>3. CASE ~(EnsureStable(scan.first, scan.got) /\ MatchesExpected(scan.first))
  BY <1>1, <1>3, RefuseKeeps DEF SealSnapshot
<1>4. CASE EnsureStable(scan.first, scan.got) /\ MatchesExpected(scan.first)
  <2>1. /\ seals' = Append(seals, scan.first) /\ UNCHANGED atListing
        /\ CASE Len(seals) = 0 -> walk' = "ready" /\ scan' = NoScan /\ UNCHANGED verdict
             [] Len(seals) = 1 -> /\ walk' = "scanning" /\ scan' = StartScan(1, Nothing)
                                  /\ UNCHANGED verdict
             [] OTHER -> /\ walk' = "cleaning" /\ scan' = NoScan
                         /\ verdict' = IF seals[1] = seals[2] /\ seals[2] = scan.first
                                       THEN "unchanged" ELSE "changed"
    BY <1>4 DEF SealSnapshot
  <2>2. seals' # <<>> /\ seals' \in Seq([Names -> FileEntries]) /\ Len(seals') = Len(seals) + 1
    BY <1>2, <2>1
  <2>3. seals = <<>> => scan.first = Expected
    <3>1. ASSUME seals = <<>>, NEW n \in Names PROVE scan.first[n] = Expected[n]
      <4>1. scan.first[n] = Missing \/ scan.first[n] = Expected[n]
        BY <1>1, <3>1 DEF WorkspaceInv, ReadAsExpected
      <4>2. scan.first[n].links = Expected[n].links
        BY <1>4 DEF MatchesExpected
      <4>3. n \in Files => Expected[n].links = 1
        <5>1. n \in Files => Expected[n] = [ino |-> n, content |-> 0, links |-> 1]
          BY EntryFacts
        <5>2. QED
          BY <5>1
      <4>4. n \notin Files => Expected[n] = Missing
        BY EntryFacts
      <4>5. Missing.links = 0
        BY DEF Missing
      <4>6. QED
        BY <4>1, <4>2, <4>3, <4>4, <4>5
    <3>2. QED
      BY <1>2, <3>1, EntryFacts
  <2>4. seals'[1] = Expected
    <3>1. CASE seals = <<>>
      BY <1>2, <2>1, <2>3, <3>1
    <3>2. CASE seals # <<>>
      BY <1>2, <2>1, <3>2 DEF WorkspaceInv, SealsFaithful
    <3>3. QED
      BY <3>1, <3>2
  <2>5. verdict = "none"
    BY <1>1 DEF WorkspaceInv, SealsFaithful
  <2>6. BuiltAsExpected'
    BY <1>1, <2>1, <2>2 DEF WorkspaceInv, BuiltAsExpected
  <2>7. RemovalHeld' /\ RemovedHonest'
    BY <1>1 DEF WorkspaceInv, RemovalHeld, RemovedHonest, Removal
  <2>8. CASE Len(seals) = 0 \/ Len(seals) = 1
    <3>1. /\ verdict' = "none"
          /\ \/ walk' = "ready" /\ scan' = NoScan
             \/ walk' = "scanning" /\ scan' = StartScan(1, Nothing)
      BY <2>1, <2>5, <2>8
    <3>2. scan' \in Scans /\ PassShape' /\ ReadAsExpected' /\ PassFaithful'
      <4>1. CASE scan' = StartScan(1, Nothing)
        BY <2>2, <4>1, ScanBegins, EntryFacts
      <4>2. CASE walk' = "ready" /\ scan' = NoScan
        <5>1. scan' \in Scans /\ PassShape'
          BY <4>2, ScanFacts DEF PassShape, NoScan, StartScan
        <5>2. QED
          BY <4>2, <5>1, NotScanning
      <4>3. QED
        BY <3>1, <4>1, <4>2
    <3>3. WorkspaceTypeOK'
      BY <1>1, <1>2, <2>1, <2>2, <2>8, <3>1, <3>2 DEF WorkspaceInv, WorkspaceTypeOK, Removal, Writer
    <3>4. SealsFaithful' /\ UnchangedTrue'
      <4>1. Len(seals') <= 2
        <5>1. \A k \in Nat : k = 0 \/ k = 1 => k + 1 <= 2
          OBVIOUS
        <5>2. QED
          BY <1>2, <2>2, <2>8, <5>1
      <4>2. QED
        BY <2>4, <3>1, <4>1 DEF SealsFaithful, UnchangedTrue
    <3>5. QED
      BY <2>6, <2>7, <3>2, <3>3, <3>4 DEF WorkspaceInv
  <2>9. CASE ~(Len(seals) = 0 \/ Len(seals) = 1)
    <3>1. /\ walk' = "cleaning" /\ scan' = NoScan
          /\ verdict' = IF seals[1] = seals[2] /\ seals[2] = scan.first
                        THEN "unchanged" ELSE "changed"
      BY <2>1, <2>9
    <3>2. scan' \in Scans /\ PassShape' /\ ReadAsExpected' /\ PassFaithful'
      <4>1. scan' \in Scans /\ PassShape'
        BY <3>1, ScanFacts DEF PassShape, NoScan, StartScan
      <4>2. QED
        BY <3>1, <4>1, NotScanning
    <3>3. UnchangedTrue'
      <4>1. seals # <<>> => seals[1] = Expected
        BY DEF WorkspaceInv, SealsFaithful
      <4>2. seals # <<>>
        BY <2>9
      <4>3. verdict' = "unchanged" => scan.got = Expected
        BY <1>4, <3>1, <4>1, <4>2 DEF EnsureStable
      <4>4. QED
        BY <1>1, <2>1, <4>3, SealMeans DEF UnchangedTrue
    <3>4. SealsFaithful'
      BY <2>4, <3>1 DEF SealsFaithful
    <3>5. WorkspaceTypeOK'
      BY <1>1, <1>2, <2>1, <2>2, <2>9, <3>1, <3>2 DEF WorkspaceInv, WorkspaceTypeOK, Removal, Writer
    <3>6. QED
      BY <2>6, <2>7, <3>2, <3>3, <3>4, <3>5 DEF WorkspaceInv
  <2>10. QED
    BY <2>8, <2>9
<1>5. QED
  BY <1>3, <1>4

-----------------------------------------------------------------------------
(* The removal and the writer                                                *)

\* A step of the removal runs after the inspections, so only the removal is in question.
LEMMA RemovalStep ==
  ASSUME WorkspaceConstants, WorkspaceInv, walk = "cleaning", walk' \in {"cleaning", "done"},
         UNCHANGED <<scan, seals, verdict, atListing, foreign, Writer>>,
         node' = node \/ node' = Nothing, cleanup' \in Cleanups,
         loc' \in {"work", "moved", "outside", "aside", "gone"},
         RemovalHeld', RemovedHonest'
  PROVE  WorkspaceInv'
<1>1. WorkspaceTypeOK'
  BY EntryFacts DEF WorkspaceInv, WorkspaceTypeOK, Writer
<1>2. BuiltAsExpected'
  BY DEF WorkspaceInv, BuiltAsExpected, Writer
<1>3. ReadAsExpected' /\ PassFaithful'
  BY NotScanning
<1>4. PassShape' /\ SealsFaithful' /\ UnchangedTrue'
  BY DEF WorkspaceInv, PassShape, SealsFaithful, UnchangedTrue
<1>5. QED
  BY <1>1, <1>2, <1>3, <1>4 DEF WorkspaceInv

\* The directory that Quarantine moves aside is the held one.
LEMMA QuarantineKeeps ==
  ASSUME WorkspaceInv, NEW next \in {"scrub", "remove"}, Quarantine(next), walk = "cleaning"
  PROVE  /\ cleanup' \in Cleanups /\ loc' \in {"work", "moved", "outside", "aside", "gone"}
         /\ RemovalHeld' /\ RemovedHonest'
<1>1. cleanup \in Cleanups /\ loc \in {"work", "moved", "outside", "aside", "gone"}
  BY DEF WorkspaceInv, WorkspaceTypeOK
<1>2. CASE cleanup.name # "none" /\ loc = cleanup.name
  <2>1. cleanup' = [cleanup EXCEPT !.step = next, !.held = TRUE] /\ loc' = "aside"
    BY <1>2 DEF Quarantine
  <2>2. cleanup' \in Cleanups /\ cleanup'.result = cleanup.result
    BY <1>1, <2>1 DEF Cleanups
  <2>3. loc # "gone"
    BY <1>1, <1>2 DEF Cleanups
  <2>4. QED
    BY <2>1, <2>2, <2>3 DEF WorkspaceInv, RemovalHeld, RemovedHonest
<1>3. CASE ~(cleanup.name # "none" /\ loc = cleanup.name)
  <2>1. /\ cleanup' = [cleanup EXCEPT !.step = next, !.failed = @ \/ cleanup.name # "none"]
        /\ loc' = loc
    BY <1>3 DEF Quarantine
  <2>2. cleanup' \in Cleanups /\ cleanup'.result = cleanup.result /\ cleanup'.held = cleanup.held
    BY <1>1, <2>1 DEF Cleanups
  <2>3. QED
    BY <1>1, <2>1, <2>2 DEF WorkspaceInv, RemovalHeld, RemovedHonest
<1>4. QED
  BY <1>2, <1>3

\* The removal: it reports success for the held directory only.
LEMMA RemovalKeeps ==
  ASSUME WorkspaceConstants, WorkspaceInv,
         MatchName \/ Isolate \/ Scrub \/ RetryIsolate \/ RemoveDirectory
  PROVE  WorkspaceInv'
<1>1. cleanup \in Cleanups /\ loc \in {"work", "moved", "outside", "aside", "gone"}
  BY DEF WorkspaceInv, WorkspaceTypeOK
<1>2. CASE MatchName
  <2>1. /\ walk = "cleaning" /\ UNCHANGED <<node, walk, scan, seals, verdict, atListing, loc, foreign, Writer>>
        /\ \/ cleanup' = [cleanup EXCEPT !.step = "isolate", !.name = HeldName]
           \/ cleanup' = [cleanup EXCEPT !.step = "isolate", !.failed = TRUE]
    BY <1>2 DEF MatchName
  <2>2. HeldName \in {"none", "work", "moved"}
    BY DEF HeldName
  <2>3. cleanup' \in Cleanups /\ cleanup'.result = cleanup.result /\ cleanup'.held = cleanup.held
    BY <1>1, <2>1, <2>2 DEF Cleanups
  <2>4. RemovalHeld' /\ RemovedHonest'
    BY <2>1, <2>3 DEF WorkspaceInv, RemovalHeld, RemovedHonest
  <2>5. QED
    BY <1>1, <2>1, <2>3, <2>4, RemovalStep
<1>3. CASE Isolate
  <2>1. /\ walk = "cleaning" /\ Quarantine("scrub")
        /\ UNCHANGED <<node, walk, scan, seals, verdict, atListing, foreign, Writer>>
    BY <1>3 DEF Isolate
  <2>2. QED
    BY <2>1, QuarantineKeeps, RemovalStep
<1>4. CASE Scrub
  <2>1. /\ walk = "cleaning" /\ UNCHANGED <<walk, scan, seals, verdict, atListing, loc, foreign, Writer>>
        /\ node' = node \/ node' = Nothing
        /\ \/ cleanup' = [cleanup EXCEPT !.step = "retry"]
           \/ cleanup' = [cleanup EXCEPT !.step = "retry", !.failed = TRUE]
    BY <1>4 DEF Scrub
  <2>2. cleanup' \in Cleanups /\ cleanup'.result = cleanup.result /\ cleanup'.held = cleanup.held
    BY <1>1, <2>1 DEF Cleanups
  <2>3. RemovalHeld' /\ RemovedHonest'
    BY <2>1, <2>2 DEF WorkspaceInv, RemovalHeld, RemovedHonest
  <2>4. QED
    BY <1>1, <2>1, <2>2, <2>3, RemovalStep
<1>5. CASE RetryIsolate
  <2>1. /\ walk = "cleaning"
        /\ UNCHANGED <<node, walk, scan, seals, verdict, atListing, foreign, Writer>>
    BY <1>5 DEF RetryIsolate
  <2>2. CASE cleanup.held
    <3>1. cleanup' = [cleanup EXCEPT !.step = "remove"] /\ loc' = loc
      BY <1>5, <2>2 DEF RetryIsolate
    <3>2. cleanup' \in Cleanups /\ cleanup'.result = cleanup.result /\ cleanup'.held = cleanup.held
      BY <1>1, <3>1 DEF Cleanups
    <3>3. RemovalHeld' /\ RemovedHonest'
      BY <3>1, <3>2 DEF WorkspaceInv, RemovalHeld, RemovedHonest
    <3>4. QED
      BY <1>1, <2>1, <3>1, <3>2, <3>3, RemovalStep
  <2>3. CASE ~cleanup.held
    <3>1. Quarantine("remove")
      BY <1>5, <2>3 DEF RetryIsolate
    <3>2. QED
      BY <2>1, <3>1, QuarantineKeeps, RemovalStep
  <2>4. QED
    BY <2>2, <2>3
<1>6. CASE RemoveDirectory
  <2>1. /\ walk = "cleaning" /\ walk' = "done"
        /\ UNCHANGED <<node, scan, seals, verdict, atListing, foreign, Writer>>
        /\ \/ /\ cleanup.held /\ cleanup' = [cleanup EXCEPT !.step = "ended", !.result = "ok"]
              /\ loc' = IF loc = "aside" THEN "gone" ELSE loc
           \/ cleanup' = [cleanup EXCEPT !.step = "ended", !.result = "error"] /\ loc' = loc
    BY <1>6 DEF RemoveDirectory
  <2>2. cleanup' \in Cleanups /\ cleanup'.held = cleanup.held
    BY <1>1, <2>1 DEF Cleanups
  <2>3. cleanup'.result = "ok" => loc' = "gone"
    BY <1>1, <2>1 DEF WorkspaceInv, RemovalHeld, Cleanups
  <2>4. RemovalHeld'
    BY <2>1, <2>2 DEF WorkspaceInv, RemovalHeld
  <2>5. QED
    BY <1>1, <2>1, <2>2, <2>3, <2>4, RemovalStep DEF RemovedHonest
<1>7. QED
  BY <1>2, <1>3, <1>4, <1>5, <1>6

\* A file that the writer touched is not as it was built.
LEMMA NeverRestored ==
  ASSUME WorkspaceConstants, WorkspaceInv, NEW n \in Names,
         Rewrite(n) \/ Replace(n) \/ LinkFile(n) \/ RemoveFile(n) \/ CreateNew(n)
  PROVE  /\ node' \in [Names -> FileEntries]
         /\ \A m \in Names : m # n => node'[m] = node[m]
         /\ n \in Files => node'[n] # Expected[n]
<1>1. node \in [Names -> FileEntries] /\ node[n] \in FileEntries /\ writes \in Nat
  BY DEF WorkspaceInv, WorkspaceTypeOK
<1>2. PICK e : node' = [node EXCEPT ![n] = e]
  BY DEF Rewrite, Replace, LinkFile, RemoveFile, CreateNew
<1>3. node'[n] \in FileEntries /\ (n \in Files => node'[n] # Expected[n])
  <2>1. n \in Files => /\ Expected[n] = [ino |-> n, content |-> 0, links |-> 1]
                       /\ n \in Nat
    BY EntryFacts, NameFacts
  <2>2. Present(n) => node[n] \in [ino : Int, content : Nat, links : 1 .. 2]
    BY <1>1 DEF Present, FileEntries, Missing
  <2>3. CASE Rewrite(n)
    <3>1. node'[n] = [node[n] EXCEPT !.content = writes + 1] /\ Present(n)
      BY <1>1, <2>3 DEF Rewrite
    <3>2. QED
      BY <1>1, <2>1, <2>2, <3>1 DEF FileEntries
  <2>4. CASE Replace(n)
    <3>1. node'[n] = [node[n] EXCEPT !.ino = -(writes + 1)] /\ Present(n)
      BY <1>1, <2>4 DEF Replace, Fresh
    <3>2. QED
      BY <1>1, <2>1, <2>2, <3>1 DEF FileEntries
  <2>5. CASE LinkFile(n)
    <3>1. node'[n] = [node[n] EXCEPT !.links = 2] /\ Present(n)
      BY <1>1, <2>5 DEF LinkFile
    <3>2. QED
      BY <1>1, <2>1, <2>2, <3>1 DEF FileEntries
  <2>6. CASE RemoveFile(n)
    <3>1. node'[n] = Missing
      BY <1>1, <2>6 DEF RemoveFile
    <3>2. QED
      BY <2>1, <3>1 DEF FileEntries, Missing
  <2>7. CASE CreateNew(n)
    <3>1. node'[n] = [ino |-> -(writes + 1), content |-> writes + 1, links |-> 1]
      BY <1>1, <2>7 DEF CreateNew, Fresh
    <3>2. QED
      BY <1>1, <2>1, <3>1 DEF FileEntries
  <2>8. QED
    BY <2>3, <2>4, <2>5, <2>6, <2>7
<1>4. QED
  BY <1>1, <1>2, <1>3

\* The writer changes files after the first seal only, and never back.
LEMMA EditKeeps ==
  ASSUME WorkspaceConstants, WorkspaceInv, Edit
  PROVE  WorkspaceInv'
<1>1. PICK n \in Names :
        Rewrite(n) \/ Replace(n) \/ LinkFile(n) \/ RemoveFile(n) \/ CreateNew(n)
  BY DEF Edit
<1>2. /\ seals # <<>> /\ writes' = writes + 1
      /\ UNCHANGED <<walk, scan, seals, verdict, atListing, Removal, moves>>
  BY <1>1 DEF Rewrite, Replace, LinkFile, RemoveFile, CreateNew, Editing
<1>3. /\ node' \in [Names -> FileEntries]
      /\ \A m \in Names : m # n => node'[m] = node[m]
      /\ n \in Files => node'[n] # Expected[n]
  BY <1>1, NeverRestored
<1>4. WorkspaceTypeOK'
  BY <1>2, <1>3 DEF WorkspaceInv, WorkspaceTypeOK, Removal
<1>5. BuiltAsExpected' /\ ReadAsExpected'
  BY <1>2 DEF WorkspaceInv, BuiltAsExpected, ReadAsExpected
<1>6. PassFaithful'
  <2>1. \A m \in Files : node'[m] = Expected[m] => node[m] = Expected[m]
    BY <1>3, NameFacts
  <2>2. QED
    BY <1>2, <2>1 DEF WorkspaceInv, PassFaithful
<1>7. PassShape' /\ SealsFaithful' /\ RemovalHeld' /\ UnchangedTrue' /\ RemovedHonest'
  BY <1>2 DEF WorkspaceInv, PassShape, SealsFaithful, RemovalHeld, UnchangedTrue, RemovedHonest,
              Removal
<1>8. QED
  BY <1>4, <1>5, <1>6, <1>7 DEF WorkspaceInv

\* Whatever happens to the directory's names, a directory moved aside stays there.
LEMMA MoveKeeps ==
  ASSUME WorkspaceConstants, WorkspaceInv, Move
  PROVE  WorkspaceInv'
<1>1. /\ UNCHANGED <<node, walk, scan, seals, verdict, atListing, cleanup, writes>>
      /\ moves' = moves + 1
      /\ \/ loc' = loc /\ foreign' = TRUE
         \/ loc \in {"work", "moved"} /\ loc' \in {"work", "moved", "outside"} /\ foreign' = foreign
  BY DEF Move, TakeName, MoveDirectory
<1>2. WorkspaceTypeOK'
  <2>1. loc' \in {"work", "moved", "outside", "aside", "gone"} /\ foreign' \in BOOLEAN
    BY <1>1 DEF WorkspaceInv, WorkspaceTypeOK
  <2>2. moves' \in Nat
    BY <1>1 DEF WorkspaceInv, WorkspaceTypeOK
  <2>3. QED
    BY <1>1, <2>1, <2>2 DEF WorkspaceInv, WorkspaceTypeOK
<1>3. BuiltAsExpected' /\ ReadAsExpected' /\ PassFaithful' /\ PassShape'
  BY <1>1 DEF WorkspaceInv, BuiltAsExpected, ReadAsExpected, PassFaithful, PassShape
<1>4. SealsFaithful' /\ RemovalHeld' /\ UnchangedTrue' /\ RemovedHonest'
  BY <1>1 DEF WorkspaceInv, SealsFaithful, RemovalHeld, UnchangedTrue, RemovedHonest
<1>5. QED
  BY <1>2, <1>3, <1>4 DEF WorkspaceInv

-----------------------------------------------------------------------------
\* The invariant of the candidate workspace: nothing changes before the first
\* seal, every pass tells the truth about its listing, and only the held
\* directory is removed.
THEOREM WorkspaceInvariant ==
  ASSUME WorkspaceConstants
  PROVE  WorkspaceSpec => []WorkspaceInv
<1>1. WorkspaceInit => WorkspaceInv
  BY WorkspaceStarts
<1>2. WorkspaceInv /\ [WorkspaceNext]_candidateVars => WorkspaceInv'
  <2>1. SUFFICES ASSUME WorkspaceInv, [WorkspaceNext]_candidateVars PROVE WorkspaceInv'
    OBVIOUS
  <2>2. CASE Carl
    <3>1. CASE \E n \in Files : CreateFile(n)
      BY <2>1, <3>1, CreateFileKeeps
    <3>2. CASE ReconstructFails \/ Reconstructed \/ Executed \/ Abandon
      BY <2>1, <3>2, TurningPoints
    <3>3. CASE ListEntries
      BY <2>1, <3>3, ListEntriesKeeps
    <3>4. CASE ReadFile
      BY <2>1, <3>4, ReadFileKeeps
    <3>5. CASE ConfirmFile
      BY <2>1, <3>5, ConfirmFileKeeps
    <3>6. CASE SecondPass
      BY <2>1, <3>6, SecondPassKeeps
    <3>7. CASE SealSnapshot
      BY <2>1, <3>7, SealSnapshotKeeps
    <3>8. CASE MatchName \/ Isolate \/ Scrub \/ RetryIsolate \/ RemoveDirectory
      BY <2>1, <3>8, RemovalKeeps
    <3>9. QED
      BY <2>2, <3>1, <3>2, <3>3, <3>4, <3>5, <3>6, <3>7, <3>8 DEF Carl
  <2>3. CASE Edit
    BY <2>1, <2>3, EditKeeps
  <2>4. CASE Move
    BY <2>1, <2>4, MoveKeeps
  <2>5. CASE UNCHANGED candidateVars
    BY <2>1, <2>5 DEF candidateVars, WorkspaceInv, WorkspaceTypeOK, BuiltAsExpected,
         ReadAsExpected, PassShape, PassFaithful, SealsFaithful, RemovalHeld, UnchangedTrue,
         RemovedHonest
  <2>6. QED
    BY <2>1, <2>2, <2>3, <2>4, <2>5 DEF WorkspaceNext
<1>3. QED
  BY <1>1, <1>2, PTL DEF WorkspaceSpec

\* A candidate called unchanged held exactly the expected files when the second
\* scan of its last inspection listed it, and a removal called successful
\* removed the held directory (execute_verification, cleanup_disposable_directory).
THEOREM CandidateIsHonest ==
  ASSUME WorkspaceConstants
  PROVE  WorkspaceSpec => []CandidateHonest
<1>1. WorkspaceInv => CandidateHonest
  BY DEF WorkspaceInv, CandidateHonest
<1>2. QED
  BY <1>1, WorkspaceInvariant, PTL

-----------------------------------------------------------------------------
(***************************************************************************)
(* The context package, for every window, every budget and all lists of     *)
(* units.                                                                   *)
(***************************************************************************)
-----------------------------------------------------------------------------
(* Sums of token counts                                                      *)

\* A set of numbers has a least element.
LEMMA LeastMember ==
  ASSUME NEW s, s \subseteq Nat, s # {}
  PROVE  \E n \in s : \A m \in s : n <= m
<1> DEFINE R == {p \in Nat \X Nat : p[1] < p[2]}
<1>1. IsWellFoundedOn(R, Nat)
  BY NatLessThanWellFounded, Zenon DEF OpToRel
<1>2. PICK n \in s : \A m \in s : <<m, n>> \notin R
  <2> HIDE DEF R
  <2>1. QED
    BY <1>1, WFMin, Zenon
<1>3. ASSUME NEW m \in s PROVE n <= m
  <2>1. m \in Nat /\ n \in Nat
    OBVIOUS
  <2>2. ASSUME m < n PROVE <<m, n>> \in R
    BY <2>1, <2>2
  <2>3. QED
    BY <1>2, <2>1, <2>2
<1>4. QED
  BY <1>3

\* f is the function of the partial sums of the first L members of w.
IsSum(f, w, L) == f = [n \in 0 .. L |-> IF n = 0 THEN 0 ELSE f[n - 1] + w[n]]

\* Partial sums of numbers are numbers.
LEMMA SumIsNat ==
  ASSUME NEW f, NEW w, NEW L \in Nat, w \in [1 .. L -> Nat], IsSum(f, w, L)
  PROVE  f \in [0 .. L -> Nat]
<1> DEFINE B == {n \in 0 .. L : f[n] \notin Nat}
<1>1. \A n \in 0 .. L : f[n] = IF n = 0 THEN 0 ELSE f[n - 1] + w[n]
  BY DEF IsSum
<1>2. ASSUME B # {} PROVE FALSE
  <2>1. PICK n \in B : \A m \in B : n <= m
    <3>1. B \subseteq Nat
      OBVIOUS
    <3> HIDE DEF B
    <3>2. QED
      BY <1>2, <3>1, LeastMember, Zenon
  <2>2. n # 0
    BY <1>1, <2>1
  <2>3. n - 1 \in 0 .. L /\ n - 1 \notin B /\ n \in 1 .. L
    BY <2>1, <2>2
  <2>4. f[n - 1] \in Nat /\ w[n] \in Nat
    BY <2>3
  <2>5. f[n] = f[n - 1] + w[n]
    BY <1>1, <2>2, <2>3
  <2>6. QED
    BY <2>1, <2>4, <2>5
<1>3. QED
  BY <1>2 DEF IsSum

\* The partial sums exist.
LEMMA SumExists ==
  ASSUME NEW w, NEW L \in Nat, w \in [1 .. L -> Nat]
  PROVE  \E f : IsSum(f, w, L)
<1> DEFINE B == {n \in 0 .. L : \A f : ~IsSum(f, w, n)}
<1>1. ASSUME B # {} PROVE FALSE
  <2>1. PICK n \in B : \A m \in B : n <= m
    <3>1. B \subseteq Nat
      OBVIOUS
    <3> HIDE DEF B
    <3>2. QED
      BY <1>1, <3>1, LeastMember, Zenon
  <2>2. n # 0
    <3>1. IsSum([i \in 0 .. 0 |-> 0], w, 0)
      BY DEF IsSum
    <3>2. QED
      BY <2>1, <3>1
  <2>3. n - 1 \in 0 .. L /\ n - 1 \notin B
    BY <2>1, <2>2
  <2>4. PICK g : IsSum(g, w, n - 1)
    BY <2>3
  <2> DEFINE h == [i \in 0 .. n |-> IF i = n THEN g[n - 1] + w[n] ELSE g[i]]
  <2>5. ASSUME NEW i \in 0 .. n PROVE h[i] = IF i = 0 THEN 0 ELSE h[i - 1] + w[i]
    <3>1. CASE i = n
      BY <2>1, <2>2, <3>1
    <3>2. CASE i # n
      <4>1. i \in 0 .. (n - 1) /\ h[i] = g[i]
        BY <2>1, <3>2
      <4>2. g[i] = IF i = 0 THEN 0 ELSE g[i - 1] + w[i]
        BY <2>4, <4>1 DEF IsSum
      <4>3. i # 0 => i - 1 \in 0 .. n /\ i - 1 # n
        BY <2>1, <4>1
      <4>4. QED
        BY <4>1, <4>2, <4>3
    <3>3. QED
      BY <3>1, <3>2
  <2>6. h = [i \in 0 .. n |-> IF i = 0 THEN 0 ELSE h[i - 1] + w[i]]
    BY <2>5
  <2>7. IsSum(h, w, n)
    BY <2>6 DEF IsSum
  <2>8. QED
    BY <2>1, <2>7
<1>2. QED
  BY <1>1

\* Sums of the same members agree.
LEMMA SumsAgree ==
  ASSUME NEW f, NEW g, NEW w, NEW v, NEW L \in Nat, NEW M \in Nat, L <= M,
         IsSum(f, w, L), IsSum(g, v, M), \A n \in 1 .. L : w[n] = v[n]
  PROVE  \A n \in 0 .. L : f[n] = g[n]
<1> DEFINE B == {n \in 0 .. L : f[n] # g[n]}
<1>1. ASSUME B # {} PROVE FALSE
  <2>1. PICK n \in B : \A m \in B : n <= m
    <3>1. B \subseteq Nat
      OBVIOUS
    <3> HIDE DEF B
    <3>2. QED
      BY <1>1, <3>1, LeastMember, Zenon
  <2>2. f[n] = (IF n = 0 THEN 0 ELSE f[n - 1] + w[n]) /\ n \in 0 .. M
        /\ g[n] = (IF n = 0 THEN 0 ELSE g[n - 1] + v[n])
    BY <2>1 DEF IsSum
  <2>3. n # 0
    BY <2>1, <2>2
  <2>4. n - 1 \in 0 .. L /\ n - 1 \notin B /\ n \in 1 .. L
    BY <2>1, <2>3
  <2>5. QED
    BY <2>1, <2>2, <2>3, <2>4
<1>2. QED
  BY <1>1

\* The token counts of the entries of l at the places in S, 0 elsewhere.
Weights(l, S) == [n \in 1 .. Len(l) |-> IF n \in S THEN l[n].source.size ELSE 0]

\* Sequences of entries with token counts.
Counted(l) == Len(l) \in Nat /\ \A n \in 1 .. Len(l) : l[n].source.size \in Nat

\* Tokens is a sum.
LEMMA TokensAreSum ==
  ASSUME NEW l, NEW S, Counted(l)
  PROVE  /\ Weights(l, S) \in [1 .. Len(l) -> Nat]
         /\ \E f : IsSum(f, Weights(l, S), Len(l)) /\ Tokens(l, S) = f[Len(l)]
<1>1. Weights(l, S) \in [1 .. Len(l) -> Nat]
  BY DEF Counted, Weights
<1> DEFINE sum == CHOOSE f : f = [n \in 0 .. Len(l) |->
                     IF n = 0 THEN 0 ELSE f[n - 1] + (IF n \in S THEN l[n].source.size ELSE 0)]
<1>2. Tokens(l, S) = sum[Len(l)]
  BY DEF Tokens
<1>3. PICK g : IsSum(g, Weights(l, S), Len(l))
  BY <1>1, SumExists DEF Counted
<1>4. ASSUME NEW f PROVE IsSum(f, Weights(l, S), Len(l)) <=>
        f = [n \in 0 .. Len(l) |->
                     IF n = 0 THEN 0 ELSE f[n - 1] + (IF n \in S THEN l[n].source.size ELSE 0)]
  <2>1. \A n \in 0 .. Len(l) : n # 0 => Weights(l, S)[n] = IF n \in S THEN l[n].source.size ELSE 0
    BY DEF Weights, Counted
  <2>2. QED
    BY <2>1 DEF IsSum
<1>5. IsSum(sum, Weights(l, S), Len(l))
  BY <1>3, <1>4
<1>6. QED
  BY <1>1, <1>2, <1>5

\* The tokens of a list depend only on which of its places are counted.
LEMMA TokensSame ==
  ASSUME NEW l, NEW S, NEW T, Counted(l), \A n \in 1 .. Len(l) : n \in S <=> n \in T
  PROVE  Tokens(l, S) = Tokens(l, T)
<1>1. PICK f : IsSum(f, Weights(l, S), Len(l)) /\ Tokens(l, S) = f[Len(l)]
  BY TokensAreSum
<1>2. PICK g : IsSum(g, Weights(l, T), Len(l)) /\ Tokens(l, T) = g[Len(l)]
  BY TokensAreSum
<1>3. Weights(l, S) = Weights(l, T)
  BY DEF Weights
<1>4. Len(l) \in Nat
  BY DEF Counted
<1>5. \A n \in 0 .. Len(l) : f[n] = g[n]
  BY <1>1, <1>2, <1>3, <1>4, SumsAgree
<1>6. QED
  BY <1>1, <1>2, <1>4, <1>5

\* The tokens of a list are a number.
LEMMA TokensType ==
  ASSUME NEW l, NEW S, Counted(l)
  PROVE  Tokens(l, S) \in Nat
<1>1. PICK f : IsSum(f, Weights(l, S), Len(l)) /\ Tokens(l, S) = f[Len(l)]
  BY TokensAreSum
<1>2. Weights(l, S) \in [1 .. Len(l) -> Nat] /\ Len(l) \in Nat
  BY TokensAreSum DEF Counted
<1>3. f \in [0 .. Len(l) -> Nat]
  BY <1>1, <1>2, SumIsNat
<1>4. QED
  BY <1>1, <1>2, <1>3

\* An empty list has no tokens.
LEMMA TokensEmpty ==
  ASSUME NEW S
  PROVE  Tokens(<<>>, S) = 0
<1>1. Counted(<<>>)
  BY DEF Counted
<1>2. PICK f : IsSum(f, Weights(<<>>, S), Len(<<>>)) /\ Tokens(<<>>, S) = f[Len(<<>>)]
  BY <1>1, TokensAreSum
<1>3. QED
  BY <1>2 DEF IsSum

\* One more entry adds its tokens, when its place is counted.
LEMMA TokensAppend ==
  ASSUME NEW X, NEW l \in Seq(X), NEW e \in X, NEW S, Counted(l), e.source.size \in Nat
  PROVE  /\ Counted(Append(l, e))
         /\ Tokens(Append(l, e), S) = Tokens(l, S) + IF Len(l) + 1 \in S THEN e.source.size ELSE 0
<1> DEFINE m == Append(l, e)
           N == Len(l)
<1>1. N \in Nat /\ Len(m) = N + 1 /\ m[N + 1] = e /\ \A n \in 1 .. N : m[n] = l[n]
  OBVIOUS
<1>2. Counted(m)
  BY <1>1 DEF Counted
<1> HIDE DEF m, N
<1>3. PICK f : IsSum(f, Weights(l, S), N) /\ Tokens(l, S) = f[N]
  BY TokensAreSum DEF N
<1>4. PICK g : IsSum(g, Weights(m, S), N + 1) /\ Tokens(m, S) = g[N + 1]
  BY <1>1, <1>2, TokensAreSum
<1>5. \A n \in 1 .. N : Weights(l, S)[n] = Weights(m, S)[n]
  BY <1>1 DEF Weights, N
<1>6. f[N] = g[N]
  <2>1. \A n \in 0 .. N : f[n] = g[n]
    BY <1>1, <1>3, <1>4, <1>5, SumsAgree
  <2>2. QED
    BY <1>1, <2>1
<1>7. g[N + 1] = g[N] + Weights(m, S)[N + 1]
  <2>1. N + 1 \in 0 .. (N + 1) /\ N + 1 # 0 /\ (N + 1) - 1 = N
    BY <1>1
  <2>2. QED
    BY <1>4, <2>1 DEF IsSum
<1>8. Weights(m, S)[N + 1] = IF N + 1 \in S THEN e.source.size ELSE 0
  BY <1>1 DEF Weights
<1>9. QED
  BY <1>2, <1>3, <1>4, <1>6, <1>7, <1>8 DEF m, N

-----------------------------------------------------------------------------
(* The inductive invariant                                                   *)

\* The two mandatory sources.
FixedSource == Source(Base.fixed, "fixed", "mandatory", "none", 0, fixed)
ObjectiveSource == Source(Base.objective, "objective", "mandatory", "none", 0, objective)

\* Entry k of l is the included heading of section p.
HeadAt(l, k, p) == l[k].source.form = "heading" /\ l[k].source.part = p /\ l[k].included

\* The places of the included entries.
IncludedPlaces == {k \in DOMAIN ledger : ledger[k].included}

\* Sources are taken in the order of their places.
TakenInOrder == \A s \in Sources \ todo, t \in todo : s.at < t.at

\* The ledger holds exactly the sources taken, in their order.
Recorded ==
    /\ \A k \in DOMAIN ledger : ledger[k].source \in Sources \ todo
    /\ \A s \in Sources \ todo : \E k \in DOMAIN ledger : ledger[k].source = s
    /\ \A j, k \in DOMAIN ledger : j < k => ledger[j].source.at < ledger[k].source.at

\* Until it is taken, the objective keeps its room.
Budgeted ==
    outcome \in {"assembling", "package"} =>
        /\ objective <= TargetTokens /\ total <= TargetTokens
        /\ ObjectiveSource \in todo => total <= TrustedLimit
        /\ FixedSource \in todo => total = 0
        /\ FixedSource \notin todo => fixed <= TrustedLimit

\* The running total is what the included entries cost.
AddsUp == total = Tokens(ledger, IncludedPlaces)

\* While a section has sources left, shown tells whether its heading is in.
SectionOpen ==
    \A p \in Sections :
        Heading(p) \notin todo /\ (\E s \in todo : s.part = p) =>
          (shown <=> \E h \in DOMAIN ledger : HeadAt(ledger, h, p))

\* An included unit follows its included heading.
Headed ==
    \A k \in DOMAIN ledger : ledger[k].included /\ IsUnit(ledger[k].source) =>
        \E h \in 1 .. (k - 1) : HeadAt(ledger, h, ledger[k].source.part)

\* The included trusted entries of l before place i.
TrustedBefore(l, i) == {k \in 1 .. (i - 1) : l[k].included /\ l[k].source.part # "untrusted"}

\* TrustedFirst, at every moment of the assembly.
TrustedRule ==
    \A i \in DOMAIN ledger :
        IsUnit(ledger[i].source) /\ ledger[i].source.part # "untrusted" =>
          (ledger[i].included <=>
             /\ \E h \in 1 .. (i - 1) : HeadAt(ledger, h, ledger[i].source.part)
             /\ Tokens(ledger, TrustedBefore(ledger, i)) + ledger[i].source.size <= TargetTokens - objective)

\* What the outcome says.
AtEnd ==
    /\ outcome = "package" => todo = {}
    /\ outcome = "exceeds" => fixed + objective > TargetTokens

\* The inductive invariant.
AssemblyInv ==
    /\ ContextTypeOK /\ TakenInOrder /\ Recorded /\ Budgeted /\ AddsUp
    /\ SectionOpen /\ Headed /\ TrustedRule /\ AtEnd

-----------------------------------------------------------------------------
(* The sources and their places                                              *)

\* The inputs of an assembly.
InputsOK ==
    /\ window \in Windows /\ fixed \in Sizes /\ objective \in Sizes
    /\ recent \in Lists /\ retrieved \in Lists

\* The lists are finite and their units are units.
LEMMA ListsType ==
  ASSUME BudgetConstants, NEW l \in Lists
  PROVE  /\ Len(l) \in Nat /\ DOMAIN l = 1 .. Len(l)
         /\ \A i \in 1 .. Len(l) : l[i] \in Units
<1>1. PICK n \in 0 .. MaxUnits : l \in [1 .. n -> Units]
  BY DEF Lists
<1>2. n \in Nat
  BY <1>1 DEF BudgetConstants
<1>3. Len(l) = n
  BY <1>1, <1>2
<1>4. QED
  BY <1>1, <1>2, <1>3

\* The target lies below the trigger and below the window.
LEMMA TargetIsLess ==
  ASSUME BudgetConstants, InputsOK
  PROVE  TargetTokens \in Nat /\ TriggerTokens \in Nat /\ window \in Nat
         /\ TargetTokens < TriggerTokens /\ TargetTokens < window
<1>1. /\ window \in Nat \ {0} /\ TriggerPercent \in 1 .. 100
      /\ TargetPercent \in Nat /\ TargetPercent + 1 <= TriggerPercent
  BY DEF BudgetConstants, InputsOK
<1> DEFINE x == window * TargetPercent
           y == window * TriggerPercent
<1>2. x \in Nat /\ y \in Nat /\ x < y /\ y <= 100 * window
  <2>1. x \in Nat /\ y \in Nat
    BY <1>1
  <2>2. y - x = window * (TriggerPercent - TargetPercent)
    BY <1>1
  <2>3. window * (TriggerPercent - TargetPercent) >= 1
    BY <1>1
  <2>4. window * (100 - TriggerPercent) >= 0
    BY <1>1
  <2>5. window * (100 - TriggerPercent) = 100 * window - y
    BY <1>1
  <2> HIDE DEF x, y
  <2>6. QED
    BY <1>1, <2>1, <2>2, <2>3, <2>4, <2>5
<1>3. TargetTokens = x \div 100 /\ TriggerTokens = (y + 99) \div 100
  BY DEF TargetTokens, TriggerTokens
<1> HIDE DEF x, y
<1>4. QED
  BY <1>1, <1>2, <1>3

\* The places of the sections.
LEMMA BaseValues ==
  /\ Base["fixed"] = 0 /\ Base["recent"] = 1 /\ Base["retrieved"] = 2 + Len(recent)
  /\ Base["objective"] = 3 + Len(recent) + Len(retrieved)
  /\ Base["untrusted"] = 4 + Len(recent) + Len(retrieved)
  /\ Base.fixed = 0 /\ Base.objective = 3 + Len(recent) + Len(retrieved)
BY DEF Base

\* The source at each place.
SourceAt(n) ==
    LET a == Len(recent)
        b == Len(retrieved)
    IN  IF n = 0 THEN FixedSource
        ELSE IF n = 1 THEN Heading("recent")
        ELSE IF n <= 1 + a THEN UnitSource("recent", n - 1, recent[n - 1])
        ELSE IF n = 2 + a THEN Heading("retrieved")
        ELSE IF n <= 2 + a + b THEN UnitSource("retrieved", n - 2 - a, retrieved[n - 2 - a])
        ELSE IF n = 3 + a + b THEN ObjectiveSource
        ELSE IF n = 4 + a + b THEN Heading("untrusted")
        ELSE IF n <= 4 + a + b + a THEN UnitSource("recent", n - 4 - a - b, recent[n - 4 - a - b])
        ELSE UnitSource("retrieved", n - 4 - a - b - a, retrieved[n - 4 - a - b - a])

\* Every source is one of these.
LEMMA SourceShape ==
  ASSUME NEW s \in Sources
  PROVE  \/ s = FixedSource
         \/ s = ObjectiveSource
         \/ \E p \in Sections : s = Heading(p)
         \/ \E i \in DOMAIN recent : s = UnitSource("recent", i, recent[i])
         \/ \E i \in DOMAIN retrieved : s = UnitSource("retrieved", i, retrieved[i])
BY DEF Sources, Mandatories, UnitSources, FixedSource, ObjectiveSource

\* What is known of the source of a unit, in the four places it may have.
LEMMA UnitShape ==
  ASSUME BudgetConstants, InputsOK, NEW l \in {"recent", "retrieved"}, NEW i,
         i \in DOMAIN (IF l = "recent" THEN recent ELSE retrieved)
  PROVE  LET u == (IF l = "recent" THEN recent ELSE retrieved)[i]
             s == UnitSource(l, i, u)
         IN  /\ u \in Units /\ s.list = l /\ s.unit = i /\ s.form = u.form /\ s.size = u.size
             /\ i \in 1 .. Len(IF l = "recent" THEN recent ELSE retrieved)
             /\ u.trust = "trusted" /\ l = "recent" => s.part = "recent" /\ s.at = 1 + i
             /\ u.trust = "trusted" /\ l = "retrieved" => s.part = "retrieved" /\ s.at = 2 + Len(recent) + i
             /\ u.trust # "trusted" => s.part = "untrusted"
             /\ u.trust # "trusted" /\ l = "recent" => s.at = 4 + Len(recent) + Len(retrieved) + i
             /\ u.trust # "trusted" /\ l = "retrieved" =>
                  s.at = 4 + Len(recent) + Len(retrieved) + Len(recent) + i
<1> DEFINE v == IF l = "recent" THEN recent ELSE retrieved
           u == v[i]
           s == UnitSource(l, i, u)
<1>1. v \in Lists
  BY DEF InputsOK
<1>2. i \in 1 .. Len(v) /\ u \in Units /\ Len(v) \in Nat
  BY <1>1, ListsType
<1>3. Len(recent) \in Nat /\ Len(retrieved) \in Nat
  BY ListsType DEF InputsOK
<1>4. /\ s.list = l /\ s.unit = i /\ s.form = u.form /\ s.size = u.size
      /\ s.part = Part(l, u) /\ s.at = Base[Part(l, u)] + Shift(l, u) + i
  BY DEF UnitSource, Source
<1> HIDE DEF s, u
<1>5. u.trust = "trusted" => Part(l, u) = l /\ Shift(l, u) = 0
  BY DEF Part, Shift
<1>6. u.trust # "trusted" => Part(l, u) = "untrusted" /\ Shift(l, u) = IF l = "retrieved" THEN Len(recent) ELSE 0
  BY DEF Part, Shift
<1>7. u.trust = "trusted" /\ l = "recent" => s.part = "recent" /\ s.at = 1 + i
  BY <1>2, <1>4, <1>5, BaseValues
<1>8. u.trust = "trusted" /\ l = "retrieved" => s.part = "retrieved" /\ s.at = 2 + Len(recent) + i
  BY <1>2, <1>3, <1>4, <1>5, BaseValues
<1>9. u.trust # "trusted" => s.part = "untrusted"
  BY <1>4, <1>6
<1>10. u.trust # "trusted" /\ l = "recent" => s.at = 4 + Len(recent) + Len(retrieved) + i
  BY <1>2, <1>3, <1>4, <1>6, BaseValues
<1>11. u.trust # "trusted" /\ l = "retrieved" =>
         s.at = 4 + Len(recent) + Len(retrieved) + Len(recent) + i
  BY <1>2, <1>3, <1>4, <1>6, BaseValues
<1>12. QED
  BY <1>2, <1>4, <1>7, <1>8, <1>9, <1>10, <1>11 DEF s, u

\* What a unit may be.
UnitForms == {"text", "tool", "secret"}

\* A source of a unit of list l at place n of section p.
IsUnitAt(s, l, i, p, n) ==
    /\ s.list = l /\ s.unit = i /\ s.part = p /\ s.at = n /\ s.form \in UnitForms /\ s.size \in Sizes
    /\ s = UnitSource(l, i, (IF l = "recent" THEN recent ELSE retrieved)[i])

\* The nine kinds of sources, in the order of their places.
LEMMA SourceKinds ==
  ASSUME BudgetConstants, InputsOK, NEW s \in Sources, NEW a, a = Len(recent), NEW b, b = Len(retrieved)
  PROVE  \/ s = FixedSource
         \/ s = Heading("recent")
         \/ \E i \in 1 .. a : IsUnitAt(s, "recent", i, "recent", 1 + i)
         \/ s = Heading("retrieved")
         \/ \E i \in 1 .. b : IsUnitAt(s, "retrieved", i, "retrieved", 2 + a + i)
         \/ s = ObjectiveSource
         \/ s = Heading("untrusted")
         \/ \E i \in 1 .. a : IsUnitAt(s, "recent", i, "untrusted", 4 + a + b + i)
         \/ \E i \in 1 .. b : IsUnitAt(s, "retrieved", i, "untrusted", 4 + a + b + a + i)
<1>1. CASE \E i \in DOMAIN recent : s = UnitSource("recent", i, recent[i])
  <2>1. PICK i \in DOMAIN recent : s = UnitSource("recent", i, recent[i])
    BY <1>1
  <2> DEFINE u == recent[i]
  <2>2. /\ u \in Units /\ s.list = "recent" /\ s.unit = i /\ s.form = u.form /\ s.size = u.size
        /\ i \in 1 .. a
        /\ u.trust = "trusted" => s.part = "recent" /\ s.at = 1 + i
        /\ u.trust # "trusted" => s.part = "untrusted" /\ s.at = 4 + a + b + i
    BY <2>1, UnitShape
  <2>3. s.form \in UnitForms /\ s.size \in Sizes
    BY <2>2 DEF Units, UnitForms
  <2>4. IsUnitAt(s, "recent", i, "recent", 1 + i) \/ IsUnitAt(s, "recent", i, "untrusted", 4 + a + b + i)
    <3> HIDE DEF u
    <3>1. QED
      BY <2>1, <2>2, <2>3 DEF IsUnitAt
  <2>5. QED
    BY <2>2, <2>4
<1>2. CASE \E i \in DOMAIN retrieved : s = UnitSource("retrieved", i, retrieved[i])
  <2>1. PICK i \in DOMAIN retrieved : s = UnitSource("retrieved", i, retrieved[i])
    BY <1>2
  <2> DEFINE u == retrieved[i]
  <2>2. /\ u \in Units /\ s.list = "retrieved" /\ s.unit = i /\ s.form = u.form /\ s.size = u.size
        /\ i \in 1 .. b
        /\ u.trust = "trusted" => s.part = "retrieved" /\ s.at = 2 + a + i
        /\ u.trust # "trusted" => s.part = "untrusted" /\ s.at = 4 + a + b + a + i
    BY <2>1, UnitShape
  <2>3. s.form \in UnitForms /\ s.size \in Sizes
    BY <2>2 DEF Units, UnitForms
  <2>4. IsUnitAt(s, "retrieved", i, "retrieved", 2 + a + i)
        \/ IsUnitAt(s, "retrieved", i, "untrusted", 4 + a + b + a + i)
    <3> HIDE DEF u
    <3>1. QED
      BY <2>1, <2>2, <2>3 DEF IsUnitAt
  <2>5. QED
    BY <2>2, <2>4
<1>3. QED
  BY <1>1, <1>2, SourceShape DEF Sections

\* Headings and mandatory sources.
LEMMA FixedFields ==
  ASSUME BudgetConstants, InputsOK
  PROVE  /\ FixedSource.at = 0 /\ FixedSource.part = "fixed" /\ FixedSource.form = "mandatory"
         /\ FixedSource.size = fixed /\ FixedSource.list = "none"
         /\ ObjectiveSource.at = 3 + Len(recent) + Len(retrieved) /\ ObjectiveSource.part = "objective"
         /\ ObjectiveSource.form = "mandatory" /\ ObjectiveSource.size = objective
         /\ ObjectiveSource.list = "none"
         /\ \A p \in Sections : /\ Heading(p).at = Base[p] /\ Heading(p).part = p
                                /\ Heading(p).form = "heading" /\ Heading(p).size = HeadingSize
                                /\ Heading(p).list = "none" /\ Heading(p) \in Sources
         /\ FixedSource \in Sources /\ ObjectiveSource \in Sources
<1>1. FixedSource \in Sources /\ ObjectiveSource \in Sources /\ \A p \in Sections : Heading(p) \in Sources
  BY DEF Sources, Mandatories, FixedSource, ObjectiveSource
<1>2. /\ FixedSource.at = 0 /\ FixedSource.part = "fixed" /\ FixedSource.form = "mandatory"
      /\ FixedSource.size = fixed /\ FixedSource.list = "none"
  BY BaseValues DEF FixedSource, Source
<1>3. /\ ObjectiveSource.at = 3 + Len(recent) + Len(retrieved) /\ ObjectiveSource.part = "objective"
      /\ ObjectiveSource.form = "mandatory" /\ ObjectiveSource.size = objective
      /\ ObjectiveSource.list = "none"
  BY BaseValues DEF ObjectiveSource, Source
<1>4. \A p \in Sections : /\ Heading(p).at = Base[p] /\ Heading(p).part = p
                          /\ Heading(p).form = "heading" /\ Heading(p).size = HeadingSize
                          /\ Heading(p).list = "none"
  BY DEF Heading, Source
<1>5. QED
  BY <1>1, <1>2, <1>3, <1>4

\* A source is determined by its place.
LEMMA OnePerPlace ==
  ASSUME BudgetConstants, InputsOK, NEW s \in Sources
  PROVE  s = SourceAt(s.at)
<1> DEFINE a == Len(recent)
           b == Len(retrieved)
<1>1. a \in Nat /\ b \in Nat
  BY ListsType DEF InputsOK
<1>2. /\ Heading("recent").at = 1 /\ Heading("retrieved").at = 2 + a
      /\ Heading("untrusted").at = 4 + a + b
  BY FixedFields, BaseValues DEF Sections
<1>3. /\ FixedSource.at = 0 /\ ObjectiveSource.at = 3 + a + b
  BY FixedFields
<1>4. \/ s = FixedSource
      \/ s = Heading("recent")
      \/ \E i \in 1 .. a : IsUnitAt(s, "recent", i, "recent", 1 + i)
      \/ s = Heading("retrieved")
      \/ \E i \in 1 .. b : IsUnitAt(s, "retrieved", i, "retrieved", 2 + a + i)
      \/ s = ObjectiveSource
      \/ s = Heading("untrusted")
      \/ \E i \in 1 .. a : IsUnitAt(s, "recent", i, "untrusted", 4 + a + b + i)
      \/ \E i \in 1 .. b : IsUnitAt(s, "retrieved", i, "untrusted", 4 + a + b + a + i)
  BY SourceKinds
<1> DEFINE A(n) == SourceAt(n)
<1>5. ASSUME NEW n \in Nat
      PROVE  A(n) = (IF n = 0 THEN FixedSource
        ELSE IF n = 1 THEN Heading("recent")
        ELSE IF n <= 1 + a THEN UnitSource("recent", n - 1, recent[n - 1])
        ELSE IF n = 2 + a THEN Heading("retrieved")
        ELSE IF n <= 2 + a + b THEN UnitSource("retrieved", n - 2 - a, retrieved[n - 2 - a])
        ELSE IF n = 3 + a + b THEN ObjectiveSource
        ELSE IF n = 4 + a + b THEN Heading("untrusted")
        ELSE IF n <= 4 + a + b + a THEN UnitSource("recent", n - 4 - a - b, recent[n - 4 - a - b])
        ELSE UnitSource("retrieved", n - 4 - a - b - a, retrieved[n - 4 - a - b - a]))
  BY DEF SourceAt
<1> HIDE DEF a, b, A
<1>6. CASE s = FixedSource
  BY <1>3, <1>5, <1>6 DEF A
<1>7. CASE s = ObjectiveSource
  BY <1>1, <1>3, <1>5, <1>7 DEF A
<1>8. CASE s \in {Heading("recent"), Heading("retrieved"), Heading("untrusted")}
  BY <1>1, <1>2, <1>5, <1>8 DEF A
<1>9. CASE \E i \in 1 .. a : IsUnitAt(s, "recent", i, "recent", 1 + i)
  <2>1. PICK i \in 1 .. a : IsUnitAt(s, "recent", i, "recent", 1 + i)
    BY <1>9
  <2>2. s.at = 1 + i /\ s = UnitSource("recent", i, recent[i])
    BY <2>1 DEF IsUnitAt
  <2>3. A(1 + i) = UnitSource("recent", (1 + i) - 1, recent[(1 + i) - 1])
    BY <1>1, <1>5
  <2>4. (1 + i) - 1 = i
    OBVIOUS
  <2>5. QED
    BY <2>2, <2>3, <2>4 DEF A
<1>10. CASE \E i \in 1 .. b : IsUnitAt(s, "retrieved", i, "retrieved", 2 + a + i)
  <2>1. PICK i \in 1 .. b : IsUnitAt(s, "retrieved", i, "retrieved", 2 + a + i)
    BY <1>10
  <2>2. s.at = 2 + a + i /\ s = UnitSource("retrieved", i, retrieved[i])
    BY <2>1 DEF IsUnitAt
  <2> DEFINE n == 2 + a + i
  <2>3. A(n) = UnitSource("retrieved", n - 2 - a, retrieved[n - 2 - a])
    BY <1>1, <1>5
  <2>4. n - 2 - a = i
    BY <1>1
  <2>5. QED
    BY <2>2, <2>3, <2>4 DEF A
<1>11. CASE \E i \in 1 .. a : IsUnitAt(s, "recent", i, "untrusted", 4 + a + b + i)
  <2>1. PICK i \in 1 .. a : IsUnitAt(s, "recent", i, "untrusted", 4 + a + b + i)
    BY <1>11
  <2>2. s.at = 4 + a + b + i /\ s = UnitSource("recent", i, recent[i])
    BY <2>1 DEF IsUnitAt
  <2> DEFINE n == 4 + a + b + i
  <2>3. A(n) = UnitSource("recent", n - 4 - a - b, recent[n - 4 - a - b])
    BY <1>1, <1>5
  <2>4. n - 4 - a - b = i
    BY <1>1
  <2>5. QED
    BY <2>2, <2>3, <2>4 DEF A
<1>12. CASE \E i \in 1 .. b : IsUnitAt(s, "retrieved", i, "untrusted", 4 + a + b + a + i)
  <2>1. PICK i \in 1 .. b : IsUnitAt(s, "retrieved", i, "untrusted", 4 + a + b + a + i)
    BY <1>12
  <2>2. s.at = 4 + a + b + a + i /\ s = UnitSource("retrieved", i, retrieved[i])
    BY <2>1 DEF IsUnitAt
  <2> DEFINE n == 4 + a + b + a + i
  <2>3. A(n) = UnitSource("retrieved", n - 4 - a - b - a, retrieved[n - 4 - a - b - a])
    BY <1>1, <1>5
  <2>4. n - 4 - a - b - a = i
    BY <1>1
  <2>5. QED
    BY <2>2, <2>3, <2>4 DEF A
<1>13. QED
  BY <1>4, <1>6, <1>7, <1>8, <1>9, <1>10, <1>11, <1>12

\* What the steps use of a source.
LEMMA SourceFacts ==
  ASSUME BudgetConstants, InputsOK, NEW s \in Sources
  PROVE  /\ s.at \in Nat /\ s.size \in Nat
         /\ s.form \in {"mandatory", "heading"} \cup UnitForms
         /\ s.form = "mandatory" => s = FixedSource \/ s = ObjectiveSource
         /\ s.form = "heading" => s.part \in Sections /\ s = Heading(s.part)
         /\ s.form \in UnitForms => s.part \in Sections /\ Heading(s.part).at < s.at
         /\ s # FixedSource => 0 < s.at
         /\ s.part \in {"recent", "retrieved"} => s.at < ObjectiveSource.at
         /\ s.part = "untrusted" => ObjectiveSource.at < s.at
         /\ \A p \in Sections : s.part \in Sections /\ s.part # p /\ Heading(p).at <= s.at =>
              Heading(p).at <= Heading(s.part).at
<1> DEFINE a == Len(recent)
           b == Len(retrieved)
<1>1. a \in Nat /\ b \in Nat
  BY ListsType DEF InputsOK
<1>2. /\ Heading("recent").at = 1 /\ Heading("retrieved").at = 2 + a
      /\ Heading("untrusted").at = 4 + a + b
  BY FixedFields, BaseValues DEF Sections
<1>3. /\ FixedSource.at = 0 /\ ObjectiveSource.at = 3 + a + b
      /\ FixedSource.form = "mandatory" /\ ObjectiveSource.form = "mandatory"
      /\ FixedSource.part = "fixed" /\ ObjectiveSource.part = "objective"
      /\ FixedSource.size \in Nat /\ ObjectiveSource.size \in Nat
      /\ \A p \in Sections : Heading(p).part = p /\ Heading(p).form = "heading" /\ Heading(p).size \in Nat
  <2>1. fixed \in Nat /\ objective \in Nat /\ HeadingSize \in Nat
    BY DEF InputsOK, BudgetConstants
  <2>2. QED
    BY <2>1, FixedFields
<1>4. \/ s = FixedSource
      \/ s = Heading("recent")
      \/ \E i \in 1 .. a : IsUnitAt(s, "recent", i, "recent", 1 + i)
      \/ s = Heading("retrieved")
      \/ \E i \in 1 .. b : IsUnitAt(s, "retrieved", i, "retrieved", 2 + a + i)
      \/ s = ObjectiveSource
      \/ s = Heading("untrusted")
      \/ \E i \in 1 .. a : IsUnitAt(s, "recent", i, "untrusted", 4 + a + b + i)
      \/ \E i \in 1 .. b : IsUnitAt(s, "retrieved", i, "untrusted", 4 + a + b + a + i)
  BY SourceKinds
<1>5. Sizes \subseteq Nat
  BY DEF BudgetConstants
<1> HIDE DEF a, b
<1>6. CASE s = FixedSource
  BY <1>3, <1>6 DEF Sections, UnitForms
<1>7. CASE s = ObjectiveSource
  BY <1>1, <1>3, <1>7 DEF Sections, UnitForms
<1>8. CASE s \in {Heading("recent"), Heading("retrieved"), Heading("untrusted")}
  BY <1>1, <1>2, <1>3, <1>8 DEF Sections, UnitForms
<1>9. CASE \E i \in 1 .. a : IsUnitAt(s, "recent", i, "recent", 1 + i)
  <2>1. PICK i \in 1 .. a : s.part = "recent" /\ s.at = 1 + i /\ s.form \in UnitForms /\ s.size \in Sizes
    BY <1>9 DEF IsUnitAt
  <2>2. s.at \in Nat /\ s.size \in Nat /\ 0 < s.at /\ s.at < ObjectiveSource.at /\ Heading("recent").at < s.at
    <3>1. s.size \in Nat
      BY <1>5, <2>1
    <3>2. ObjectiveSource.at = 3 + a + b
      BY <1>3
    <3>3. s.at = 1 + i /\ Heading("recent").at = 1
      BY <1>2, <2>1
    <3>4. QED
      BY <1>1, <3>1, <3>2, <3>3
  <2>3. s.form # "mandatory" /\ s.form # "heading" /\ s.form \in {"mandatory", "heading"} \cup UnitForms
    BY <2>1 DEF UnitForms
  <2>4. \A p \in Sections : p # "recent" /\ Heading(p).at <= s.at => Heading(p).at <= Heading("recent").at
    BY <1>1, <1>2, <2>1 DEF Sections
  <2>5. QED
    BY <2>1, <2>2, <2>3, <2>4 DEF Sections
<1>10. CASE \E i \in 1 .. b : IsUnitAt(s, "retrieved", i, "retrieved", 2 + a + i)
  <2>1. PICK i \in 1 .. b : s.part = "retrieved" /\ s.at = 2 + a + i /\ s.form \in UnitForms /\ s.size \in Sizes
    BY <1>10 DEF IsUnitAt
  <2>2. s.at \in Nat /\ s.size \in Nat /\ 0 < s.at /\ s.at < ObjectiveSource.at /\ Heading("retrieved").at < s.at
    <3>1. s.size \in Nat
      BY <1>5, <2>1
    <3>2. ObjectiveSource.at = 3 + a + b
      BY <1>3
    <3>3. s.at = 2 + a + i /\ Heading("retrieved").at = 2 + a
      BY <1>2, <2>1
    <3>4. QED
      BY <1>1, <3>1, <3>2, <3>3
  <2>3. s.form # "mandatory" /\ s.form # "heading" /\ s.form \in {"mandatory", "heading"} \cup UnitForms
    BY <2>1 DEF UnitForms
  <2>4. \A p \in Sections : p # "retrieved" /\ Heading(p).at <= s.at => Heading(p).at <= Heading("retrieved").at
    BY <1>1, <1>2, <2>1 DEF Sections
  <2>5. QED
    BY <2>1, <2>2, <2>3, <2>4 DEF Sections
<1>11. CASE \/ \E i \in 1 .. a : IsUnitAt(s, "recent", i, "untrusted", 4 + a + b + i)
            \/ \E i \in 1 .. b : IsUnitAt(s, "retrieved", i, "untrusted", 4 + a + b + a + i)
  <2>1. /\ s.part = "untrusted" /\ s.form \in UnitForms /\ s.size \in Sizes
        /\ \/ \E i \in 1 .. a : s.at = 4 + a + b + i
           \/ \E i \in 1 .. b : s.at = 4 + a + b + a + i
    BY <1>11 DEF IsUnitAt
  <2>2. s.at \in Nat /\ s.at > 4 + a + b
    BY <1>1, <2>1
  <2>3. s.size \in Nat /\ 0 < s.at /\ ObjectiveSource.at < s.at /\ Heading("untrusted").at < s.at
    <3>1. s.size \in Nat
      BY <1>5, <2>1
    <3>2. ObjectiveSource.at = 3 + a + b /\ Heading("untrusted").at = 4 + a + b
      BY <1>2, <1>3
    <3>3. QED
      BY <1>1, <2>2, <3>1, <3>2
  <2>4. s.form # "mandatory" /\ s.form # "heading" /\ s.form \in {"mandatory", "heading"} \cup UnitForms
    BY <2>1 DEF UnitForms
  <2>5. \A p \in Sections : Heading(p).at <= Heading("untrusted").at
    BY <1>1, <1>2 DEF Sections
  <2>6. QED
    BY <2>1, <2>2, <2>3, <2>4, <2>5 DEF Sections
<1>12. QED
  BY <1>4, <1>6, <1>7, <1>8, <1>9, <1>10, <1>11

\* What an assembly is given, and what it makes of that, does not change.
LEMMA InputsKept ==
  ASSUME UNCHANGED inputs
  PROVE  /\ Sources' = Sources /\ TargetTokens' = TargetTokens /\ TrustedLimit' = TrustedLimit
         /\ FixedSource' = FixedSource /\ ObjectiveSource' = ObjectiveSource
         /\ \A p : Heading(p)' = Heading(p)
         /\ InputsOK' <=> InputsOK
         /\ window' = window /\ fixed' = fixed /\ objective' = objective
         /\ recent' = recent /\ retrieved' = retrieved
         /\ Entries' = Entries
<1>1. /\ window' = window /\ fixed' = fixed /\ objective' = objective
      /\ recent' = recent /\ retrieved' = retrieved
  BY DEF inputs
<1>2. Base' = Base
  BY <1>1 DEF Base
<1>3. TargetTokens' = TargetTokens /\ TrustedLimit' = TrustedLimit
  BY <1>1 DEF TargetTokens, TrustedLimit
<1>4. FixedSource' = FixedSource /\ ObjectiveSource' = ObjectiveSource
  BY <1>1, <1>2 DEF FixedSource, ObjectiveSource, Source
<1>5. ASSUME NEW p PROVE Heading(p)' = Heading(p)
  BY <1>2 DEF Heading, Source
<1>6. Mandatories' = Mandatories
  BY <1>4 DEF Mandatories, FixedSource, ObjectiveSource
<1>7. UnitSources' = UnitSources
  BY <1>1, <1>2 DEF UnitSources, UnitSource, Source, Part, Shift
<1>8. Sources' = Sources
  BY <1>5, <1>6, <1>7 DEF Sources
<1>9. QED
  BY <1>1, <1>3, <1>4, <1>5, <1>8 DEF InputsOK, Entries

-----------------------------------------------------------------------------
(* The steps                                                                 *)

\* Taking the next source and recording what became of it.
Recording(s, inc, why) ==
    /\ Takes(s) /\ Record(s, inc, why)
    /\ inc \in BOOLEAN /\ why \in {"none", "header", "tool", "budget"}
    /\ inc => Fits(s)
    /\ s = FixedSource => inc
    /\ UNCHANGED <<inputs, outcome>> /\ shown' \in BOOLEAN

\* The types of the inputs are part of the type invariant.
LEMMA TypeHasInputs ==
  ContextTypeOK => InputsOK
BY DEF ContextTypeOK, InputsOK

\* The entries of the ledger have token counts.
LEMMA LedgerCounted ==
  ASSUME BudgetConstants, ContextTypeOK
  PROVE  /\ Counted(ledger) /\ Len(ledger) \in Nat /\ DOMAIN ledger = 1 .. Len(ledger)
         /\ \A k \in 1 .. Len(ledger) : ledger[k] \in Entries /\ ledger[k].source \in Sources
<1>1. ledger \in Seq(Entries) /\ InputsOK
  BY TypeHasInputs DEF ContextTypeOK
<1>2. /\ Len(ledger) \in Nat /\ DOMAIN ledger = 1 .. Len(ledger)
      /\ \A k \in 1 .. Len(ledger) : ledger[k] \in Entries
  BY <1>1
<1>3. \A k \in 1 .. Len(ledger) : ledger[k].source \in Sources
  BY <1>2 DEF Entries
<1>4. \A k \in 1 .. Len(ledger) : ledger[k].source.size \in Nat
  BY <1>1, <1>3, SourceFacts
<1>5. QED
  BY <1>2, <1>3, <1>4 DEF Counted

\* The ledger after a recording.
LEMMA RecordedLedger ==
  ASSUME BudgetConstants, ContextTypeOK, NEW s, NEW inc, NEW why, Recording(s, inc, why)
  PROVE  /\ s \in todo /\ s \in Sources /\ \A t \in todo : s.at <= t.at
         /\ ledger' = Append(ledger, [source |-> s, included |-> inc, reason |-> why])
         /\ [source |-> s, included |-> inc, reason |-> why] \in Entries
         /\ ledger' \in Seq(Entries)
         /\ Len(ledger') = Len(ledger) + 1 /\ DOMAIN ledger' = 1 .. (Len(ledger) + 1)
         /\ \A k \in 1 .. Len(ledger) : ledger'[k] = ledger[k]
         /\ ledger'[Len(ledger) + 1].source = s /\ ledger'[Len(ledger) + 1].included = inc
         /\ ledger'[Len(ledger) + 1] = [source |-> s, included |-> inc, reason |-> why]
<1> DEFINE e == [source |-> s, included |-> inc, reason |-> why]
<1>1. s \in todo /\ s \in Sources /\ \A t \in todo : s.at <= t.at
  BY DEF Recording, Takes, ContextTypeOK
<1>2. e \in Entries
  BY <1>1 DEF Recording, Entries
<1>3. ledger \in Seq(Entries) /\ ledger' = Append(ledger, e)
  BY DEF ContextTypeOK, Recording, Record
<1> HIDE DEF e
<1>4. /\ ledger' \in Seq(Entries) /\ Len(ledger') = Len(ledger) + 1
      /\ DOMAIN ledger' = 1 .. (Len(ledger) + 1)
      /\ \A k \in 1 .. Len(ledger) : ledger'[k] = ledger[k]
      /\ ledger'[Len(ledger) + 1] = e
  BY <1>2, <1>3
<1>5. e.source = s /\ e.included = inc
  BY DEF e
<1>6. QED
  BY <1>1, <1>2, <1>3, <1>4, <1>5 DEF e

\* A recording keeps the types, the order and the ledger's completeness.
LEMMA RecordingKeepsOrder ==
  ASSUME BudgetConstants, AssemblyInv, NEW s, NEW inc, NEW why, Recording(s, inc, why)
  PROVE  ContextTypeOK' /\ TakenInOrder' /\ Recorded'
<1>1. InputsOK /\ ContextTypeOK
  BY TypeHasInputs DEF AssemblyInv
<1>2. UNCHANGED inputs
  BY DEF Recording
<1>3. Sources' = Sources /\ Entries' = Entries /\ InputsOK'
  BY <1>1, <1>2, InputsKept
<1>4. todo' = todo \ {s}
  BY DEF Recording, Record
<1>5. /\ s \in todo /\ s \in Sources /\ \A t \in todo : s.at <= t.at
      /\ ledger' \in Seq(Entries)
      /\ Len(ledger') = Len(ledger) + 1 /\ DOMAIN ledger' = 1 .. (Len(ledger) + 1)
      /\ \A k \in 1 .. Len(ledger) : ledger'[k] = ledger[k]
      /\ ledger'[Len(ledger) + 1].source = s
  BY <1>1, RecordedLedger
<1>6. \A t \in Sources : t.at \in Nat
  BY <1>1, SourceFacts
<1>7. todo \subseteq Sources /\ total \in Nat
  BY <1>1 DEF ContextTypeOK
<1>8. ASSUME NEW t \in todo, t # s PROVE s.at < t.at
  <2>1. s.at <= t.at /\ s.at \in Nat /\ t.at \in Nat /\ t \in Sources
    BY <1>5, <1>6, <1>7
  <2>2. s.at # t.at
    BY <1>1, <1>5, <1>8, <2>1, OnePerPlace
  <2>3. QED
    BY <2>1, <2>2
<1>9. ContextTypeOK'
  <2>1. total' \in Nat
    BY <1>1, <1>5, <1>7, SourceFacts DEF Recording, Record
  <2>2. shown' \in BOOLEAN /\ outcome' = outcome
    BY DEF Recording
  <2>3. QED
    BY <1>1, <1>3, <1>4, <1>5, <1>7, <2>1, <2>2 DEF ContextTypeOK, InputsOK
<1>10. TakenInOrder'
  <2>1. TakenInOrder
    BY DEF AssemblyInv
  <2>2. ASSUME NEW x \in Sources \ todo', NEW t \in todo' PROVE x.at < t.at
    <3>1. t \in todo /\ t # s
      BY <1>4
    <3>2. CASE x = s
      BY <1>8, <3>1, <3>2
    <3>3. CASE x # s
      BY <1>4, <2>1, <3>1, <3>3 DEF TakenInOrder
    <3>4. QED
      BY <3>2, <3>3
  <2>3. QED
    BY <1>3, <2>2 DEF TakenInOrder
<1>11. Recorded'
  <2>1. Recorded /\ TakenInOrder
    BY DEF AssemblyInv
  <2>2. Len(ledger) \in Nat /\ DOMAIN ledger = 1 .. Len(ledger)
    BY <1>1, LedgerCounted
  <2> DEFINE L == Len(ledger)
  <2> HIDE DEF L
  <2>3. /\ L \in Nat /\ DOMAIN ledger = 1 .. L /\ DOMAIN ledger' = 1 .. (L + 1)
        /\ \A k \in 1 .. L : ledger'[k] = ledger[k]
        /\ ledger'[L + 1].source = s
    BY <1>5, <2>2 DEF L
  <2>4. ASSUME NEW k \in DOMAIN ledger' PROVE k = L + 1 \/ (k \in 1 .. L /\ k \in DOMAIN ledger /\ ledger'[k] = ledger[k])
    BY <2>3
  <2>5. ASSUME NEW k \in DOMAIN ledger' PROVE ledger'[k].source \in Sources \ todo'
    BY <1>4, <1>5, <2>1, <2>3, <2>4 DEF Recorded
  <2>6. ASSUME NEW x \in Sources \ todo' PROVE \E k \in DOMAIN ledger' : ledger'[k].source = x
    <3>1. CASE x = s
      BY <2>3, <3>1
    <3>2. CASE x # s
      <4>1. PICK k \in DOMAIN ledger : ledger[k].source = x
        BY <1>4, <2>1, <3>2 DEF Recorded
      <4>2. QED
        BY <2>3, <4>1
    <3>3. QED
      BY <3>1, <3>2
  <2>7. ASSUME NEW j \in DOMAIN ledger', NEW k \in DOMAIN ledger', j < k
        PROVE  ledger'[j].source.at < ledger'[k].source.at
    <3>1. j \in 1 .. L /\ j \in DOMAIN ledger /\ ledger'[j] = ledger[j]
      BY <2>3, <2>7
    <3>2. CASE k = L + 1
      <4>1. ledger[j].source \in Sources \ todo
        BY <2>1, <3>1 DEF Recorded
      <4>2. ledger[j].source.at < s.at
        BY <1>5, <2>1, <4>1 DEF TakenInOrder
      <4>3. QED
        BY <2>3, <3>1, <3>2, <4>2
    <3>3. CASE k # L + 1
      BY <2>1, <2>4, <2>7, <3>1, <3>3 DEF Recorded
    <3>4. QED
      BY <3>2, <3>3
  <2>8. QED
    BY <1>3, <2>5, <2>6, <2>7 DEF Recorded
<1>12. QED
  BY <1>9, <1>10, <1>11

\* A recording keeps the room of the objective.
LEMMA RecordingKeepsBudget ==
  ASSUME BudgetConstants, AssemblyInv, NEW s, NEW inc, NEW why, Recording(s, inc, why)
  PROVE  Budgeted'
<1>1. InputsOK /\ ContextTypeOK /\ Budgeted /\ TakenInOrder
  BY TypeHasInputs DEF AssemblyInv
<1>2. UNCHANGED inputs
  BY DEF Recording
<1>3. /\ TargetTokens' = TargetTokens /\ TrustedLimit' = TrustedLimit
      /\ FixedSource' = FixedSource /\ ObjectiveSource' = ObjectiveSource
      /\ objective' = objective /\ fixed' = fixed
  BY <1>2, InputsKept
<1>4. /\ todo' = todo \ {s} /\ total' = (IF inc THEN total + s.size ELSE total)
      /\ outcome = "assembling" /\ outcome' = outcome /\ inc \in BOOLEAN
      /\ (s = FixedSource => inc) /\ (inc => total + s.size <= Limit(s.part))
  BY DEF Recording, Record, Takes, Fits
<1>5. s \in todo /\ s \in Sources /\ \A t \in todo : s.at <= t.at
  BY <1>1, RecordedLedger
<1>6. total \in Nat /\ s.size \in Nat /\ objective \in Nat /\ fixed \in Nat /\ TargetTokens \in Nat
      /\ TrustedLimit = TargetTokens - objective
  <2>1. total \in Nat /\ objective \in Nat /\ fixed \in Nat
    BY <1>1 DEF ContextTypeOK, BudgetConstants
  <2>2. s.size \in Nat
    BY <1>1, <1>5, SourceFacts
  <2>3. QED
    BY <1>1, <2>1, <2>2, TargetIsLess DEF TrustedLimit
<1>7. /\ objective <= TargetTokens /\ total <= TargetTokens
      /\ ObjectiveSource \in todo => total <= TrustedLimit
      /\ FixedSource \in todo => total = 0
      /\ FixedSource \notin todo => fixed <= TrustedLimit
  BY <1>1, <1>4 DEF Budgeted
<1>8. Limit(s.part) = IF s.part \in {"objective", "untrusted"} THEN TargetTokens ELSE TrustedLimit
  BY DEF Limit
<1>9. total' <= TargetTokens
  BY <1>4, <1>6, <1>7, <1>8
<1>10. ASSUME ObjectiveSource \in todo' PROVE total' <= TrustedLimit
  <2>1. ObjectiveSource \in todo /\ s # ObjectiveSource
    BY <1>4, <1>10
  <2>2. s.part \notin {"objective", "untrusted"}
    <3>1. s.at <= ObjectiveSource.at
      BY <1>5, <2>1
    <3>2. s.part # "untrusted"
      <4>1. s.at \in Nat /\ ObjectiveSource.at \in Nat /\ (s.part = "untrusted" => ObjectiveSource.at < s.at)
        BY <1>1, <1>5, SourceFacts, FixedFields
      <4>2. QED
        BY <3>1, <4>1
    <3>3. s.part # "objective"
      <4>1. s.form \in {"mandatory", "heading"} \cup UnitForms
        BY <1>1, <1>5, SourceFacts
      <4>2. s.form = "mandatory" => s = FixedSource
        BY <1>1, <1>5, <2>1, SourceFacts
      <4>3. s.form # "mandatory" => s.part \in Sections
        BY <1>1, <1>5, <4>1, SourceFacts
      <4>4. FixedSource.part = "fixed"
        BY <1>1, FixedFields
      <4>5. QED
        BY <4>2, <4>3, <4>4 DEF Sections
    <3>4. QED
      BY <3>2, <3>3
  <2>3. QED
    BY <1>4, <1>6, <1>7, <1>8, <2>1, <2>2
<1>11. FixedSource \notin todo'
  <2>1. CASE s = FixedSource
    BY <1>4, <2>1
  <2>2. CASE s # FixedSource
    <3>1. s.at \in Nat /\ 0 < s.at /\ FixedSource.at = 0
      BY <1>1, <1>5, <2>2, SourceFacts, FixedFields
    <3>2. QED
      BY <1>4, <1>5, <3>1
  <2>3. QED
    BY <2>1, <2>2
<1>12. fixed <= TrustedLimit
  <2>1. CASE s = FixedSource
    <3>1. s.size = fixed /\ s.part = "fixed"
      BY <1>1, <2>1, FixedFields
    <3>2. total = 0
      BY <1>5, <1>7, <2>1
    <3>3. QED
      BY <1>4, <1>6, <1>8, <2>1, <3>1, <3>2
  <2>2. CASE s # FixedSource
    <3>1. s.at \in Nat /\ 0 < s.at /\ FixedSource.at = 0
      BY <1>1, <1>5, <2>2, SourceFacts, FixedFields
    <3>2. FixedSource \notin todo
      BY <1>5, <3>1
    <3>3. QED
      BY <1>7, <3>2
  <2>3. QED
    BY <2>1, <2>2
<1>13. QED
  BY <1>3, <1>7, <1>9, <1>10, <1>11, <1>12 DEF Budgeted

\* A recording keeps the ledger's sum.
LEMMA RecordingAddsUp ==
  ASSUME BudgetConstants, AssemblyInv, NEW s, NEW inc, NEW why, Recording(s, inc, why)
  PROVE  AddsUp'
<1>1. InputsOK /\ ContextTypeOK /\ AddsUp
  BY TypeHasInputs DEF AssemblyInv
<1> DEFINE e == [source |-> s, included |-> inc, reason |-> why]
           L == Len(ledger)
<1>2. /\ s \in Sources /\ ledger' = Append(ledger, e) /\ e \in Entries /\ e.source.size = s.size
      /\ DOMAIN ledger' = 1 .. (L + 1)
      /\ \A k \in 1 .. L : ledger'[k] = ledger[k]
      /\ ledger'[L + 1].included = inc
  BY <1>1, RecordedLedger
<1>3. L \in Nat /\ DOMAIN ledger = 1 .. L /\ Counted(ledger) /\ ledger \in Seq(Entries)
  BY <1>1, LedgerCounted DEF ContextTypeOK
<1>4. total' = (IF inc THEN total + s.size ELSE total) /\ inc \in BOOLEAN
  BY DEF Recording, Record
<1>5. total \in Nat /\ s.size \in Nat
  BY <1>1, <1>2, SourceFacts DEF ContextTypeOK
<1> HIDE DEF e
<1>6. Tokens(ledger', IncludedPlaces') = Tokens(ledger, IncludedPlaces')
                                        + (IF L + 1 \in IncludedPlaces' THEN e.source.size ELSE 0)
  BY <1>2, <1>3, <1>5, TokensAppend
<1> HIDE DEF L
<1>7. L + 1 \in IncludedPlaces' <=> inc
  BY <1>2, <1>3 DEF IncludedPlaces
<1>8. \A k \in 1 .. L : k \in IncludedPlaces' <=> k \in IncludedPlaces
  BY <1>2, <1>3 DEF IncludedPlaces
<1>9. Tokens(ledger, IncludedPlaces') = Tokens(ledger, IncludedPlaces)
  BY <1>3, <1>8, TokensSame DEF L
<1>10. QED
  BY <1>1, <1>2, <1>4, <1>5, <1>6, <1>7, <1>9 DEF AddsUp

\* Headings taken stay where they are in the ledger.
LEMMA RecordingKeepsHeadings ==
  ASSUME BudgetConstants, ContextTypeOK, NEW s, NEW inc, NEW why, Recording(s, inc, why)
  PROVE  \A h \in 1 .. Len(ledger) : \A p : HeadAt(ledger', h, p) <=> HeadAt(ledger, h, p)
<1>1. \A k \in 1 .. Len(ledger) : ledger'[k] = ledger[k]
  BY RecordedLedger
<1>2. QED
  BY <1>1 DEF HeadAt

\* Before a trusted source only trusted ones are taken.
LEMMA TrustedAreFirst ==
  ASSUME BudgetConstants, AssemblyInv, NEW s \in todo, s.part \in {"recent", "retrieved"}
  PROVE  \A k \in DOMAIN ledger : ledger[k].source.part # "untrusted"
<1>1. InputsOK /\ ContextTypeOK /\ TakenInOrder /\ Recorded
  BY TypeHasInputs DEF AssemblyInv
<1>2. s \in Sources
  BY <1>1 DEF ContextTypeOK
<1>3. ASSUME NEW k \in DOMAIN ledger, ledger[k].source.part = "untrusted" PROVE FALSE
  <2> DEFINE x == ledger[k].source
  <2>1. x \in Sources \ todo
    BY <1>1 DEF Recorded
  <2>2. x.at < s.at
    BY <1>1, <2>1 DEF TakenInOrder
  <2> HIDE DEF x
  <2>3. x.part = "untrusted"
    BY <1>3 DEF x
  <2>4. /\ x.at \in Nat /\ s.at \in Nat /\ ObjectiveSource \in Sources
        /\ ObjectiveSource.at < x.at /\ s.at < ObjectiveSource.at
    BY <1>1, <1>2, <2>1, <2>3, SourceFacts, FixedFields
  <2>5. ObjectiveSource.at \in Nat
    BY <1>1, <2>4, SourceFacts
  <2>6. QED
    BY <2>2, <2>4, <2>5
<1>4. QED
  BY <1>3

\* A recording keeps what is known of included and of trusted units, when the
\* source it records obeys it.
LEMMA RecordingKeepsUnits ==
  ASSUME BudgetConstants, AssemblyInv, NEW s, NEW inc, NEW why, Recording(s, inc, why),
         IsUnit(s) /\ inc => \E h \in DOMAIN ledger : HeadAt(ledger, h, s.part),
         IsUnit(s) /\ s.part # "untrusted" =>
           (inc <=> /\ \E h \in DOMAIN ledger : HeadAt(ledger, h, s.part)
                    /\ total + s.size <= TargetTokens - objective)
  PROVE  Headed' /\ TrustedRule'
<1>1. InputsOK /\ ContextTypeOK /\ AddsUp /\ Headed /\ TrustedRule
  BY TypeHasInputs DEF AssemblyInv
<1> DEFINE e == [source |-> s, included |-> inc, reason |-> why]
           L == Len(ledger)
<1>2. /\ s \in Sources /\ s \in todo /\ ledger' = Append(ledger, e) /\ e \in Entries
      /\ e.source.size = s.size
      /\ DOMAIN ledger' = 1 .. (L + 1)
      /\ \A k \in 1 .. L : ledger'[k] = ledger[k]
      /\ ledger'[L + 1].included = inc /\ ledger'[L + 1].source = s
  BY <1>1, RecordedLedger
<1>3. L \in Nat /\ DOMAIN ledger = 1 .. L /\ Counted(ledger) /\ ledger \in Seq(Entries)
  BY <1>1, LedgerCounted DEF ContextTypeOK
<1>4. total \in Nat /\ s.size \in Nat
  BY <1>1, <1>2, SourceFacts DEF ContextTypeOK
<1>5. TargetTokens' = TargetTokens /\ objective' = objective
  BY InputsKept DEF Recording
<1>6. \A h \in 1 .. L : \A p : HeadAt(ledger', h, p) <=> HeadAt(ledger, h, p)
  BY <1>1, RecordingKeepsHeadings
<1> HIDE DEF e
<1>7. \A S : Tokens(ledger', S) = Tokens(ledger, S) + (IF L + 1 \in S THEN e.source.size ELSE 0)
  BY <1>2, <1>3, <1>4, TokensAppend
<1> HIDE DEF L
<1>8. ASSUME NEW k \in 1 .. (L + 1)
      PROVE  Tokens(ledger', TrustedBefore(ledger', k)) = Tokens(ledger, TrustedBefore(ledger', k))
  <2>1. L + 1 \notin TrustedBefore(ledger', k)
    BY <1>3 DEF TrustedBefore
  <2>2. Tokens(ledger, TrustedBefore(ledger', k)) \in Nat
    BY <1>3, TokensType
  <2>3. QED
    BY <1>7, <2>1, <2>2
<1>9. ASSUME NEW k \in 1 .. L
      PROVE  Tokens(ledger', TrustedBefore(ledger', k)) = Tokens(ledger, TrustedBefore(ledger, k))
  <2>1. \A n \in 1 .. (k - 1) : n \in 1 .. L /\ ledger'[n] = ledger[n]
    BY <1>2, <1>3
  <2>2. \A n \in 1 .. L : n \in TrustedBefore(ledger', k) <=> n \in TrustedBefore(ledger, k)
    BY <2>1 DEF TrustedBefore
  <2>3. Tokens(ledger, TrustedBefore(ledger', k)) = Tokens(ledger, TrustedBefore(ledger, k))
    BY <1>3, <2>2, TokensSame DEF L
  <2>4. k \in 1 .. (L + 1)
    BY <1>3
  <2>5. QED
    BY <1>8, <2>3, <2>4
<1>10. ASSUME s.part \in {"recent", "retrieved"}
       PROVE  Tokens(ledger', TrustedBefore(ledger', L + 1)) = total
  <2>1. \A k \in DOMAIN ledger : ledger[k].source.part # "untrusted"
    BY <1>2, <1>10, TrustedAreFirst
  <2>2. (L + 1) - 1 = L /\ L + 1 \in 1 .. (L + 1)
    BY <1>3
  <2>3. \A n \in 1 .. L : n \in TrustedBefore(ledger', L + 1) <=> n \in IncludedPlaces
    BY <1>2, <1>3, <2>1, <2>2 DEF TrustedBefore, IncludedPlaces
  <2>4. Tokens(ledger, TrustedBefore(ledger', L + 1)) = Tokens(ledger, IncludedPlaces)
    BY <1>3, <2>3, TokensSame DEF L
  <2>5. QED
    BY <1>1, <1>8, <2>2, <2>4 DEF AddsUp
<1>11. ASSUME NEW k \in 1 .. L, NEW p
       PROVE  (\E h \in 1 .. (k - 1) : HeadAt(ledger', h, p)) <=> (\E h \in 1 .. (k - 1) : HeadAt(ledger, h, p))
  <2>1. \A h \in 1 .. (k - 1) : h \in 1 .. L
    BY <1>3
  <2>2. QED
    BY <1>6, <2>1
<1>12. ASSUME NEW p
       PROVE  (\E h \in 1 .. ((L + 1) - 1) : HeadAt(ledger', h, p)) <=> (\E h \in DOMAIN ledger : HeadAt(ledger, h, p))
  <2>1. (L + 1) - 1 = L
    BY <1>3
  <2>2. QED
    BY <1>3, <1>6, <2>1
<1>13. Headed'
  <2>1. ASSUME NEW k \in DOMAIN ledger', ledger'[k].included, IsUnit(ledger'[k].source)
        PROVE  \E h \in 1 .. (k - 1) : HeadAt(ledger', h, ledger'[k].source.part)
    <3>1. CASE k = L + 1
      BY <1>2, <1>12, <2>1, <3>1
    <3>2. CASE k # L + 1
      <4>1. k \in 1 .. L /\ k \in DOMAIN ledger /\ ledger'[k] = ledger[k]
        BY <1>2, <1>3, <3>2
      <4>2. \E h \in 1 .. (k - 1) : HeadAt(ledger, h, ledger[k].source.part)
        BY <1>1, <2>1, <4>1 DEF Headed
      <4>3. QED
        BY <1>11, <4>1, <4>2
    <3>3. QED
      BY <3>1, <3>2
  <2>2. QED
    BY <2>1 DEF Headed, IsUnit, HeadAt
<1>14. TrustedRule'
  <2>1. ASSUME NEW k \in DOMAIN ledger', IsUnit(ledger'[k].source), ledger'[k].source.part # "untrusted"
        PROVE  ledger'[k].included <=>
                 /\ \E h \in 1 .. (k - 1) : HeadAt(ledger', h, ledger'[k].source.part)
                 /\ Tokens(ledger', TrustedBefore(ledger', k)) + ledger'[k].source.size <= TargetTokens - objective
    <3>1. CASE k = L + 1
      <4>1. s.part \in {"recent", "retrieved"}
        <5>1. s.form \in UnitForms
          BY <1>2, <2>1, <3>1 DEF IsUnit, UnitForms
        <5>2. s.part \in Sections
          BY <1>1, <1>2, <5>1, SourceFacts
        <5>3. QED
          BY <1>2, <2>1, <3>1, <5>2 DEF Sections
      <4>2. Tokens(ledger', TrustedBefore(ledger', k)) = total
        BY <1>10, <3>1, <4>1
      <4>3. (\E h \in 1 .. (k - 1) : HeadAt(ledger', h, s.part)) <=> (\E h \in DOMAIN ledger : HeadAt(ledger, h, s.part))
        BY <1>12, <3>1
      <4>4. ledger'[k].included = inc /\ ledger'[k].source = s /\ IsUnit(s) /\ s.part # "untrusted"
        BY <1>2, <2>1, <3>1
      <4>5. inc <=> /\ \E h \in DOMAIN ledger : HeadAt(ledger, h, s.part)
                    /\ total + s.size <= TargetTokens - objective
        BY <4>4
      <4>6. QED
        BY <4>2, <4>3, <4>4, <4>5
    <3>2. CASE k # L + 1
      <4>1. k \in 1 .. L /\ k \in DOMAIN ledger /\ ledger'[k] = ledger[k]
        BY <1>2, <1>3, <3>2
      <4>2. ledger[k].included <=>
                 /\ \E h \in 1 .. (k - 1) : HeadAt(ledger, h, ledger[k].source.part)
                 /\ Tokens(ledger, TrustedBefore(ledger, k)) + ledger[k].source.size <= TargetTokens - objective
        BY <1>1, <2>1, <4>1 DEF TrustedRule
      <4>3. Tokens(ledger', TrustedBefore(ledger', k)) = Tokens(ledger, TrustedBefore(ledger, k))
        BY <1>9, <4>1
      <4>4. (\E h \in 1 .. (k - 1) : HeadAt(ledger', h, ledger[k].source.part))
              <=> (\E h \in 1 .. (k - 1) : HeadAt(ledger, h, ledger[k].source.part))
        BY <1>11, <4>1
      <4>5. QED
        BY <4>1, <4>2, <4>3, <4>4
    <3>3. QED
      BY <3>1, <3>2
  <2>2. QED
    BY <1>5, <2>1 DEF TrustedRule, IsUnit, HeadAt
<1>15. QED
  BY <1>13, <1>14

\* A recording other than of a heading keeps the open section's heading.
LEMMA RecordingKeepsSection ==
  ASSUME BudgetConstants, AssemblyInv, NEW s, NEW inc, NEW why, Recording(s, inc, why),
         s.form # "heading", UNCHANGED shown
  PROVE  SectionOpen'
<1>1. InputsOK /\ ContextTypeOK /\ SectionOpen
  BY TypeHasInputs DEF AssemblyInv
<1> DEFINE L == Len(ledger)
<1>2. /\ s \in Sources /\ DOMAIN ledger' = 1 .. (L + 1) /\ ledger'[L + 1].source = s
  BY <1>1, RecordedLedger
<1>3. L \in Nat /\ DOMAIN ledger = 1 .. L
  BY <1>1, LedgerCounted
<1>4. todo' = todo \ {s} /\ \A p : Heading(p)' = Heading(p)
  BY InputsKept DEF Recording, Record
<1>5. \A h \in 1 .. L : \A p : HeadAt(ledger', h, p) <=> HeadAt(ledger, h, p)
  BY <1>1, RecordingKeepsHeadings
<1> HIDE DEF L
<1>6. \A p : ~HeadAt(ledger', L + 1, p)
  BY <1>2 DEF HeadAt
<1>7. ASSUME NEW p PROVE (\E h \in DOMAIN ledger' : HeadAt(ledger', h, p)) <=> (\E h \in DOMAIN ledger : HeadAt(ledger, h, p))
  <2>1. \A h \in DOMAIN ledger' : h = L + 1 \/ h \in 1 .. L
    BY <1>2, <1>3
  <2>2. \A h \in 1 .. L : h \in DOMAIN ledger'
    BY <1>2, <1>3
  <2>3. QED
    BY <1>3, <1>5, <1>6, <2>1, <2>2
<1>8. ASSUME NEW p \in Sections, Heading(p) \notin todo', \E t \in todo' : t.part = p
      PROVE  shown' <=> \E h \in DOMAIN ledger' : HeadAt(ledger', h, p)
  <2>1. Heading(p) # s
    BY <1>1, FixedFields
  <2>2. Heading(p) \notin todo /\ \E t \in todo : t.part = p
    BY <1>4, <1>8, <2>1
  <2>3. shown <=> \E h \in DOMAIN ledger : HeadAt(ledger, h, p)
    BY <1>1, <2>2 DEF SectionOpen
  <2>4. QED
    BY <1>7, <2>3
<1>9. QED
  BY <1>4, <1>8 DEF SectionOpen, Sections, HeadAt

\* Recording a heading opens its section.
LEMMA HeadingOpensSection ==
  ASSUME BudgetConstants, AssemblyInv, NEW s, NEW inc, NEW why, Recording(s, inc, why),
         s.form = "heading", shown' = inc
  PROVE  SectionOpen'
<1>1. InputsOK /\ ContextTypeOK /\ TakenInOrder /\ Recorded
  BY TypeHasInputs DEF AssemblyInv
<1> DEFINE L == Len(ledger)
<1>2. /\ s \in Sources /\ s \in todo /\ DOMAIN ledger' = 1 .. (L + 1)
      /\ ledger'[L + 1].source = s /\ ledger'[L + 1].included = inc
      /\ \A k \in 1 .. L : ledger'[k] = ledger[k]
      /\ \A t \in todo : s.at <= t.at
  BY <1>1, RecordedLedger
<1>3. L \in Nat /\ DOMAIN ledger = 1 .. L
  BY <1>1, LedgerCounted
<1>4. todo' = todo \ {s} /\ \A p : Heading(p)' = Heading(p)
  BY InputsKept DEF Recording, Record
<1>5. s.part \in Sections /\ s = Heading(s.part)
  BY <1>1, <1>2, SourceFacts
<1> HIDE DEF L
<1>6. ASSUME NEW p \in Sections, Heading(p) \notin todo', NEW t \in todo', t.part = p
      PROVE  shown' <=> \E h \in DOMAIN ledger' : HeadAt(ledger', h, p)
  <2>1. t \in todo /\ t \in Sources /\ s.at <= t.at
    BY <1>1, <1>2, <1>4 DEF ContextTypeOK
  <2>2. p = s.part
    <3>1. SUFFICES ASSUME p # s.part PROVE FALSE
      OBVIOUS
    <3>2. Heading(p) \in Sources /\ Heading(p).part = p
      BY <1>1, FixedFields
    <3>3. Heading(p) \notin todo
      BY <1>4, <1>6, <3>1, <3>2
    <3>4. Heading(p).at < s.at
      BY <1>1, <1>2, <3>2, <3>3 DEF TakenInOrder
    <3>5. Heading(s.part).at <= Heading(p).at
      BY <1>1, <1>5, <1>6, <2>1, <3>1, SourceFacts
    <3>6. s.at \in Nat /\ Heading(p).at \in Nat
      BY <1>1, <1>2, <3>2, SourceFacts
    <3>7. QED
      BY <1>5, <3>4, <3>5, <3>6
  <2>3. ASSUME NEW h \in 1 .. L PROVE ~HeadAt(ledger', h, p)
    <3>1. ledger'[h] = ledger[h] /\ h \in DOMAIN ledger
      BY <1>2, <1>3
    <3>2. ledger[h].source \in Sources \ todo
      BY <1>1, <3>1 DEF Recorded
    <3>3. ledger[h].source # s
      BY <1>2, <3>2
    <3>4. ledger[h].source.form = "heading" => ledger[h].source = Heading(ledger[h].source.part)
      BY <1>1, <3>2, SourceFacts
    <3>5. QED
      BY <1>5, <2>2, <3>1, <3>3, <3>4 DEF HeadAt
  <2>4. HeadAt(ledger', L + 1, p) <=> inc
    BY <1>2, <2>2 DEF HeadAt
  <2>5. \A h \in DOMAIN ledger' : h = L + 1 \/ h \in 1 .. L
    BY <1>2, <1>3
  <2>6. L + 1 \in DOMAIN ledger'
    BY <1>2, <1>3
  <2>7. QED
    BY <2>3, <2>4, <2>5, <2>6
<1>7. QED
  BY <1>4, <1>6 DEF SectionOpen, Sections, HeadAt

\* The invariant holds initially.
LEMMA AssemblyStarts ==
  ASSUME BudgetConstants, AssemblyInit
  PROVE  AssemblyInv
<1>1. InputsOK
  BY DEF AssemblyInit, InputsOK
<1>2. todo = Sources /\ total = 0 /\ ledger = <<>> /\ shown = TRUE
  BY DEF AssemblyInit
<1>3. DOMAIN ledger = {}
  BY <1>2
<1>4. /\ outcome \in {"assembling", "exceeds", "invalid"}
      /\ outcome = "exceeds" => objective > TargetTokens
      /\ outcome = "assembling" => ~(objective > TargetTokens)
  BY DEF AssemblyInit
<1>5. /\ objective \in Nat /\ fixed \in Nat /\ TargetTokens \in Nat
      /\ TrustedLimit = TargetTokens - objective
  BY <1>1, TargetIsLess DEF InputsOK, BudgetConstants, TrustedLimit
<1>6. ContextTypeOK
  <2>1. ledger \in Seq(Entries)
    BY <1>2
  <2>2. QED
    BY <1>1, <1>2, <1>4, <2>1 DEF ContextTypeOK, InputsOK
<1>7. TakenInOrder /\ Recorded /\ Headed /\ TrustedRule
  BY <1>2, <1>3 DEF TakenInOrder, Recorded, Headed, TrustedRule
<1>8. SectionOpen
  BY <1>1, <1>2, FixedFields DEF SectionOpen
<1>9. AddsUp
  BY <1>2, TokensEmpty DEF AddsUp
<1>10. Budgeted
  <2>1. FixedSource \in todo
    BY <1>1, <1>2, FixedFields
  <2>2. ASSUME outcome \in {"assembling", "package"}
        PROVE  objective <= TargetTokens /\ total <= TargetTokens /\ total <= TrustedLimit
    BY <1>2, <1>4, <1>5, <2>2
  <2>3. QED
    BY <1>2, <2>1, <2>2 DEF Budgeted
<1>11. AtEnd
  BY <1>4, <1>5 DEF AtEnd
<1>12. QED
  BY <1>6, <1>7, <1>8, <1>9, <1>10, <1>11 DEF AssemblyInv

\* Steps that only end the assembly keep what it has recorded.
LEMMA EndingKeeps ==
  ASSUME AssemblyInv, UNCHANGED <<inputs, todo, total, ledger, shown>>,
         outcome' \in {"assembling", "package", "exceeds", "invalid"}
  PROVE  /\ ContextTypeOK' /\ TakenInOrder' /\ Recorded' /\ AddsUp' /\ SectionOpen'
         /\ Headed' /\ TrustedRule'
         /\ Budgeted' \/ outcome' # outcome
<1>1. UNCHANGED inputs /\ todo' = todo /\ total' = total /\ ledger' = ledger /\ shown' = shown
  OBVIOUS
<1>2. /\ Sources' = Sources /\ TargetTokens' = TargetTokens /\ TrustedLimit' = TrustedLimit
      /\ FixedSource' = FixedSource /\ ObjectiveSource' = ObjectiveSource
      /\ (\A p : Heading(p)' = Heading(p)) /\ Entries' = Entries
      /\ window' = window /\ fixed' = fixed /\ objective' = objective
      /\ recent' = recent /\ retrieved' = retrieved
  BY <1>1, InputsKept
<1>3. ContextTypeOK'
  BY <1>1, <1>2 DEF AssemblyInv, ContextTypeOK
<1>4. TakenInOrder' /\ Recorded'
  BY <1>1, <1>2 DEF AssemblyInv, TakenInOrder, Recorded
<1>5. AddsUp'
  BY <1>1 DEF AssemblyInv, AddsUp, IncludedPlaces
<1>6. SectionOpen'
  BY <1>1, <1>2 DEF AssemblyInv, SectionOpen, Sections
<1>7. Headed' /\ TrustedRule'
  BY <1>1, <1>2 DEF AssemblyInv, Headed, TrustedRule
<1>8. Budgeted' \/ outcome' # outcome
  BY <1>1, <1>2 DEF AssemblyInv, Budgeted
<1>9. QED
  BY <1>3, <1>4, <1>5, <1>6, <1>7, <1>8

\* An assembly that records a source goes on.
LEMMA RecordingGoesOn ==
  ASSUME NEW s, NEW inc, NEW why, Recording(s, inc, why)
  PROVE  AtEnd'
BY DEF Recording, Takes, AtEnd

\* include_mandatory keeps the invariant; it fails only for the leading sources.
LEMMA MandatoryKeeps ==
  ASSUME BudgetConstants, AssemblyInv, NEW s, Mandatory(s)
  PROVE  AssemblyInv'
<1>1. InputsOK /\ ContextTypeOK /\ Budgeted
  BY TypeHasInputs DEF AssemblyInv
<1>2. s \in todo /\ s \in Sources /\ s.form = "mandatory" /\ outcome = "assembling"
  BY <1>1 DEF Mandatory, Takes, ContextTypeOK
<1>3. CASE Fits(s)
  <2>1. Recording(s, TRUE, "none") /\ UNCHANGED shown
    BY <1>1, <1>3 DEF Mandatory, Recording, ContextTypeOK
  <2>2. ContextTypeOK' /\ TakenInOrder' /\ Recorded' /\ Budgeted' /\ AddsUp'
    BY <2>1, RecordingKeepsOrder, RecordingKeepsBudget, RecordingAddsUp
  <2>3. SectionOpen'
    BY <1>2, <2>1, RecordingKeepsSection
  <2>4. ~IsUnit(s)
    BY <1>2 DEF IsUnit
  <2>5. Headed' /\ TrustedRule'
    BY <2>1, <2>4, RecordingKeepsUnits
  <2>6. AtEnd'
    BY <2>1, RecordingGoesOn
  <2>7. QED
    BY <2>2, <2>3, <2>5, <2>6 DEF AssemblyInv
<1>4. CASE ~Fits(s)
  <2>1. UNCHANGED <<inputs, todo, total, ledger, shown>> /\ outcome' = "exceeds"
    BY <1>4 DEF Mandatory
  <2>2. /\ ContextTypeOK' /\ TakenInOrder' /\ Recorded' /\ AddsUp' /\ SectionOpen'
        /\ Headed' /\ TrustedRule'
    BY <2>1, EndingKeeps
  <2>3. Budgeted'
    BY <2>1 DEF Budgeted
  <2>4. fixed \in Nat /\ objective \in Nat /\ total \in Nat /\ TargetTokens \in Nat
        /\ TrustedLimit = TargetTokens - objective
    BY <1>1, TargetIsLess DEF ContextTypeOK, BudgetConstants, TrustedLimit
  <2>5. ~(total + s.size <= Limit(s.part))
    BY <1>4 DEF Fits
  <2>6. s = FixedSource
    <3>1. SUFFICES ASSUME s = ObjectiveSource PROVE FALSE
      BY <1>1, <1>2, SourceFacts
    <3>2. s.size = objective /\ Limit(s.part) = TargetTokens
      BY <1>1, <3>1, FixedFields DEF Limit
    <3>3. total <= TrustedLimit
      BY <1>1, <1>2, <3>1 DEF Budgeted
    <3>4. QED
      BY <2>4, <2>5, <3>2, <3>3
  <2>7. s.size = fixed /\ Limit(s.part) = TrustedLimit
    BY <1>1, <2>6, FixedFields DEF Limit
  <2>8. total = 0
    BY <1>1, <1>2, <2>6 DEF Budgeted
  <2>9. fixed + objective > TargetTokens
    BY <2>4, <2>5, <2>7, <2>8
  <2>10. AtEnd'
    BY <2>1, <2>9, InputsKept DEF AtEnd
  <2>11. QED
    BY <2>2, <2>3, <2>10 DEF AssemblyInv
<1>5. QED
  BY <1>3, <1>4

\* A heading keeps the invariant.
LEMMA HeadingKeeps ==
  ASSUME BudgetConstants, AssemblyInv, NEW s, SectionHeading(s)
  PROVE  AssemblyInv'
<1>1. InputsOK /\ ContextTypeOK
  BY TypeHasInputs DEF AssemblyInv
<1>2. s.form = "heading" /\ s # FixedSource
  BY <1>1, FixedFields DEF SectionHeading
<1> DEFINE inc == Fits(s)
           why == IF Fits(s) THEN "none" ELSE "budget"
<1>3. inc \in BOOLEAN /\ why \in {"none", "header", "tool", "budget"}
  BY DEF Fits
<1>4. Recording(s, inc, why) /\ shown' = inc
  BY <1>2, <1>3 DEF SectionHeading, Recording
<1> HIDE DEF inc, why
<1>5. ContextTypeOK' /\ TakenInOrder' /\ Recorded' /\ Budgeted' /\ AddsUp'
  BY <1>4, RecordingKeepsOrder, RecordingKeepsBudget, RecordingAddsUp
<1>6. SectionOpen'
  BY <1>2, <1>4, HeadingOpensSection
<1>7. ~IsUnit(s)
  BY <1>2 DEF IsUnit
<1>8. Headed' /\ TrustedRule'
  BY <1>4, <1>7, RecordingKeepsUnits
<1>9. AtEnd'
  BY <1>4, RecordingGoesOn
<1>10. QED
  BY <1>5, <1>6, <1>8, <1>9 DEF AssemblyInv

\* A unit keeps the invariant.
LEMMA UnitKeeps ==
  ASSUME BudgetConstants, AssemblyInv, NEW s, Unit(s)
  PROVE  AssemblyInv'
<1>1. InputsOK /\ ContextTypeOK /\ SectionOpen /\ TakenInOrder
  BY TypeHasInputs DEF AssemblyInv
<1>2. s \in todo /\ s \in Sources /\ s.form \in {"text", "tool"} /\ \A t \in todo : s.at <= t.at
  BY <1>1 DEF Unit, Takes, ContextTypeOK
<1>3. s.form \in UnitForms /\ s.form # "heading" /\ s # FixedSource
  BY <1>1, <1>2, FixedFields DEF UnitForms
<1> DEFINE inc == UnitFits(s)
           why == Reason(s)
<1>4. inc \in BOOLEAN /\ why \in {"none", "header", "tool", "budget"}
  BY <1>1 DEF UnitFits, Reason, Fits, ContextTypeOK
<1>5. Recording(s, inc, why) /\ UNCHANGED shown
  <2>1. Takes(s) /\ Record(s, inc, why) /\ UNCHANGED <<inputs, shown, outcome>>
    BY DEF Unit
  <2>2. inc => Fits(s)
    BY DEF UnitFits
  <2>3. shown' \in BOOLEAN
    BY <1>1, <2>1 DEF ContextTypeOK
  <2> HIDE DEF inc, why
  <2>4. QED
    BY <1>3, <1>4, <2>1, <2>2, <2>3 DEF Recording
<1>6. inc <=> shown /\ total + s.size <= Limit(s.part)
  BY DEF UnitFits, Fits
<1> HIDE DEF inc, why
<1>7. s.part \in Sections /\ Heading(s.part) \in Sources /\ Heading(s.part).at < s.at
  BY <1>1, <1>2, <1>3, SourceFacts, FixedFields
<1>8. Heading(s.part) \notin todo
  <2>1. s.at \in Nat /\ Heading(s.part).at \in Nat
    BY <1>1, <1>2, <1>7, SourceFacts
  <2>2. QED
    BY <1>2, <1>7, <2>1
<1>9. shown <=> \E h \in DOMAIN ledger : HeadAt(ledger, h, s.part)
  BY <1>1, <1>2, <1>7, <1>8 DEF SectionOpen
<1>10. s.part # "untrusted" => Limit(s.part) = TargetTokens - objective
  BY <1>7 DEF Sections, Limit, TrustedLimit
<1>11. ContextTypeOK' /\ TakenInOrder' /\ Recorded' /\ Budgeted' /\ AddsUp'
  BY <1>5, RecordingKeepsOrder, RecordingKeepsBudget, RecordingAddsUp
<1>12. SectionOpen'
  BY <1>3, <1>5, RecordingKeepsSection
<1>13. Headed' /\ TrustedRule'
  BY <1>5, <1>6, <1>9, <1>10, RecordingKeepsUnits
<1>14. AtEnd'
  BY <1>5, RecordingGoesOn
<1>15. QED
  BY <1>11, <1>12, <1>13, <1>14 DEF AssemblyInv

\* Ending the assembly keeps the invariant.
LEMMA EndsKeep ==
  ASSUME AssemblyInv, Finish \/ (\E s \in todo : RenderFails(s)) \/ UNCHANGED contextVars
  PROVE  AssemblyInv'
<1>1. /\ UNCHANGED <<inputs, todo, total, ledger, shown>>
      /\ \/ outcome = "assembling" /\ todo = {} /\ outcome' = "package"
         \/ outcome' = "invalid"
         \/ outcome' = outcome
  BY DEF Finish, RenderFails, contextVars
<1>2. outcome' \in {"assembling", "package", "exceeds", "invalid"}
  BY <1>1 DEF AssemblyInv, ContextTypeOK
<1>3. /\ ContextTypeOK' /\ TakenInOrder' /\ Recorded' /\ AddsUp' /\ SectionOpen'
      /\ Headed' /\ TrustedRule'
      /\ Budgeted' \/ outcome' # outcome
  BY <1>1, <1>2, EndingKeeps
<1>4. /\ TargetTokens' = TargetTokens /\ TrustedLimit' = TrustedLimit
      /\ FixedSource' = FixedSource /\ ObjectiveSource' = ObjectiveSource
      /\ fixed' = fixed /\ objective' = objective /\ todo' = todo /\ total' = total
  BY <1>1, InputsKept
<1>5. Budgeted'
  <2>1. CASE outcome = "assembling" /\ outcome' = "package"
    BY <1>4, <2>1 DEF AssemblyInv, Budgeted
  <2>2. CASE outcome' = "invalid"
    BY <2>2 DEF Budgeted
  <2>3. CASE outcome' = outcome
    BY <1>3, <2>3
  <2>4. QED
    BY <1>1, <2>1, <2>2, <2>3
<1>6. AtEnd'
  BY <1>1, <1>4 DEF AssemblyInv, AtEnd
<1>7. QED
  BY <1>3, <1>5, <1>6 DEF AssemblyInv

\* The invariant states what a package promises.
LEMMA InvariantGivesPackage ==
  ASSUME BudgetConstants, AssemblyInv
  PROVE  ContextFits
<1>1. /\ InputsOK /\ ContextTypeOK /\ Recorded /\ Budgeted /\ AddsUp /\ Headed /\ TrustedRule /\ AtEnd
  BY TypeHasInputs DEF AssemblyInv
<1>2. /\ TargetTokens \in Nat /\ TriggerTokens \in Nat /\ window \in Nat
      /\ TargetTokens < TriggerTokens /\ TargetTokens < window
  BY <1>1, TargetIsLess
<1>3. /\ total \in Nat /\ fixed \in Nat /\ objective \in Nat /\ TrustedLimit = TargetTokens - objective
  BY <1>1 DEF ContextTypeOK, BudgetConstants, TrustedLimit
<1>4. FixedSource \in Sources
  BY <1>1, FixedFields
<1>5. OnlyMandatoryExceeds
  <2>1. ASSUME outcome = "package" PROVE fixed + objective <= TargetTokens
    <3>1. fixed <= TrustedLimit
      BY <1>1, <2>1 DEF AtEnd, Budgeted
    <3>2. QED
      BY <1>2, <1>3, <3>1
  <2>2. QED
    BY <1>1, <2>1 DEF OnlyMandatoryExceeds, AtEnd
<1>6. PackageFits
  <2>1. ASSUME outcome = "package" PROVE total <= TargetTokens
    BY <1>1, <2>1 DEF Budgeted
  <2>2. ASSUME total <= TargetTokens PROVE Decide(total) \in {"continue", "prune"}
    <3>1. ~(total >= window) /\ ~(total >= TriggerTokens)
      BY <1>2, <1>3, <2>2
    <3>2. QED
      BY <3>1 DEF Decide
  <2>3. total = Tokens(ledger, {k \in DOMAIN ledger : ledger[k].included})
    BY <1>1 DEF AddsUp, IncludedPlaces
  <2>4. QED
    BY <2>1, <2>2, <2>3 DEF PackageFits
<1>7. TrustedFirst
  BY <1>1 DEF TrustedFirst, TrustedRule, TrustedBefore, HeadAt, IncludedHeading
<1>8. LedgerComplete
  <2>1. SUFFICES ASSUME outcome = "package" PROVE
          /\ \A l \in {"recent", "retrieved"} :
               \A i \in DOMAIN (IF l = "recent" THEN recent ELSE retrieved) :
                 \E k \in DOMAIN ledger : \A j \in DOMAIN ledger :
                   j = k <=> (ledger[j].source.list = l /\ ledger[j].source.unit = i)
          /\ \A k \in DOMAIN ledger : ledger[k].included /\ IsUnit(ledger[k].source) =>
               \E h \in 1 .. (k - 1) : IncludedHeading(h, ledger[k].source.part)
    BY DEF LedgerComplete
  <2>2. ASSUME NEW l \in {"recent", "retrieved"}, NEW i \in DOMAIN (IF l = "recent" THEN recent ELSE retrieved)
        PROVE  \E k \in DOMAIN ledger : \A j \in DOMAIN ledger :
                 j = k <=> (ledger[j].source.list = l /\ ledger[j].source.unit = i)
    <3> DEFINE v == IF l = "recent" THEN recent ELSE retrieved
               s == UnitSource(l, i, v[i])
    <3>1. s \in Sources /\ s.list = l /\ s.unit = i
      <4>1. s \in Sources
        BY DEF Sources, UnitSources
      <4>2. QED
        BY <1>1, <4>1, UnitShape
    <3>2. todo = {}
      BY <1>1, <2>1 DEF AtEnd
    <3>3. ASSUME NEW x \in Sources, x.list = l, x.unit = i PROVE x = s
      <4>1. x = FixedSource \/ x = ObjectiveSource \/ (\E p \in Sections : x = Heading(p))
            \/ (\E n \in DOMAIN recent : x = UnitSource("recent", n, recent[n]))
            \/ (\E n \in DOMAIN retrieved : x = UnitSource("retrieved", n, retrieved[n]))
        BY SourceShape
      <4>2. \/ \E n \in DOMAIN recent : x = UnitSource("recent", n, recent[n])
            \/ \E n \in DOMAIN retrieved : x = UnitSource("retrieved", n, retrieved[n])
        <5>1. x.list # "none"
          BY <3>3
        <5>2. FixedSource.list = "none" /\ ObjectiveSource.list = "none" /\ \A p \in Sections : Heading(p).list = "none"
          BY <1>1, FixedFields
        <5>3. QED
          BY <4>1, <5>1, <5>2
      <4>3. CASE \E n \in DOMAIN recent : x = UnitSource("recent", n, recent[n])
        BY <3>3, <4>3 DEF UnitSource, Source
      <4>4. CASE \E n \in DOMAIN retrieved : x = UnitSource("retrieved", n, retrieved[n])
        BY <3>3, <4>4 DEF UnitSource, Source
      <4>5. QED
        BY <4>2, <4>3, <4>4
    <3> HIDE DEF s, v
    <3>4. PICK k \in DOMAIN ledger : ledger[k].source = s
      BY <1>1, <3>1, <3>2 DEF Recorded
    <3>5. ASSUME NEW j \in DOMAIN ledger, ledger[j].source.list = l, ledger[j].source.unit = i PROVE j = k
      <4>1. ledger[j].source = s
        BY <1>1, <3>3, <3>5 DEF Recorded
      <4>2. s.at \in Nat
        BY <1>1, <3>1, SourceFacts
      <4>3. ~(j < k) /\ ~(k < j)
        <5>1. ASSUME j < k PROVE FALSE
          BY <1>1, <3>4, <4>1, <4>2, <5>1 DEF Recorded
        <5>2. ASSUME k < j PROVE FALSE
          BY <1>1, <3>4, <4>1, <4>2, <5>2 DEF Recorded
        <5>3. QED
          BY <5>1, <5>2
      <4>4. j \in Nat /\ k \in Nat
        BY <1>1, LedgerCounted
      <4>5. QED
        BY <4>3, <4>4
    <3>6. QED
      BY <3>1, <3>4, <3>5
  <2>3. ASSUME NEW k \in DOMAIN ledger, ledger[k].included, IsUnit(ledger[k].source)
        PROVE  \E h \in 1 .. (k - 1) : IncludedHeading(h, ledger[k].source.part)
    BY <1>1, <2>3 DEF Headed, HeadAt, IncludedHeading
  <2>4. QED
    BY <2>2, <2>3
<1>9. QED
  BY <1>1, <1>5, <1>6, <1>7, <1>8 DEF ContextFits

\* The inductive invariant of the assembly: sources are taken in their order and
\* recorded once, and until it is taken the objective keeps its room
\* (ContextEngine::assemble).
THEOREM ContextInvariant ==
  ASSUME BudgetConstants
  PROVE  AssemblySpec => []AssemblyInv
<1>1. ASSUME AssemblyInit PROVE AssemblyInv
  BY <1>1, AssemblyStarts
<1>2. ASSUME AssemblyInv, [AssemblyNext]_contextVars PROVE AssemblyInv'
  <2>1. CASE \E s \in todo : Mandatory(s)
    BY <1>2, <2>1, MandatoryKeeps
  <2>2. CASE \E s \in todo : SectionHeading(s)
    BY <1>2, <2>2, HeadingKeeps
  <2>3. CASE \E s \in todo : Unit(s)
    BY <1>2, <2>3, UnitKeeps
  <2>4. CASE Finish \/ (\E s \in todo : RenderFails(s)) \/ UNCHANGED contextVars
    BY <1>2, <2>4, EndsKeep
  <2>5. QED
    BY <1>2, <2>1, <2>2, <2>3, <2>4 DEF AssemblyNext
<1>3. QED
  BY <1>1, <1>2, PTL DEF AssemblySpec

\* For every window, budget and lists of units, a package fits its target and
\* adds up, only mandatory sources can make the assembly fail for its size,
\* untrusted units never displace trusted ones, and every source is recorded once.
THEOREM ContextPackageFits ==
  ASSUME BudgetConstants
  PROVE  AssemblySpec => []ContextFits
<1>1. ASSUME AssemblyInv PROVE ContextFits
  BY <1>1, InvariantGivesPackage
<1>2. QED
  BY <1>1, ContextInvariant, PTL

=============================================================================
