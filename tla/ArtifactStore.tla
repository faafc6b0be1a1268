--------------------------- MODULE ArtifactStore ---------------------------
(***************************************************************************)
(* The content-addressed object store (artifacts/store.rs): publication    *)
(* through a temporary hard link, the usage account, recovery of an        *)
(* interrupted publication when the store opens, and the removal of        *)
(* objects that no durable record names.  The directory has a volatile     *)
(* image (dir) and the image the last successful directory sync left on    *)
(* the medium (disk); a crash keeps what both agree on and any part of     *)
(* the rest.  Contents are identified with their digests.                  *)
(***************************************************************************)
EXTENDS Naturals, FiniteSets

CONSTANTS Objects,      \* contents, which are also the canonical names
          Inodes,       \* bound on files alive at once; an inode names its own temporary
          MaxObjects,   \* MAX_ARTIFACT_OBJECTS (the byte quota is the same account)
          MaxCrashes,   \* bound on crashes
          Nil, Torn     \* no publication; bytes that are not a whole content

VARIABLES dir, disk,    \* sets of <<name, inode>>
          file,         \* inode -> bytes, read-only seal, and what of both is on the medium
          usage,        \* the account behind the publication mutex
          phase, put,   \* the opening of the store; the publication that holds the mutex
          acked,        \* contents whose put returned to its caller in this process
          referenced,   \* contents named by a committed database record
          tree, lost,   \* the objects/sha256 directories; whether a crash took them away
          crashes

\* A name is canonical or temporary, never both (TEMPORARY_OBJECT_PREFIX), and the quota is a number.
StoreConstants == Objects \cap Inodes = {} /\ MaxObjects \in Nat

vars == <<dir, disk, file, usage, phase, put, acked, referenced, tree, lost, crashes>>

Blank == [bytes |-> Torn, sealed |-> FALSE, kept |-> "nothing"]

\* file_identity and artifact_link_count: the names of an inode.
Links(i)     == {n \in Objects \cup Inodes : <<n, i>> \in dir}
Exists(c)    == \E i \in Inodes : <<c, i>> \in dir
Temporary(i) == <<i, i>> \in dir
CanonicalIn(d) == {e \in d : e[1] \in Objects}
Free(i)      == \A e \in dir \cup disk : e[2] # i

Unlinked(i)    == dir \ {<<i, i>>}
SealCreated(i) == [file EXCEPT ![i].sealed = TRUE, ![i].kept = "bytes"]

PrivateTemporary(i)        == Cardinality(Links(i)) = 1
SealedFile(i)              == file[i].sealed /\ Cardinality(Links(i)) = 1
RecoverablePublication(i)  == file[i].sealed /\ Cardinality(Links(i)) = 2

\* Open without following links, check the seal twice around the read, and rehash.
ReadVerified(c) == \E i \in Inodes : <<c, i>> \in dir /\ SealedFile(i) /\ file[i].bytes = c

Sync == disk' = dir

Init ==
    /\ dir = {} /\ disk = {} /\ file = [i \in Inodes |-> Blank]
    /\ usage = 0 /\ phase = "down" /\ put = Nil
    /\ acked = {} /\ referenced = {} /\ tree = "absent" /\ lost = FALSE /\ crashes = 0

------------------------------------------------------------------------------
(* Opening: create the directories, recover, account, collect.              *)

\* A missing tree is created; only the process that creates it syncs its parent.
CreateTree ==
    /\ phase = "down" /\ tree = "absent"
    /\ tree' = "created" /\ phase' = "creating"
    /\ UNCHANGED <<dir, disk, file, usage, put, acked, referenced, lost, crashes>>

SyncTree ==
    /\ phase = "creating"
    /\ \/ tree' = "durable" /\ phase' = "recover"
       \/ tree' = tree /\ phase' = "down"
    /\ UNCHANGED <<dir, disk, file, usage, put, acked, referenced, lost, crashes>>

OpenTree ==
    /\ phase = "down" /\ tree # "absent"
    /\ phase' = "recover"
    /\ UNCHANGED <<dir, disk, file, usage, put, acked, referenced, tree, lost, crashes>>

\* One temporary: a lone one is dropped, a linked one gives way to its canonical name.
Recoverable(i) ==
    \/ PrivateTemporary(i)
    \/ RecoverablePublication(i) /\ <<file[i].bytes, i>> \in dir

RecoverTemporary(i) ==
    /\ phase = "recover" /\ Temporary(i)
    /\ IF Recoverable(i)
       THEN /\ dir' = Unlinked(i)
            /\ phase' = "recover_sync"
       ELSE dir' = dir /\ phase' = "corrupt"
    /\ UNCHANGED <<disk, file, usage, put, acked, referenced, tree, lost, crashes>>

RecoverSync ==
    /\ phase = "recover_sync"
    /\ \/ Sync /\ phase' = IF \A e \in CanonicalIn(dir) : \/ SealedFile(e[2])
                                                          \/ Temporary(e[2])
                           THEN "recover" ELSE "corrupt"
       \/ UNCHANGED disk /\ phase' = "down"
    /\ UNCHANGED <<dir, file, usage, put, acked, referenced, tree, lost, crashes>>

ScanUsage ==
    /\ phase = "recover" /\ \A i \in Inodes : ~Temporary(i)
    /\ IF \A e \in CanonicalIn(dir) : SealedFile(e[2])
       THEN phase' = "retain" /\ usage' = Cardinality(dir)
       ELSE phase' = "corrupt" /\ usage' = usage
    /\ UNCHANGED <<dir, disk, file, put, acked, referenced, tree, lost, crashes>>

Unreferenced == {e \in CanonicalIn(dir) : e[1] \notin referenced}

RetainRemove(e) ==
    /\ phase \in {"retain", "retain_sync"} /\ e \in Unreferenced
    /\ dir' = dir \ {e} /\ usage' = usage - 1 /\ phase' = "retain_sync"
    /\ UNCHANGED <<disk, file, put, acked, referenced, tree, lost, crashes>>

\* A removal or the directory sync that fails ends the opening where it stands.
RetainDone ==
    /\ phase \in {"retain", "retain_sync"}
    /\ \/ phase = "retain" /\ Unreferenced = {} /\ UNCHANGED disk /\ phase' = "serving"
       \/ phase = "retain_sync" /\ Unreferenced = {} /\ Sync /\ phase' = "serving"
       \/ UNCHANGED disk /\ phase' = "down"
    /\ UNCHANGED <<dir, file, usage, put, acked, referenced, tree, lost, crashes>>

------------------------------------------------------------------------------
(* put, under the publication mutex.                                        *)

EnsureCanAdd == usage + 1 <= MaxObjects

\* Mutant: an object that is already there is acknowledged without a directory sync.
PutExistingUnsynced(c) ==
    /\ phase = "serving" /\ put = Nil /\ Exists(c) /\ ReadVerified(c)
    /\ acked' = acked \cup {c}
    /\ UNCHANGED <<dir, disk, file, usage, phase, put, referenced, tree, lost, crashes>>

PutExisting(c) ==
    /\ phase = "serving" /\ put = Nil /\ Exists(c) /\ ReadVerified(c)
    /\ Sync /\ acked' = acked \cup {c}
    /\ UNCHANGED <<dir, file, usage, phase, put, referenced, tree, lost, crashes>>

PutCreate(c, i) ==
    /\ phase = "serving" /\ put = Nil /\ ~Exists(c) /\ EnsureCanAdd /\ Free(i)
    /\ dir' = dir \cup {<<i, i>>}
    /\ file' = [file EXCEPT ![i] = Blank]
    /\ put' = [content |-> c, inode |-> i, at |-> "created"]
    /\ UNCHANGED <<disk, usage, phase, acked, referenced, tree, lost, crashes>>

\* Write; sync and seal; sync again and read back.
Prepare ==
    /\ put # Nil
    /\ \/ /\ put.at = "created"
          /\ file' = [file EXCEPT ![put.inode].bytes = put.content]
          /\ put' = [put EXCEPT !.at = "written"]
       \/ /\ put.at = "written"
          /\ file' = SealCreated(put.inode)
          /\ put' = [put EXCEPT !.at = "sealed"]
       \/ /\ put.at = "sealed"
          /\ file' = [file EXCEPT ![put.inode].kept = "all"]
          /\ put' = [put EXCEPT !.at = "prepared"]
    /\ UNCHANGED <<dir, disk, usage, phase, acked, referenced, tree, lost, crashes>>

LinkCanonical ==
    /\ put # Nil /\ put.at = "prepared"
    /\ dir' = dir \cup {<<put.content, put.inode>>} /\ usage' = usage + 1
    /\ put' = [put EXCEPT !.at = "linked"]
    /\ UNCHANGED <<disk, file, phase, acked, referenced, tree, lost, crashes>>

\* Sync the new name, drop the temporary, sync, read back and return.
Publish ==
    /\ put # Nil
    /\ \/ /\ put.at = "linked"
          /\ Sync /\ put' = [put EXCEPT !.at = "durable"] /\ UNCHANGED <<dir, acked>>
       \/ /\ put.at = "durable"
          /\ dir' = Unlinked(put.inode)
          /\ put' = [put EXCEPT !.at = "removed"] /\ UNCHANGED <<disk, acked>>
       \/ /\ put.at = "removed" /\ ReadVerified(put.content)
          /\ Sync /\ acked' = acked \cup {put.content} /\ put' = Nil /\ UNCHANGED dir
    /\ UNCHANGED <<file, usage, phase, referenced, tree, lost, crashes>>

\* Any step may fail: the temporary is removed if that works, the directory synced if that
\* works, and the caller gets an error.  A canonical name that was linked stays.
PutFails ==
    /\ put # Nil
    /\ \/ dir' = Unlinked(put.inode) /\ disk' \in {dir', disk}
       \/ dir' = dir /\ disk' = disk
    /\ put' = Nil
    /\ UNCHANGED <<file, usage, phase, acked, referenced, tree, lost, crashes>>

------------------------------------------------------------------------------
\* The caller commits a database record that names a content it was given back.
CommitReference(c) ==
    /\ phase = "serving" /\ c \in acked
    /\ referenced' = referenced \cup {c}
    /\ UNCHANGED <<dir, disk, file, usage, phase, put, acked, tree, lost, crashes>>

Survivors(i) ==
    CASE file[i].kept = "nothing" -> {[file[i] EXCEPT !.bytes = b, !.sealed = s] :
                                         b \in {Torn, file[i].bytes}, s \in {FALSE, file[i].sealed}}
      [] file[i].kept = "bytes"   -> {[file[i] EXCEPT !.sealed = s] : s \in {FALSE, file[i].sealed}}
      [] OTHER                    -> {file[i]}

OneInodePerName(d) == \A e, f \in d : e[1] = f[1] => e = f

Down == /\ phase \notin {"down", "corrupt"} /\ crashes < MaxCrashes
        /\ crashes' = crashes + 1 /\ phase' = "down" /\ put' = Nil /\ acked' = referenced

\* The process dies: the file system goes on with what it was told.
ProcessDies == Down /\ UNCHANGED <<dir, disk, file, usage, referenced, tree, lost>>

\* Power loss: what was not synced may or may not have reached the medium.
PowerLoss ==
    /\ Down
    /\ \E part \in SUBSET ((dir \ disk) \cup (disk \ dir)) :
         LET kept == (dir \cap disk) \cup part IN
         OneInodePerName(kept) /\ dir' = kept /\ disk' = kept
    /\ file' \in {f \in [Inodes -> UNION {Survivors(i) : i \in Inodes}] :
                    \A i \in Inodes : f[i] \in Survivors(i)}
    /\ tree' = IF tree = "created" THEN "durable" ELSE tree
    /\ UNCHANGED <<usage, referenced, lost>>

\* A tree whose parent was never synced can vanish with everything in it.
TreeLost ==
    /\ Down /\ tree = "created"
    /\ dir' = {} /\ disk' = {} /\ tree' = "absent" /\ lost' = TRUE
    /\ UNCHANGED <<file, usage, referenced>>

Next ==
    \/ CreateTree \/ SyncTree \/ OpenTree \/ RecoverSync \/ ScanUsage \/ RetainDone
    \/ \E i \in Inodes : RecoverTemporary(i)
    \/ \E e \in dir : RetainRemove(e)
    \/ \E c \in Objects : \/ PutExisting(c) \/ CommitReference(c)
                          \/ \E i \in Inodes : PutCreate(c, i)
    \/ Prepare \/ LinkCanonical \/ Publish \/ PutFails
    \/ ProcessDies \/ PowerLoss \/ TreeLost

Spec == Init /\ [][Next]_vars

------------------------------------------------------------------------------
StoreTypeOK ==
    /\ dir \subseteq (Objects \cup Inodes) \X Inodes /\ OneInodePerName(dir)
    /\ usage \in Nat
    /\ put # Nil => phase = "serving" /\ (Temporary(put.inode) \/ put.at = "removed")
    /\ referenced \cup acked \subseteq Objects

\* Whatever put acknowledged, and every object a committed record names, is on the medium under
\* its own name with its own bytes, so that no power loss can take it away.  (A tree whose parent
\* directory was never synced is the exception the code leaves open: tree = "created".)
AckDurable ==
    ~lost => \A c \in acked \cup referenced :
               \E i \in Inodes : /\ <<c, i>> \in dir \cap disk
                                 /\ file[i].bytes = c /\ file[i].sealed /\ file[i].kept = "all"

\* An acknowledged object passes the single-link, sealed and rehashed read for as long as the
\* store serves, also while other publications fail half way.
AckReadable ==
    ~lost /\ phase = "serving" =>
        \A c \in acked : \E i \in Inodes : <<c, i>> \in dir /\ SealedFile(i) /\ file[i].bytes = c

\* No interrupted, failed or half-recovered publication leaves a directory that the next opening
\* calls corrupt.
NeverCorrupt == phase # "corrupt"

\* Between publications the account is what the directory holds, and the quota holds.
UsageExact ==
    phase = "serving" /\ put = Nil =>
        usage = Cardinality(CanonicalIn(dir)) /\ usage <= MaxObjects

\* A store that starts to serve holds no temporary and no object without a durable record.
OrphansDropped ==
    [][phase # "serving" /\ phase' = "serving" =>
         \A e \in dir' : e[1] \in referenced']_vars

\* What put acknowledged and what a committed record names is durable and can be read back,
\* whichever publication failed or was cut off by a crash; no such leftover makes the next opening
\* refuse the store, which then holds named objects only and accounts for exactly those
\* (ArtifactStore::put, open).
PublishedStays ==
    /\ [](StoreTypeOK /\ AckDurable /\ AckReadable /\ NeverCorrupt /\ UsageExact)
    /\ OrphansDropped
=============================================================================
