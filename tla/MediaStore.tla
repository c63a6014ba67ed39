------------------------------ MODULE MediaStore ------------------------------
(***************************************************************************)
(* Files of inbound media (pkg/media/store.go): a channel downloads a file *)
(* and stores a reference to it, a turn resolves the reference and reads   *)
(* the file, and a goroutine removes what is older than MaxAge.  The       *)
(* references are in memory, the files on disk.  Feishu names a file after *)
(* the message and the key of its resource, so an event that is delivered  *)
(* twice has two references to one file; the other channels draw a name.   *)
(* Left out: scopes (only ReleaseAll uses them, and nothing calls it),     *)
(* several files of one message, types and sizes, media on its way out.    *)
(***************************************************************************)
EXTENDS Naturals

CONSTANTS
    Delivery,    \* deliveries of a message with a file; each one stores a reference
    Path,
    PathOf,      \* the name of the file of each delivery
    MaxRun       \* bound: starts of the process

ASSUME MediaAssumption == PathOf \in [Delivery -> Path] /\ MaxRun \in Nat \ {0}

VARIABLES
    disk,      \* paths with a file
    refs,      \* FileMediaStore.refs
    aged,      \* references older than MaxAge
    handler,   \* the channel's handler of each delivery
    removing,  \* references whose files CleanExpired is about to remove
    reader,    \* resolveMediaRefs in the turn of each delivery
    runs,      \* starts of the process so far
    kept       \* history: paths that a failed removal or a restart has left behind

mediaVars == <<disk, refs, aged, handler, removing, reader, runs, kept>>

Fresh == [e \in Delivery |-> "none"]

MediaInit ==
    /\ disk = {} /\ refs = {} /\ aged = {} /\ removing = {}
    /\ handler = Fresh /\ reader = Fresh
    /\ runs = 1 /\ kept = {}

Handles(e, from, to) ==
    handler[e] = from /\ handler' = [handler EXCEPT ![e] = to]

(***************************************************************************)
(* The handler of a channel                                                *)
(***************************************************************************)

CreateFile(e) ==
    /\ Handles(e, "none", "writing")
    /\ disk' = disk \cup {PathOf[e]}
    /\ UNCHANGED <<refs, aged, removing, reader, runs, kept>>

\* A copy that ends with an error removes the file.
WriteFile(e) ==
    /\ \/ Handles(e, "writing", "written") /\ UNCHANGED disk
       \/ Handles(e, "writing", "failed") /\ disk' = disk \ {PathOf[e]}
    /\ UNCHANGED <<refs, aged, removing, reader, runs, kept>>

\* Store looks for the file before it takes the lock.
StoreStat(e) ==
    /\ Handles(e, "written", IF PathOf[e] \in disk THEN "seen" ELSE "unseen")
    /\ UNCHANGED <<disk, refs, aged, removing, reader, runs, kept>>

\* After an error of Store the handler removes the file.
StoreFails(e) ==
    /\ Handles(e, "unseen", "failed")
    /\ disk' = disk \ {PathOf[e]}
    /\ UNCHANGED <<refs, aged, removing, reader, runs, kept>>

StoreRef(e) ==
    /\ Handles(e, "seen", "stored")
    /\ refs' = refs \cup {e}
    /\ reader' = [reader EXCEPT ![e] = "queued"]
    /\ UNCHANGED <<disk, aged, removing, runs, kept>>

(***************************************************************************)
(* resolveMediaRefs                                                        *)
(***************************************************************************)

ResolveWithMeta(e) ==
    /\ reader[e] = "queued"
    /\ reader' = [reader EXCEPT ![e] = IF e \in refs THEN "resolved" ELSE "left out"]
    /\ UNCHANGED <<disk, refs, aged, handler, removing, runs, kept>>

OpenFile(e) ==
    /\ reader[e] = "resolved"
    /\ reader' = [reader EXCEPT ![e] = IF PathOf[e] \in disk THEN "sent" ELSE "left out"]
    /\ UNCHANGED <<disk, refs, aged, handler, removing, runs, kept>>

(***************************************************************************)
(* CleanExpired                                                            *)
(***************************************************************************)

Age(e) ==
    /\ e \in refs \ aged
    /\ aged' = aged \cup {e}
    /\ UNCHANGED <<disk, refs, handler, removing, reader, runs, kept>>

\* MUTANT: the files go before the references.
CollectOnly ==
    /\ removing = {} /\ aged # {}
    /\ removing' = aged /\ aged' = {}
    /\ UNCHANGED <<disk, refs, handler, reader, runs, kept>>

CollectExpired ==
    /\ removing = {} /\ aged # {}
    /\ removing' = aged /\ aged' = {}
    /\ refs' = refs \ aged
    /\ UNCHANGED <<disk, handler, reader, runs, kept>>

\* Errors are only logged.
RemoveFile(e) ==
    /\ e \in removing
    /\ removing' = removing \ {e}
    /\ \/ disk' = disk \ {PathOf[e]} /\ UNCHANGED kept
       \/ kept' = kept \cup {PathOf[e]} /\ UNCHANGED disk
    /\ UNCHANGED <<refs, aged, handler, reader, runs>>

(***************************************************************************)
(* The process ends and starts again; the platform may deliver again       *)
(***************************************************************************)

MediaRestart ==
    /\ runs < MaxRun
    /\ runs' = runs + 1
    /\ refs' = {} /\ aged' = {} /\ removing' = {}
    /\ handler' = Fresh /\ reader' = Fresh
    /\ kept' = kept \cup disk
    /\ UNCHANGED disk

MediaNext ==
    \/ \E e \in Delivery :
          \/ CreateFile(e) \/ WriteFile(e) \/ StoreStat(e) \/ StoreFails(e) \/ StoreRef(e)
          \/ ResolveWithMeta(e) \/ OpenFile(e) \/ Age(e) \/ RemoveFile(e)
    \/ CollectExpired \/ MediaRestart

MediaSpec == MediaInit /\ [][MediaNext]_mediaVars

(***************************************************************************)
(* Properties                                                              *)
(***************************************************************************)

MediaTypeOK ==
    /\ disk \subseteq Path /\ kept \subseteq Path
    /\ aged \subseteq refs /\ refs \subseteq Delivery /\ removing \subseteq Delivery
    /\ handler \in [Delivery -> {"none", "writing", "written", "seen", "unseen", "stored", "failed"}]
    /\ reader \in [Delivery -> {"none", "queued", "resolved", "sent", "left out"}]
    /\ runs \in 1..MaxRun

Alone(e) == \A f \in Delivery \ {e} : PathOf[f] # PathOf[e]

\* A reference that can be resolved has its file, when no other delivery names its file alike:
\* the clean-up takes the reference away first, and the file goes later, without the lock.
EntryHasFile == \A e \in refs : Alone(e) => PathOf[e] \in disk

\* A file is somebody's: of a handler, of a reference or of the clean-up, as long as no removal
\* fails and the process goes on.
FilesHaveOwners ==
    \A p \in disk \ kept : \E e \in Delivery :
        PathOf[e] = p /\ (handler[e] \in {"writing", "written", "seen"} \/ e \in refs \cup removing)

\* "using a unique name to avoid collisions": no delivery takes the file of another one.
NamesAreUnique == \A e \in refs : PathOf[e] \in disk
=============================================================================
