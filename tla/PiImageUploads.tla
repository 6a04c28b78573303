-------------------------- MODULE PiImageUploads --------------------------
(***************************************************************************)
(* Staging of prompt images (pi-image-upload.ts).  Every begin that makes  *)
(* a new upload makes a new entry: the identity that a commit in flight    *)
(* compares with the map after each of its awaits.  Chunks are abstract:   *)
(* an entry is complete or not.  The instance decides who may call, and    *)
(* when a workspace is released.                                           *)
(***************************************************************************)
CONSTANTS
  Uploads,     \* upload ids of the workspace
  Entries,     \* entries that begin makes, each at most once
  UploadOf,    \* the upload id of an entry
  None

ASSUME UploadsAssumption ==
  /\ UploadOf \in [Entries -> Uploads]
  /\ None \notin Entries

VARIABLES
  uploads,     \* upload id -> its entry, or None
  stage,       \* entry -> "unused", "staging", "complete", "committed"
  flight,      \* entry -> where its commit awaits, or "none"
  file,        \* entry -> "none", "partial", "whole": what is on the disk
  directory,   \* "none", "making", "made", "failed": the promise of mkdtemp
  releasing,   \* entries that a release of the workspace is waiting for
  kept         \* entries whose file could not be removed, which a caller was told

uploadVars == <<uploads, stage, flight, file, directory, releasing, kept>>

UploadTypeOK ==
  /\ uploads \in [Uploads -> Entries \cup {None}]
  /\ stage \in [Entries -> {"unused", "staging", "complete", "committed"}]
  /\ flight \in [Entries -> {"none", "directory", "writing", "removing"}]
  /\ file \in [Entries -> {"none", "partial", "whole"}]
  /\ directory \in {"none", "making", "made", "failed"}
  /\ releasing \subseteq Entries
  /\ kept \subseteq Entries

UploadInit ==
  /\ uploads = [u \in Uploads |-> None]
  /\ stage = [e \in Entries |-> "unused"]
  /\ flight = [e \in Entries |-> "none"]
  /\ file = [e \in Entries |-> "none"]
  /\ directory = "none"
  /\ releasing = {}
  /\ kept = {}

\* The map still holds this very entry.
Listed(e) == uploads[UploadOf[e]] = e

-----------------------------------------------------------------------------
(* Calls.                                                                  *)

\* begin of an upload id that the map does not hold; of one it holds, begin
\* only reports how far it is.
UploadBegin(e) ==
  /\ stage[e] = "unused"
  /\ uploads[UploadOf[e]] = None
  /\ uploads' = [uploads EXCEPT ![UploadOf[e]] = e]
  /\ stage' = [stage EXCEPT ![e] = "staging"]
  /\ UNCHANGED <<flight, file, directory, releasing, kept>>

\* The last chunk of an entry.
UploadChunk(e) ==
  /\ Listed(e)
  /\ stage[e] = "staging"
  /\ stage' = [stage EXCEPT ![e] = "complete"]
  /\ UNCHANGED <<uploads, flight, file, directory, releasing, kept>>

\* commit up to its first await; a commit beside one in flight shares it, and
\* one of a committed entry answers at once.
UploadCommit(e) ==
  /\ Listed(e)
  /\ stage[e] = "complete"
  /\ flight[e] = "none"
  /\ flight' = [flight EXCEPT ![e] = "directory"]
  /\ directory' = IF directory = "none" THEN "making" ELSE directory
  /\ UNCHANGED <<uploads, stage, file, releasing, kept>>

\* A committed ref may be in a prompt: abort leaves it.
UploadAbort(e) ==
  /\ Listed(e)
  /\ stage[e] # "committed"
  /\ uploads' = [uploads EXCEPT ![UploadOf[e]] = None]
  /\ UNCHANGED <<stage, flight, file, directory, releasing, kept>>

-----------------------------------------------------------------------------
(* A commit after each of its awaits.                                      *)

\* mkdtemp ends; its promise is kept, a rejected one too.
DirectoryEnds ==
  /\ directory = "making"
  /\ directory' \in {"made", "failed"}
  /\ UNCHANGED <<uploads, stage, flight, file, releasing, kept>>

CommitAfterDirectory(e) ==
  /\ flight[e] = "directory"
  /\ directory \in {"made", "failed"}
  /\ flight' = [flight EXCEPT ![e] =
                  IF directory = "made" /\ Listed(e) THEN "writing" ELSE "none"]
  /\ UNCHANGED <<uploads, stage, file, directory, releasing, kept>>

\* Bug: the identity of the entry is not looked at again after the write.
WriteWithoutLook(e) ==
  /\ flight[e] = "writing"
  /\ file' = [file EXCEPT ![e] = "whole"]
  /\ flight' = [flight EXCEPT ![e] = "none"]
  /\ stage' = [stage EXCEPT ![e] = "committed"]
  /\ UNCHANGED <<uploads, directory, releasing, kept>>

\* The file is written, and the entry looked up again: the ref is given out, or
\* the file of an entry that was dropped meanwhile is removed.
WriteSucceeds(e) ==
  /\ flight[e] = "writing"
  /\ file' = [file EXCEPT ![e] = "whole"]
  /\ IF Listed(e)
     THEN /\ flight' = [flight EXCEPT ![e] = "none"]
          /\ stage' = [stage EXCEPT ![e] = "committed"]
     ELSE /\ flight' = [flight EXCEPT ![e] = "removing"]
          /\ UNCHANGED stage
  /\ UNCHANGED <<uploads, directory, releasing, kept>>

\* writeFile fails, with or without a file begun; a repeated commit writes
\* another file, so what is begun stays until the Host removes the directory.
WriteFails(e) ==
  /\ flight[e] = "writing"
  /\ flight' = [flight EXCEPT ![e] = "none"]
  /\ file' \in {file, [file EXCEPT ![e] = "partial"]}
  /\ UNCHANGED <<uploads, stage, directory, releasing, kept>>

\* The removal by the commit itself ends, or fails and the commit reports it.
OwnFileRemoved(e) ==
  /\ flight[e] = "removing"
  /\ flight' = [flight EXCEPT ![e] = "none"]
  /\ \/ /\ file' = [file EXCEPT ![e] = "none"]
        /\ UNCHANGED kept
     \/ /\ kept' = kept \cup {e}
        /\ UNCHANGED file
  /\ UNCHANGED <<uploads, stage, directory, releasing>>

-----------------------------------------------------------------------------
(* releaseWorkspace.                                                       *)

UploadReleaseBegin ==
  /\ releasing' = {e \in Entries : Listed(e)}
  /\ uploads' = [u \in Uploads |-> None]
  /\ UNCHANGED <<stage, flight, file, directory, kept>>

\* The release has waited for the commit of an entry, and removes the file of
\* one that was committed.
EntryReleased(e) ==
  /\ e \in releasing
  /\ flight[e] = "none"
  /\ releasing' = releasing \ {e}
  /\ \/ /\ file' = IF stage[e] = "committed" THEN [file EXCEPT ![e] = "none"] ELSE file
        /\ UNCHANGED kept
     \/ /\ stage[e] = "committed"
        /\ kept' = kept \cup {e}
        /\ UNCHANGED file
  /\ UNCHANGED <<uploads, stage, flight, directory>>

CommitStep ==
  \/ DirectoryEnds
  \/ \E e \in Entries :
       \/ CommitAfterDirectory(e) \/ WriteSucceeds(e) \/ WriteFails(e)
       \/ OwnFileRemoved(e) \/ EntryReleased(e)

-----------------------------------------------------------------------------
(* A ref that was given out has its file until the workspace is released,  *)
(* whatever is aborted or begun meanwhile; and a whole file that no commit *)
(* is busy with belongs to an upload, to a release that will remove it, or *)
(* was reported: neither abort nor release leaves one behind.              *)
FilesOwned ==
  \A e \in Entries :
    /\ stage[e] = "committed" /\ Listed(e) => file[e] = "whole"
    /\ file[e] = "whole" /\ flight[e] = "none" =>
         \/ stage[e] = "committed" /\ (Listed(e) \/ e \in releasing)
         \/ e \in kept

=============================================================================
