--------------------------- MODULE DeveloperImage ---------------------------
(***************************************************************************)
(* findDeveloperImage of src/lib/imagemounter/utils: the developer image   *)
(* of one iOS version is kept in two places, a zip file and the directory  *)
(* it was unpacked to.  A call downloads the zip if there is none, and     *)
(* unpacks it if the directory has no image.  Nothing is locked and        *)
(* nothing is written aside and renamed, so other calls, of this process   *)
(* or of another one, see whatever is there; and a process may end         *)
(* anywhere and leave it there.                                            *)
(*                                                                         *)
(* GitHub, the file system, net.downloadFile and zip.extractAllTo are      *)
(* external: a file is opened at its final path and truncated, then        *)
(* written; what is written is the same for everybody, so a file is whole  *)
(* once the call that truncated it last is through.                        *)
(***************************************************************************)
EXTENDS Naturals, Sequences

CONSTANTS Callers,   \* who may call, each in a process of its own
          MaxFinds   \* bound: calls made in one behaviour

\* What tells who has torn a file is not one of the words for its other states.
ASSUME DeveloperImageAssumption ==
  /\ MaxFinds \in Nat
  /\ "absent" \notin Callers /\ "whole" \notin Callers

File == {"image", "signature"}

VARIABLES
  archive,    \* what the zip holds, in its order
  zip,        \* the file at fullDownloadPath: "absent", "whole", or torn by a caller
  folder,     \* each file below decompressPath, likewise
  phase,      \* where each call is
  source,     \* what its unpacking reads: the zip, or one that was removed since
  unpacked,   \* how many entries it has unpacked
  searches,   \* how many calls were made
  raced,      \* history: two calls were to download at the same time
  abandoned,  \* history: a process ended before its download was through
  cut         \* history: an unpacking ended between the first entry and the last

imageVars == <<archive, zip, folder, phase, source, unpacked, searches, raced, abandoned, cut>>
files == <<zip, folder>>
imageHistory == <<raced, abandoned, cut>>

Ended == {"idle", "returned", "failed", "crashed"}
ToDownload == {"listing", "fetching", "downloading", "removing"}

ImageInit ==
  /\ archive \in {<<"image", "signature">>, <<"signature", "image">>, <<"signature">>}
  /\ zip = "absent"
  /\ folder = [f \in File |-> "absent"]
  /\ phase = [c \in Callers |-> "idle"]
  /\ source = [c \in Callers |-> "none"]
  /\ unpacked = [c \in Callers |-> 0]
  /\ searches = 0
  /\ raced = FALSE /\ abandoned = FALSE /\ cut = FALSE

Goes(c, from, to) == phase[c] = from /\ phase' = [phase EXCEPT ![c] = to]

---------------------------------------------------------------------------
(* The call up to the download.                                            *)

\* findDeveloperImage is called.  It makes DEFAULT_IMAGE_DIR, which nobody removes.
Start(c) ==
  /\ phase[c] \in Ended /\ searches < MaxFinds
  /\ phase' = [phase EXCEPT ![c] = "checking"]
  /\ searches' = searches + 1
  /\ UNCHANGED <<archive, files, source, unpacked, imageHistory>>

\* Mutant: the zip is downloaded again by every call.
CheckZipNever(c) ==
  /\ Goes(c, "checking", "listing")
  /\ raced' = (raced \/ \E d \in Callers \ {c} : phase[d] \in ToDownload)
  /\ UNCHANGED <<archive, files, source, unpacked, searches, abandoned, cut>>

\* exists(fullDownloadPath) says whether there is a file, not whether it is whole.
CheckZip(c) ==
  /\ Goes(c, "checking", IF zip = "absent" THEN "listing" ELSE "looking")
  /\ raced' = (raced \/ (zip = "absent" /\ \E d \in Callers \ {c} : phase[d] \in ToDownload))
  /\ UNCHANGED <<archive, files, source, unpacked, searches, abandoned, cut>>

\* The folders of the repository are listed one after the other: the zip is there.
Listed(c) ==
  /\ Goes(c, "listing", "fetching")
  /\ UNCHANGED <<archive, files, source, unpacked, searches, imageHistory>>

\* GitHub does not answer, a folder is missing or is no folder, or no name matches.
ListFails(c) ==
  /\ Goes(c, "listing", "failed")
  /\ UNCHANGED <<archive, files, source, unpacked, searches, imageHistory>>

\* net.downloadFile has an answer and opens the file.
OpenDownload(c) ==
  /\ Goes(c, "fetching", "downloading")
  /\ zip' = c
  /\ UNCHANGED <<archive, folder, source, unpacked, searches, imageHistory>>

\* It has written the last byte, to the file it opened.
Downloaded(c) ==
  /\ Goes(c, "downloading", "looking")
  /\ zip' = IF zip = c THEN "whole" ELSE zip
  /\ UNCHANGED <<archive, folder, source, unpacked, searches, imageHistory>>

\* Mutant: the download is not cleaned up after an error.
DownloadFailsUncleaned(c) ==
  /\ phase[c] \in {"fetching", "downloading"}
  /\ phase' = [phase EXCEPT ![c] = "failed"]
  /\ UNCHANGED <<archive, files, source, unpacked, searches, imageHistory>>

\* It throws, before or after it opened the file.
DownloadFails(c) ==
  /\ phase[c] \in {"fetching", "downloading"}
  /\ phase' = [phase EXCEPT ![c] = "removing"]
  /\ UNCHANGED <<archive, files, source, unpacked, searches, imageHistory>>

\* rimraf(fullDownloadPath), and the error is thrown on.  Who has the file open
\* keeps it as it is.
RemoveZip(c) ==
  /\ Goes(c, "removing", "failed")
  /\ source' = [d \in Callers |-> IF source[d] # "path" THEN source[d]
                                  ELSE IF zip = "whole" THEN "removedWhole" ELSE "removedTorn"]
  /\ zip' = "absent"
  /\ UNCHANGED <<archive, folder, unpacked, searches, imageHistory>>

---------------------------------------------------------------------------
(* From the zip to the image.                                              *)

\* findDeveloperImageFromDirectory finds the image by its name.
HasImage == folder["image"] # "absent"

Look(c) ==
  /\ Goes(c, "looking", IF HasImage THEN "returned" ELSE "opening")
  /\ UNCHANGED <<archive, files, source, unpacked, searches, imageHistory>>

\* extractAllTo reads the list of entries, which is at the end of the zip.
OpenZip(c) ==
  /\ Goes(c, "opening", IF zip = "whole" THEN "unpacking" ELSE "failed")
  /\ source' = [source EXCEPT ![c] = IF zip = "whole" THEN "path" ELSE "none"]
  /\ unpacked' = [unpacked EXCEPT ![c] = 0]
  /\ UNCHANGED <<archive, files, searches, imageHistory>>

\* The zip that c unpacks is whole as c reads it.
Readable(c) == source[c] = "removedWhole" \/ (source[c] = "path" /\ zip = "whole")

\* The file of the next entry is opened.
OpenEntry(c) ==
  /\ unpacked[c] < Len(archive) /\ Readable(c)
  /\ Goes(c, "unpacking", "writing")
  /\ folder' = [folder EXCEPT ![archive[unpacked[c] + 1]] = c]
  /\ UNCHANGED <<archive, zip, source, unpacked, searches, imageHistory>>

\* Its last byte is written.
EntryWritten(c) ==
  /\ Readable(c)
  /\ Goes(c, "writing", "unpacking")
  /\ folder' = [folder EXCEPT ![archive[unpacked[c] + 1]] = IF @ = c THEN "whole" ELSE @]
  /\ unpacked' = [unpacked EXCEPT ![c] = @ + 1]
  /\ UNCHANGED <<archive, zip, source, searches, imageHistory>>

\* Mutant: the call returns as soon as the image is there.
UnpackedEarly(c) ==
  /\ HasImage /\ Goes(c, "unpacking", "returned")
  /\ source' = [source EXCEPT ![c] = "none"]
  /\ UNCHANGED <<archive, files, unpacked, searches, imageHistory>>

\* extractAllTo is through: the directory is searched again.
Unpacked(c) ==
  /\ unpacked[c] = Len(archive)
  /\ Goes(c, "unpacking", IF HasImage THEN "returned" ELSE "failed")
  /\ source' = [source EXCEPT ![c] = "none"]
  /\ UNCHANGED <<archive, files, unpacked, searches, imageHistory>>

\* c has unpacked a part of the archive.
Halfway(c) ==
  \/ phase[c] = "writing"
  \/ phase[c] = "unpacking" /\ unpacked[c] \in 1 .. Len(archive) - 1

\* extractAllTo throws: the zip cannot be read any more, or the disk is full.
UnpackFails(c) ==
  /\ phase[c] \in {"unpacking", "writing"} /\ unpacked[c] < Len(archive)
  /\ phase' = [phase EXCEPT ![c] = "failed"]
  /\ source' = [source EXCEPT ![c] = "none"]
  /\ cut' = (cut \/ Halfway(c))
  /\ UNCHANGED <<archive, files, unpacked, searches, raced, abandoned>>

\* The process of the call ends; what it has written stays.
Crash(c) ==
  /\ phase[c] \notin Ended
  /\ phase' = [phase EXCEPT ![c] = "crashed"]
  /\ source' = [source EXCEPT ![c] = "none"]
  /\ abandoned' = (abandoned \/ phase[c] \in {"downloading", "removing"})
  /\ cut' = (cut \/ Halfway(c))
  /\ UNCHANGED <<archive, files, unpacked, searches, raced>>

ImageNext ==
  \E c \in Callers :
    \/ Start(c) \/ CheckZip(c)
    \/ Listed(c) \/ ListFails(c)
    \/ OpenDownload(c) \/ Downloaded(c) \/ DownloadFails(c) \/ RemoveZip(c)
    \/ Look(c) \/ OpenZip(c)
    \/ OpenEntry(c) \/ EntryWritten(c) \/ Unpacked(c) \/ UnpackFails(c)
    \/ Crash(c)

---------------------------------------------------------------------------
(* Properties.                                                             *)

\* Whoever was given the paths of an image and its signature finds both whole, as
\* long as no call is unpacking just then and no unpacking was ever cut short: a
\* search that finds the image takes its directory as it is, and nobody waits for
\* who is at work in it (findDeveloperImage).
ReturnedIsWhole ==
  (\E c \in Callers : phase[c] = "returned") =>
    \/ \A f \in File : folder[f] = "whole"
    \/ \E d \in Callers : Halfway(d)
    \/ cut

\* A torn zip is one that a call is still writing or about to remove.  Only the
\* end of a process leaves one behind, which no call ever replaces
\* (searchAndDownloadDeveloperImageFromGithub).
TornZipIsUnderWay ==
  zip \in Callers => phase[zip] \in {"downloading", "removing"} \/ abandoned

\* A zip that was downloaded in full stays, unless two calls had found none and
\* downloaded it both: the second one then truncates it, or removes it with the
\* remains of its own download (searchAndDownloadDeveloperImageFromGithub).
WholeZipKept == [][zip = "whole" /\ zip' # "whole" => raced]_imageVars
==========================================================================
