------------------------------ MODULE Thumbnails ------------------------------
(***************************************************************************)
(* Local artifacts (internal/api/artifacts.go, thumbnail.go): the image of *)
(* a job is written to the job's directory with a JPEG preview beside it,  *)
(* and a request for a preview that is missing makes it from the image.    *)
(* Both write the preview to the same temporary name and rename it.        *)
(*                                                                         *)
(* Files are modelled as the operating system does: a name refers to an    *)
(* inode, an open file to the inode that the name had when it was opened,  *)
(* and rename moves the name alone.  One image of one job is followed.     *)
(***************************************************************************)
EXTENDS Integers

CONSTANTS
  Job,        \* the worker that saves the image
  Requests,   \* GETs of the preview
  MaxErrors   \* bound on failing writes

ASSUME ThumbnailsAssumption ==
  /\ Job \notin Requests /\ MaxErrors \in Nat
  /\ {"none", "image"} \cap (Requests \cup {Job}) = {}

VARIABLES
  files,       \* from names to inodes
  content,     \* of inodes
  proc,        \* progress, the inode that is open, and what was answered
  errors,
  overlapped   \* history: two were writing the preview at once

disk == <<files, content>>
thumbVars == <<disk, proc, errors, overlapped>>

Writers == {Job} \cup Requests
\* An inode for each file that may be made: a temporary one by each writer, and the image.
Inodes == Writers \cup {"image"}
None == "none"
Names == {"0.png", "0_thumb.jpg", "0_thumb.jpg.tmp"}
Thumb == "0_thumb.jpg"
\* Mutant: the preview is written in place.
TmpName_InPlace == Thumb
TmpName == "0_thumb.jpg.tmp"

Proc == [pc : {"idle", "image", "fill", "stat", "read", "open", "write", "rename", "serve", "done"},
         fd : Inodes \cup {None}, reply : {None, "404", "partial", "whole"}]

ThumbTypeOK ==
  /\ files \in [Names -> Inodes \cup {None}]
  /\ content \in [Inodes -> {"empty", "whole"}]
  /\ proc \in [Writers -> Proc]
  /\ errors \in 0..MaxErrors /\ overlapped \in BOOLEAN

ThumbInit ==
  /\ files = [n \in Names |-> None]
  /\ content = [i \in Inodes |-> "empty"]
  /\ proc = [p \in Writers |-> [pc |-> "idle", fd |-> None, reply |-> None]]
  /\ errors = 0 /\ overlapped = FALSE

Goto(p, pc) == proc' = [proc EXCEPT ![p].pc = pc]
Reply(p, r) == proc' = [proc EXCEPT ![p] = [pc |-> "done", fd |-> None, reply |-> r]]
NoError == UNCHANGED errors
Error == errors < MaxErrors /\ errors' = errors + 1

\* A preview that fails is left out by the worker and is a 404 to a request.
ThumbFails(p) == IF p = Job THEN Reply(p, None) ELSE Reply(p, "404")

-----------------------------------------------------------------------------
(* materializeJobImages: the image, then its preview *)

SaveStart == proc[Job].pc = "idle" /\ Goto(Job, "image") /\ NoError /\ UNCHANGED <<disk, overlapped>>

OpenImage ==
  /\ proc[Job].pc = "image"
  /\ files' = [files EXCEPT !["0.png"] = "image"]
  /\ Goto(Job, "fill") /\ NoError /\ UNCHANGED <<content, overlapped>>

FillImage ==
  /\ proc[Job].pc = "fill"
  /\ \/ content' = [content EXCEPT !["image"] = "whole"] /\ Goto(Job, "open") /\ NoError
     \/ Reply(Job, None) /\ Error /\ UNCHANGED content
  /\ UNCHANGED <<files, overlapped>>

-----------------------------------------------------------------------------
(* HandleServeArtifact, ensureArtifactThumb *)

GetStart(r) == proc[r].pc = "idle" /\ Goto(r, "stat") /\ NoError /\ UNCHANGED <<disk, overlapped>>

Stat(r) ==
  /\ proc[r].pc = "stat"
  /\ Goto(r, IF files[Thumb] # None THEN "serve" ELSE "read")
  /\ NoError /\ UNCHANGED <<disk, overlapped>>

\* An image that is missing, or that is read before it has been filled and cannot be
\* decoded, is a 404.
ReadImage(r) ==
  /\ proc[r].pc = "read"
  /\ IF files["0.png"] # None /\ content["image"] = "whole" THEN Goto(r, "open") ELSE Reply(r, "404")
  /\ NoError /\ UNCHANGED <<disk, overlapped>>

-----------------------------------------------------------------------------
(* writeJPEGThumbFile: WriteFile truncates the file of the name, or makes a new one, and
   fills it; then it is renamed. *)

Writing == {p \in Writers : proc[p].pc \in {"write", "rename"}}

OpenTmp(p) ==
  LET inode == IF files[TmpName] = None THEN p ELSE files[TmpName] IN
  /\ proc[p].pc = "open"
  /\ files' = [files EXCEPT ![TmpName] = inode]
  /\ content' = [content EXCEPT ![inode] = "empty"]
  /\ proc' = [proc EXCEPT ![p] = [pc |-> "write", fd |-> inode, reply |-> None]]
  /\ overlapped' = (overlapped \/ Writing # {})
  /\ NoError

WriteTmp(p) ==
  /\ proc[p].pc = "write"
  /\ \/ content' = [content EXCEPT ![proc[p].fd] = "whole"] /\ Goto(p, "rename") /\ NoError
     \/ ThumbFails(p) /\ Error /\ UNCHANGED content
  /\ UNCHANGED <<files, overlapped>>

\* The temporary name may be gone: another writer has renamed it.
Rename(p) ==
  /\ proc[p].pc = "rename"
  /\ IF files[TmpName] = None
       THEN ThumbFails(p) /\ UNCHANGED files
       ELSE /\ files' = [n \in Names |-> CASE n = Thumb -> files[TmpName]
                                            [] n = TmpName -> None
                                            [] OTHER -> files[n]]
            /\ IF p = Job THEN Reply(p, None) ELSE Goto(p, "serve")
  /\ NoError /\ UNCHANGED <<content, overlapped>>

\* The file is served as it is at the time, and cached by the browser for a day.
Serve(r) ==
  /\ proc[r].pc = "serve"
  /\ Reply(r, IF files[Thumb] = None THEN "404"
              ELSE IF content[files[Thumb]] = "whole" THEN "whole" ELSE "partial")
  /\ NoError /\ UNCHANGED <<disk, overlapped>>

Thumbnail ==
  \/ OpenImage \/ FillImage
  \/ \E r \in Requests : GetStart(r) \/ Stat(r) \/ ReadImage(r) \/ Serve(r)
  \/ \E p \in Writers : OpenTmp(p) \/ WriteTmp(p) \/ Rename(p)

-----------------------------------------------------------------------------
\* A preview is whole whenever it can be served, and one that was served was, unless two
\* writers of the temporary file overlapped: then the second truncates the file that the
\* first has already given its name.
ThumbWhole ==
  ~overlapped =>
    /\ files[Thumb] # None => content[files[Thumb]] = "whole"
    /\ \A r \in Requests : proc[r].reply # "partial"
=============================================================================
