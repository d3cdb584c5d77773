--------------------------- MODULE MCFileTransfer ---------------------------
(***************************************************************************)
(* Instances of FileTransfer for TLC: a file of three sections that had to *)
(* grow to be so few, an empty one, and a name the station does not know.  *)
(***************************************************************************)
EXTENDS FileTransfer, TLC

MCContent == "disturbance" :> <<1, 2, 3, 4, 5>> @@ "empty" :> <<>>
MCName == DOMAIN MCContent \cup {"unknown"}
MCNof == "disturbance" :> 1 @@ "empty" :> 1 @@ "unknown" :> 2

\* The theorems apply to these files.
ASSUME TheoremsApply == OneMaster /\ QuietAbort /\ PromptSelect /\ Trusted
=============================================================================
