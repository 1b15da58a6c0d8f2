----------------------------- MODULE FezoUpload -----------------------------
(***************************************************************************)
(* FezoStorageUtils.uploadFile: a small file is posted whole; for a large  *)
(* one the cloud is asked how much it already has, and the rest is sent in *)
(* blocks of one page, the next upload resuming where this one stopped.    *)
(*                                                                         *)
(* Lengths are counted in units smaller than a page.  The cloud is         *)
(* external: it keeps a prefix of the file, takes only the block that      *)
(* continues the prefix, and answers any other with an error code.         *)
(***************************************************************************)
EXTENDS Naturals, FiniteSets

CONSTANTS
  Uploaders,    \* the hosts and threads that have this one file (by its MD5)
  Lengths,      \* the lengths of the file to consider
  Page,         \* eachFizeSize
  Limit,        \* firstSize
  MaxFaults     \* bound: exceptions and error codes of the cloud in a behavior

ASSUME Sizes == Page \in Nat \ {0} /\ Limit \in Nat /\ Lengths \subseteq Nat
ASSUME FewUploaders == IsFiniteSet(Uploaders) /\ MaxFaults \in Nat

VARIABLES
  present,    \* the uploaders that upload it
  length,     \* file.length()
  cloud,      \* what the cloud has: a prefix of that many units
  pc,         \* per uploader: "idle", "whole", "detect" or "block"
  uploaded,   \* uploadedSize, as detected
  page,       \* i
  resultCode, \* of the last uploadFile: "none", "null", "exists", "done", "error" or "thrown"
  faults

fezoVars == <<present, length, cloud, pc, uploaded, page, resultCode, faults>>

Success == {"exists", "done"}
TotalPage(u) == (length - uploaded[u] + Page - 1) \div Page
Offset(u) == uploaded[u] + page[u] * Page

FezoTypeOK ==
  /\ present \in SUBSET Uploaders
  /\ length \in Lengths /\ cloud \in 0..length
  /\ pc \in [Uploaders -> {"idle", "whole", "detect", "block"}]
  /\ uploaded \in [Uploaders -> 0..length]
  /\ page \in [Uploaders -> Nat]
  /\ resultCode \in [Uploaders -> {"none", "null", "error", "thrown"} \cup Success]
  /\ faults \in 0..MaxFaults
  /\ \A u \in Uploaders : pc[u] = "block" => page[u] < TotalPage(u) /\ Offset(u) < length

FezoInit ==
  /\ present \in SUBSET Uploaders
  /\ length \in Lengths
  /\ cloud = 0
  /\ pc = [u \in Uploaders |-> "idle"]
  /\ uploaded = [u \in Uploaders |-> 0]
  /\ page = [u \in Uploaders |-> 0]
  /\ resultCode = [u \in Uploaders |-> "none"]
  /\ faults = 0

\* The caller tries again until it is told that the file is stored
UploadFile(u) ==
  /\ pc[u] = "idle" /\ resultCode[u] \notin Success
  /\ pc' = [pc EXCEPT ![u] = IF length <= Limit THEN "whole" ELSE "detect"]
  /\ resultCode' = [resultCode EXCEPT ![u] = "null"]
  /\ UNCHANGED <<present, length, cloud, uploaded, page, faults>>

Return(u, r) ==
  /\ pc' = [pc EXCEPT ![u] = "idle"]
  /\ resultCode' = [resultCode EXCEPT ![u] = r]

Fault == faults < MaxFaults /\ faults' = faults + 1

\* A request fails with an exception, before or after the cloud has taken it
Throws(u, taken) ==
  /\ Fault /\ Return(u, "thrown")
  /\ cloud' \in {cloud, taken}
  /\ UNCHANGED <<present, length, uploaded, page>>

UploadFileOld(u) ==
  /\ pc[u] = "whole"
  /\ \/ Return(u, "done") /\ cloud' = length /\ UNCHANGED faults
     \/ Fault /\ Return(u, "error") /\ UNCHANGED cloud
  /\ UNCHANGED <<present, length, uploaded, page>>

UploadFileOldThrows(u) == pc[u] = "whole" /\ Throws(u, length)

\* Faulty variants: resumes behind the first page; does not know the answer for a stored file
DetectOffByPage(u) ==
  /\ pc[u] = "detect" /\ cloud < length
  /\ pc' = [pc EXCEPT ![u] = "block"]
  /\ uploaded' = [uploaded EXCEPT ![u] = IF cloud < Page THEN cloud ELSE cloud - Page]
  /\ page' = [page EXCEPT ![u] = 0]
  /\ UNCHANGED <<present, length, cloud, resultCode, faults>>
DetectOnlyMissing(u) ==
  /\ pc[u] = "detect"
  /\ IF cloud = length
     THEN Return(u, "null") /\ UNCHANGED <<uploaded, page>>
     ELSE /\ pc' = [pc EXCEPT ![u] = "block"]
          /\ uploaded' = [uploaded EXCEPT ![u] = cloud]
          /\ page' = [page EXCEPT ![u] = 0]
          /\ UNCHANGED resultCode
  /\ UNCHANGED <<present, length, cloud, faults>>

\* retCode 0: stored already; 11: resume; any other: nothing is done, resultCode stays null
Detect(u) ==
  /\ pc[u] = "detect"
  /\ \/ /\ cloud = length
        /\ Return(u, "exists") /\ UNCHANGED <<uploaded, page, faults>>
     \/ /\ cloud < length
        /\ pc' = [pc EXCEPT ![u] = "block"]
        /\ uploaded' = [uploaded EXCEPT ![u] = cloud]
        /\ page' = [page EXCEPT ![u] = 0]
        /\ UNCHANGED <<resultCode, faults>>
     \/ Fault /\ Return(u, "null") /\ UNCHANGED <<uploaded, page>>
  /\ UNCHANGED <<present, length, cloud>>

DetectThrows(u) == pc[u] = "detect" /\ Throws(u, cloud)

\* How far the block reaches; a full page is noticed before the end of the file is
End(u) == IF Offset(u) + Page <= length THEN Offset(u) + Page ELSE length
Full(u) == Offset(u) + Page <= length

\* What the loop does with a block's answer: only that of a part page is kept
Advance(u, answer) ==
  IF ~Full(u) THEN Return(u, answer) /\ UNCHANGED page
  ELSE /\ page' = [page EXCEPT ![u] = @ + 1]
       /\ IF page[u] + 1 < TotalPage(u) THEN UNCHANGED <<pc, resultCode>> ELSE Return(u, "null")

\* Faulty variant: any answer to the last block is success
BlockAssumed(u) ==
  /\ pc[u] = "block"
  /\ \/ cloud' = (IF Offset(u) = cloud THEN End(u) ELSE cloud) /\ UNCHANGED faults
     \/ Fault /\ UNCHANGED cloud
  /\ Advance(u, "done")
  /\ UNCHANGED <<present, length, uploaded>>

Block(u) ==
  /\ pc[u] = "block"
  /\ \/ /\ Offset(u) = cloud
        /\ cloud' = End(u) /\ Advance(u, "done") /\ UNCHANGED faults
     \/ /\ Offset(u) # cloud
        /\ Advance(u, "error") /\ UNCHANGED <<cloud, faults>>
     \/ /\ Fault
        /\ Advance(u, "error") /\ UNCHANGED cloud
  /\ UNCHANGED <<present, length, uploaded>>

BlockThrows(u) == pc[u] = "block" /\ Throws(u, IF Offset(u) = cloud THEN End(u) ELSE cloud)

Step(u) ==
  \/ UploadFile(u) \/ UploadFileOld(u) \/ UploadFileOldThrows(u)
  \/ Detect(u) \/ DetectThrows(u) \/ Block(u) \/ BlockThrows(u)

FezoNext == \E u \in present : Step(u)

\* The caller retries, the cloud answers, and only MaxFaults requests go wrong
FezoFairness == \A u \in Uploaders : WF_fezoVars(u \in present /\ Step(u))

FezoSpec == FezoInit /\ [][FezoNext]_fezoVars /\ FezoFairness

-----------------------------------------------------------------------------
(* Lines 245-247, 275-286 and 292: whatever requests failed, were answered *)
(* with ignored error codes (267) or came from another uploader of the     *)
(* same file, a caller that is told of success has its file stored whole.  *)
SuccessMeansStored == \A u \in Uploaders : resultCode[u] \in Success => cloud = length

(* Lines 251-255, for a single uploader: a resumed upload never sends      *)
(* again what the cloud had already taken ("支持断点续传", line 218).      *)
NothingSentTwice ==
  Cardinality(present) = 1 => \A u \in present : pc[u] = "block" => Offset(u) >= cloud

(* Lines 243-292: though a rest of whole pages ends with resultCode null,  *)
(* error codes of full pages are ignored and exceptions cut uploads off, a *)
(* caller that simply tries again is told of success in the end.           *)
RetriesSucceed == \A u \in Uploaders : u \in present ~> resultCode[u] \in Success
=============================================================================
