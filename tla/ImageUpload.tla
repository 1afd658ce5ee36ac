----------------------------- MODULE ImageUpload -----------------------------
(***************************************************************************)
(* rest_client::upload_file and upload_from_url.                           *)
(*                                                                         *)
(* upload_from_url fetches an image once, settles what it is from its      *)
(* Content-Type and its first bytes, names it accordingly, and hands it to *)
(* upload_file, which sends it to the file server until it is answered:    *)
(* here lost answers and answers of 429 are counted alike.                 *)
(***************************************************************************)
EXTENDS Naturals

CONSTANTS
  Image,          \* the images, each with the call that uploads it
  Mimes,          \* the types a caller or a Content-Type may name
  RetryCount      \* config.http_retry_count

Unknown == "unknown"        \* no header, no signature, no extension

(* The types that upload_from_url tells by the first bytes, and the        *)
(* extensions it gives to the types it knows.                              *)
Signatures == {"image/jpeg", "image/png", "image/gif", "image/webp"}

Extension ==
  [m \in Signatures \cup {"image/jpg", "image/svg+xml"} |->
     CASE m \in {"image/jpeg", "image/jpg"} -> ".jpg"
       [] m = "image/png" -> ".png"
       [] m = "image/gif" -> ".gif"
       [] m = "image/webp" -> ".webp"
       [] m = "image/svg+xml" -> ".svg"]

VARIABLES
  image,          \* what is uploaded, and how the caller describes it
  pc,
  retries,        \* the tries of upload_file that failed
  chosen,         \* effective_mime and the extension of effective_filename
  answer,         \* the file server's answer on its way
  stored,         \* the files it stored, as they were described to it
  lost,           \* how many answers got lost
  result          \* what the caller gets

vars == <<image, pc, retries, chosen, answer, stored, lost, result>>

Images ==
  [from : {"url", "data"}, given : Mimes, extension : {Unknown, ".png"},
   header : Mimes \cup {Unknown}, bytes : Signatures \cup {Unknown}]

Descriptions == [mime : Mimes \cup Signatures, extension : {Unknown} \cup
                 {Extension[m] : m \in DOMAIN Extension}]

TypeOK ==
  /\ image \in [Image -> Images]
  /\ pc \in [Image -> {"idle", "fetching", "sending", "sent", "done"}]
  /\ retries \in [Image -> 0..RetryCount]
  /\ chosen \in [Image -> Descriptions]
  /\ answer \in [Image -> {"none", "id", "noId", "refused", "limited"}]
  /\ stored \in [Image -> Nat]
  /\ lost \in [Image -> Nat]
  /\ result \in [Image -> {"none", "id", "success", "nothing"}]

EffectiveMime(i) ==
  IF image[i].bytes # Unknown THEN image[i].bytes
  ELSE IF image[i].header # Unknown THEN image[i].header ELSE image[i].given

Described(i) ==
  LET mime == EffectiveMime(i)
  IN  [mime |-> mime,
       extension |-> IF mime \in DOMAIN Extension THEN Extension[mime]
                     ELSE image[i].extension]

Init ==
  /\ image \in [Image -> Images]
  /\ pc = [i \in Image |-> "idle"]
  /\ retries = [i \in Image |-> 0]
  /\ chosen = [i \in Image |-> [mime |-> image[i].given, extension |-> image[i].extension]]
  /\ answer = [i \in Image |-> "none"]
  /\ stored = [i \in Image |-> 0]
  /\ lost = [i \in Image |-> 0]
  /\ result = [i \in Image |-> "none"]
-----------------------------------------------------------------------------
Finish(i, r) ==
  /\ pc' = [pc EXCEPT ![i] = "done"]
  /\ result' = [result EXCEPT ![i] = r]

-----------------------------------------------------------------------------
Call(i) ==
  /\ pc[i] = "idle"
  /\ pc' = [pc EXCEPT ![i] = IF image[i].from = "url" THEN "fetching" ELSE "sending"]
  /\ UNCHANGED <<image, retries, chosen, answer, stored, lost, result>>

(* The image is fetched once; whatever goes wrong, nothing is uploaded. *)
FetchFails(i) ==
  /\ pc[i] = "fetching"
  /\ Finish(i, "nothing")
  /\ UNCHANGED <<image, retries, chosen, answer, stored, lost>>

Fetched(i) ==
  /\ pc[i] = "fetching"
  /\ chosen' = [chosen EXCEPT ![i] = Described(i)]
  /\ pc' = [pc EXCEPT ![i] = "sending"]
  /\ UNCHANGED <<image, retries, answer, stored, lost, result>>

Send(i) ==
  /\ pc[i] = "sending"
  /\ pc' = [pc EXCEPT ![i] = "sent"]
  /\ UNCHANGED <<image, retries, chosen, answer, stored, lost, result>>

(* Another try, after a second or the wait of a 429, or given up. *)
TryAgain(i) ==
  \/ /\ retries[i] < RetryCount
     /\ retries' = [retries EXCEPT ![i] = @ + 1]
     /\ pc' = [pc EXCEPT ![i] = "sending"]
     /\ UNCHANGED result
  \/ /\ retries[i] = RetryCount
     /\ Finish(i, "nothing")
     /\ UNCHANGED retries

Lost(i) ==
  /\ pc[i] = "sent"
  /\ TryAgain(i)
  /\ answer' = [answer EXCEPT ![i] = "none"]
  /\ lost' = [lost EXCEPT ![i] = @ + 1]
  /\ UNCHANGED <<image, chosen, stored>>

Limited(i) ==
  /\ answer[i] = "limited"
  /\ TryAgain(i)
  /\ answer' = [answer EXCEPT ![i] = "none"]
  /\ UNCHANGED <<image, chosen, stored, lost>>

Refused(i) ==
  /\ answer[i] = "refused"
  /\ Finish(i, "nothing")
  /\ answer' = [answer EXCEPT ![i] = "none"]
  /\ UNCHANGED <<image, retries, chosen, stored, lost>>

(* "nothing" is an empty id; it is an exception of dump() instead if the   *)
(* answer without an id is neither JSON nor UTF-8.                         *)
Answered(i) ==
  /\ answer[i] \in {"id", "noId"}
  /\ Finish(i, IF image[i].from = "data" THEN "success"
               ELSE IF answer[i] = "id" THEN "id" ELSE "nothing")
  /\ answer' = [answer EXCEPT ![i] = "none"]
  /\ UNCHANGED <<image, retries, chosen, stored, lost>>

(* The file server. *)
Serve(i) ==
  /\ pc[i] = "sent" /\ answer[i] = "none"
  /\ \/ /\ \E a \in {"id", "noId"} : answer' = [answer EXCEPT ![i] = a]
        /\ stored' = [stored EXCEPT ![i] = @ + 1]
     \/ /\ \E a \in {"refused", "limited"} : answer' = [answer EXCEPT ![i] = a]
        /\ UNCHANGED stored
  /\ UNCHANGED <<image, pc, retries, chosen, lost, result>>

Step(i) ==
  FetchFails(i) \/ Fetched(i) \/ Send(i) \/ Lost(i) \/ Limited(i) \/ Refused(i) \/ Answered(i)

Next == \E i \in Image : Call(i) \/ Step(i) \/ Serve(i)

(* The thread runs, and every try is answered or times out. *)
Spec == Init /\ [][Next]_vars /\ \A i \in Image : WF_vars(Step(i))
-----------------------------------------------------------------------------
(* A fetched image whose first bytes are known is stored under the type    *)
(* and the extension of its bytes, whatever the caller, the URL's name and *)
(* the Content-Type said; any other image under an extension that fits the *)
(* type it was declared to have.                                           *)
StoredAsWhatItIs ==
  \A i \in Image : image[i].from = "url" /\ stored[i] > 0 =>
    /\ image[i].bytes # Unknown => chosen[i].mime = image[i].bytes
    /\ chosen[i].mime \in DOMAIN Extension =>
         chosen[i].extension = Extension[chosen[i].mime]

(* An id or a success is a stored file; a file that was stored more than   *)
(* once, or although nothing was returned, is due to a lost answer or to   *)
(* one without an id; and the tries of both kinds together are bounded.    *)
StoredOnceUnlessLost ==
  \A i \in Image :
    /\ result[i] \in {"id", "success"} => stored[i] > 0
    /\ stored[i] <= lost[i] + 1
    /\ lost[i] <= retries[i] + 1

(* An image is stored as what it is, and once.                             *)
UploadsAreSound == TypeOK /\ StoredAsWhatItIs /\ StoredOnceUnlessLost

(* Every upload ends: answers of 429 are counted here. *)
UploadEnds == \A i \in Image : pc[i] # "idle" ~> pc[i] = "done"
=============================================================================
