---------------------------- MODULE MCRestClient ----------------------------
(***************************************************************************)
(* Instances of the modules about requests.  They share no state, so one   *)
(* run takes them side by side: the initial state chooses a part, and only *)
(* that part's instance takes steps.                                       *)
(***************************************************************************)
EXTENDS RestClient

CONSTANTS
  Image, Mimes,                  \* of ImageUpload
  Command, Operation,            \* of AsyncCalls: the calls, and what they call
  firstRequest, firstCommand     \* the ones that are made where one is

VARIABLES
  part,
  image, step, retries, chosen, answer, stored, lost, result,
  respectLimits, asked, thread, done, calls, hooked, faults, deletion, terminated

uploadVars == <<image, step, retries, chosen, answer, stored, lost, result>>
asyncVars == <<respectLimits, asked, thread, done, calls, hooked, faults, deletion, terminated>>
allVars == <<part, vars, uploadVars, asyncVars>>
-----------------------------------------------------------------------------
(* One request that is retried; one whose 429 is thrown; two of one path,  *)
(* which meet in the limiter, on a clock of half milliseconds.             *)
Alone == INSTANCE RestClient WITH TicksPerMs <- 1, MaxClock <- 2
Thrown == INSTANCE RestClient WITH RespectLimits <- FALSE, TicksPerMs <- 1, MaxClock <- 2
Pair == INSTANCE RestClient WITH RetryCount <- 0, MaxRefusals <- 0

Uploads == INSTANCE ImageUpload WITH pc <- step

Async == INSTANCE AsyncCalls WITH Call <- Command, call <- asked, pc <- thread

ASSUME AsyncConstants == Async!OperationsHaveKinds

RestIdle == Init /\ call = [r \in Request |-> CHOOSE c \in Calls \X Target : TRUE]

UploadsIdle == Uploads!Init /\ image = [i \in Image |-> CHOOSE d \in Uploads!Images : TRUE]

AsyncIdle ==
  /\ Async!Init /\ respectLimits = TRUE
  /\ asked = [c \in Command |-> CHOOSE d \in [op : Operation, deleteAfter : {FALSE}] : TRUE]

MCInit ==
  \/ /\ part \in {"alone", "thrown", "pair"}
     /\ Init /\ UploadsIdle /\ AsyncIdle
     /\ \A r \in Request : (part = "pair") = (call[r][1] = "edit_member")
     /\ part # "pair" => \A r \in Request : call[r] = call[firstRequest]
  \/ part = "upload" /\ Uploads!Init /\ RestIdle /\ AsyncIdle
  \/ /\ part = "calls" /\ Async!Init /\ RestIdle /\ UploadsIdle
     /\ ~respectLimits => \A c \in Command : asked[c] = asked[firstCommand]

OnlyFirstRequest == \A r \in Request \ {firstRequest} : task'[r].pc = "idle"

(* Where limits are not respected, one call is enough. *)
OnlyFirstCommand == \A c \in Command \ {firstCommand} : thread'[c] = "idle"

MCNext ==
  /\ part' = part
  /\ \/ /\ \/ part = "alone" /\ Alone!Next /\ OnlyFirstRequest
           \/ part = "thrown" /\ Thrown!Next /\ OnlyFirstRequest
           \/ part = "pair" /\ Pair!Next
        /\ UNCHANGED <<uploadVars, asyncVars>>
     \/ part = "upload" /\ Uploads!Next /\ UNCHANGED <<vars, asyncVars>>
     \/ /\ part = "calls" /\ Async!Next
        /\ respectLimits \/ OnlyFirstCommand
        /\ UNCHANGED <<vars, uploadVars>>
-----------------------------------------------------------------------------
(* The steps that are fair, of whichever instance it is. *)
Ticks ==
  \/ part = "alone" /\ Alone!Tick
  \/ part = "thrown" /\ Thrown!Tick
  \/ part = "pair" /\ Pair!Tick

Sends(r) == part \in {"alone", "thrown", "pair"} /\ Send(r)

Results(r) ==
  \/ part = "alone" /\ Alone!Result(r)
  \/ part = "thrown" /\ Thrown!Result(r)
  \/ part = "pair" /\ Pair!Result(r)

MCSpec ==
  /\ MCInit /\ [][MCNext]_allVars
  /\ WF_vars(Ticks)
  /\ \A r \in Request : WF_vars(Sends(r)) /\ WF_vars(Results(r))
  /\ \A i \in Image : WF_uploadVars(part = "upload" /\ Uploads!Step(i))
  /\ \A c \in Command :
       /\ WF_asyncVars(part = "calls" /\ ~terminated /\ Async!Work(c))
       /\ WF_asyncVars(part = "calls" /\ ~terminated /\ Async!DeleteLater(c))
-----------------------------------------------------------------------------
(* Uploads and detached calls tell their callers the truth, too:           *)
(* UploadsAreSound of ImageUpload and CallbacksAreSound of AsyncCalls.     *)
AnswersAreTrue == Uploads!UploadsAreSound /\ Async!CallbacksAreSound

(* Uploads end; detached calls call back and delete what they were to.     *)
AnswersCome ==
  /\ part = "upload" => Uploads!UploadEnds
  /\ part = "calls" => Async!EveryCallIsAnswered /\ Async!SentIsDeletedLater
=============================================================================
