---------------------------- MODULE RoleUpdates ----------------------------
(***************************************************************************)
(* cluster::add_role_to_member and remove_role_from_member, for one member *)
(* of one server.                                                          *)
(*                                                                         *)
(* Each call runs on a detached thread: it gets the member, changes the    *)
(* list of roles it got, and sends the whole list back.  Other calls, and  *)
(* people on the platform, may change the roles in between; the list is    *)
(* sent again when an answer is lost, and a try that was given up may be   *)
(* carried out when a later one was answered and the call has ended.       *)
(***************************************************************************)
EXTENDS Naturals

CONSTANTS
  Call,           \* the calls, each with its thread
  Role,
  MaxTries,       \* how often the PATCH can reach the platform, retries included
  MaxOutside      \* bound: how often somebody else changes the roles

ASSUME BoundsAssumption == MaxTries \in Nat /\ MaxOutside \in Nat

VARIABLES
  roles,          \* the member's roles on the platform
  job,            \* the thread of each call
  touched,        \* history: the roles changed after a call's GET, by another
  stale,          \* history: a call wrote its list although the roles had changed
  outside         \* how often somebody else changed the roles

vars == <<roles, job, touched, stale, outside>>

Ops == {"add", "remove"}

Jobs ==
  [pc : {"idle", "getting", "patching", "patched", "done"},
   op : Ops, role : Role,
   read : SUBSET Role,        \* mem.roles
   tries : 0..MaxTries,       \* how often its list was applied
   report : {"none", "ok", "failed"}]    \* what the callback got

TypeOK ==
  /\ roles \in SUBSET Role
  /\ job \in [Call -> Jobs]
  /\ touched \in [Call -> BOOLEAN]
  /\ stale \in [Call -> BOOLEAN]
  /\ outside \in 0..MaxOutside

Init ==
  /\ roles \in SUBSET Role
  /\ job \in [Call -> [pc : {"idle"}, op : Ops, role : Role, read : {{}},
                      tries : {0}, report : {"none"}]]
  /\ touched = [k \in Call |-> FALSE]
  /\ stale = [k \in Call |-> FALSE]
  /\ outside = 0

(* Faulty: sends the new role alone. *)
WantedAlone(k) ==
  IF job[k].op = "add" THEN {job[k].role} ELSE job[k].read \ {job[k].role}

(* The list that is sent back. *)
Wanted(k) ==
  IF job[k].op = "add" THEN job[k].read \cup {job[k].role}
  ELSE job[k].read \ {job[k].role}

Report(k, pc, r) == job' = [job EXCEPT ![k].pc = pc, ![k].report = r]

(* Its PATCH was sent; "patched": the call has ended since. *)
Writing(k) == job[k].pc \in {"patching", "patched"}

(* Everybody else whose list is on its way, or may be, is touched. *)
Touch(new, others) ==
  touched' = [j \in Call |->
    touched[j] \/ (j \in others /\ Writing(j) /\ new # roles)]
-----------------------------------------------------------------------------
(* Faulty variants of the code, which the properties below tell from it.   *)

(* Reports success without looking at the answer of the PATCH. *)
PatchFailsUnnoticed(k) ==
  /\ job[k].pc = "patching"
  /\ Report(k, "patched", "ok")
  /\ UNCHANGED <<roles, touched, stale, outside>>
-----------------------------------------------------------------------------
Start(k) ==
  /\ job[k].pc = "idle"
  /\ job' = [job EXCEPT ![k].pc = "getting"]
  /\ UNCHANGED <<roles, touched, stale, outside>>

GetFails(k) ==
  /\ job[k].pc = "getting"
  /\ Report(k, "done", "failed")
  /\ UNCHANGED <<roles, touched, stale, outside>>

(* Nothing to do is a success. *)
GetAnswered(k) ==
  /\ job[k].pc = "getting"
  /\ job' = [job EXCEPT ![k] =
       IF (job[k].role \in roles) = (job[k].op = "add")
       THEN [@ EXCEPT !.pc = "done", !.read = roles, !.report = "ok"]
       ELSE [@ EXCEPT !.pc = "patching", !.read = roles]]
  /\ UNCHANGED <<roles, touched, stale, outside>>

PatchAnswered(k) ==
  /\ job[k].pc = "patching" /\ job[k].tries > 0
  /\ Report(k, "patched", "ok")
  /\ UNCHANGED <<roles, touched, stale, outside>>

(* Refused, or every answer lost. *)
PatchFails(k) ==
  /\ job[k].pc = "patching"
  /\ Report(k, "patched", "failed")
  /\ UNCHANGED <<roles, touched, stale, outside>>

(* The platform applies the list, once for every try that reaches it.  A   *)
(* try that timed out may be slow: it is applied after another was         *)
(* answered, or after the call gave up.                                    *)
Apply(k) ==
  /\ Writing(k) /\ job[k].tries < MaxTries
  /\ roles' = Wanted(k)
  /\ job' = [job EXCEPT ![k].tries = @ + 1]
  /\ Touch(Wanted(k), Call \ {k})
  /\ stale' = [stale EXCEPT ![k] = @ \/ touched[k]]
  /\ UNCHANGED outside

Outside ==
  /\ outside < MaxOutside
  /\ outside' = outside + 1
  /\ roles' \in SUBSET Role
  /\ Touch(roles', Call)
  /\ UNCHANGED <<job, stale>>

Work(k) == GetFails(k) \/ GetAnswered(k) \/ PatchAnswered(k) \/ PatchFails(k)

Next == (\E k \in Call : Start(k) \/ Work(k) \/ Apply(k)) \/ Outside

(* Threads run, and a request is answered or given up. *)
Spec == Init /\ [][Next]_vars /\ \A k \in Call : WF_vars(Work(k))
-----------------------------------------------------------------------------
(* A call during which nothing else changed the roles changes one role and *)
(* no other, and says so only then.                                        *)
UndisturbedIsExact ==
  [][\A k \in Call :
       job[k].report = "none" /\ job'[k].report = "ok" /\ ~touched[k] =>
         /\ roles' \ {job[k].role} = job'[k].read \ {job[k].role}
         /\ (job[k].role \in roles') = (job[k].op = "add")]_vars

(* A role whose addition was reported is there, if nobody asked to remove  *)
(* it.  docs.md: "if (success) std::cout << "role added"".                 *)
Undone(r) ==
  \/ outside > 0
  \/ \E k \in Call : job[k].pc # "idle" /\ job[k].op = "remove" /\ job[k].role = r

SuccessMeansRoleIsThere ==
  \A k \in Call :
    job[k].report = "ok" /\ job[k].op = "add" /\ ~Undone(job[k].role)
      => job[k].role \in roles

(* The one way to lose such a role: a call whose list was applied when the *)
(* roles had changed since it read them, or since it first wrote them.     *)
LostOnlyByOvertaking == SuccessMeansRoleIsThere \/ \E k \in Call : stale[k]
=============================================================================
