------------------------- MODULE RoleUpdatesProofs -------------------------
(***************************************************************************)
(* Proofs about the modules that MCRoleUpdates brings together, for any    *)
(* number of calls, roles, users, servers and events.                      *)
(*                                                                         *)
(* Calls that change roles.  A call that is not touched knows the roles as *)
(* they are: those it read, or those it wrote (KnowsRoles).  From this an  *)
(* addition that was applied is there as long as no touched call writes    *)
(* (AddedIsThere), however often the roles change otherwise, and whenever  *)
(* the tries of a PATCH come through.                                      *)
(*                                                                         *)
(* Cached users: UserInv.  Reactions: ReactInv.  The cache of servers:     *)
(* CacheInv.  Categories: MovesInv.  Each has a section of its own.        *)
(***************************************************************************)
EXTENDS MCRoleUpdates, SequenceTheorems, WellFoundedInduction, TLAPS

KnowsRoles ==
  \A k \in Call :
    Writing(k) /\ ~touched[k] =>
      roles = IF job[k].tries = 0 THEN job[k].read ELSE Wanted(k)

(* A call that writes has something to change; it succeeds with a try.     *)
Consistent(x) ==
  /\ x.pc \in {"patching", "patched"} => (x.role \in x.read) # (x.op = "add")
  /\ x.pc = "patching" => x.report = "none"
  /\ x.pc = "patched" => x.report # "none" /\ (x.report = "ok" => x.tries # 0)
  /\ x.pc \in {"idle", "getting"} => x.report = "none" /\ x.tries = 0

HasToWrite == \A k \in Call : Consistent(job[k]) /\ (touched[k] => Writing(k))

Overtaken == \E k \in Call : stale[k]

AddedIsThere ==
  \A k \in Call :
    (/\ job[k].report = "ok" \/ job[k].tries # 0
     /\ job[k].op = "add" /\ ~Undone(job[k].role) /\ ~Overtaken)
      => job[k].role \in roles

RolesInv == TypeOK /\ KnowsRoles /\ HasToWrite /\ AddedIsThere
-----------------------------------------------------------------------------
LEMMA TypeInit == Init => TypeOK
<1> SUFFICES ASSUME Init PROVE TypeOK
  OBVIOUS
<1> DEFINE Idle == [pc : {"idle"}, op : Ops, role : Role, read : {{}},
                    tries : {0}, report : {"none"}]
<1>1. job \in [Call -> Idle]
  BY DEF Init
<1>2. ASSUME NEW j \in Idle PROVE j \in Jobs
  <2>1. 0 \in 0..MaxTries
    BY BoundsAssumption
  <2>2. /\ j.pc = "idle" /\ j.op \in Ops /\ j.role \in Role /\ j.read = {}
        /\ j.tries = 0 /\ j.report = "none"
    BY <1>2
  <2>3. j = [pc |-> j.pc, op |-> j.op, role |-> j.role, read |-> j.read,
             tries |-> j.tries, report |-> j.report]
    BY <1>2
  <2> QED
    BY <2>1, <2>2, <2>3 DEF Jobs
<1>3. job \in [Call -> Jobs]
  BY <1>1, <1>2
<1> QED
  BY <1>3, BoundsAssumption DEF Init, TypeOK

LEMMA TriesType ==
  ASSUME TypeOK, NEW k \in Call
  PROVE  job[k].tries \in Nat
<1>1. job[k] \in Jobs
  BY DEF TypeOK
<1>2. job[k].tries \in 0..MaxTries
  BY <1>1 DEF Jobs
<1> QED
  BY <1>2, BoundsAssumption

LEMMA WantedType ==
  ASSUME TypeOK, NEW k \in Call
  PROVE  Wanted(k) \in SUBSET Role
<1>1. job[k] \in Jobs
  BY DEF TypeOK
<1> QED
  BY <1>1 DEF Wanted, Jobs

LEMMA TypeStep == TypeOK /\ [Next]_vars => TypeOK'
<1> SUFFICES ASSUME TypeOK, [Next]_vars PROVE TypeOK'
  OBVIOUS
<1>1. ASSUME NEW k \in Call, Start(k) PROVE TypeOK'
  <2>1. job[k] \in Jobs
    BY DEF TypeOK
  <2>2. [job[k] EXCEPT !.pc = "getting"] \in Jobs
    BY <2>1 DEF Jobs
  <2> QED
    BY <1>1, <2>2 DEF Start, TypeOK
<1>2. ASSUME NEW k \in Call, Work(k) PROVE TypeOK'
  <2>1. job[k] \in Jobs /\ roles \in SUBSET Role
    BY DEF TypeOK
  <2>2. \A p \in {"done", "patched"}, r \in {"ok", "failed"} :
          [job[k] EXCEPT !.pc = p, !.report = r] \in Jobs
    BY <2>1 DEF Jobs
  <2>4. [job[k] EXCEPT !.pc = "done", !.read = roles, !.report = "ok"] \in Jobs
    BY <2>1 DEF Jobs
  <2>5. [job[k] EXCEPT !.pc = "patching", !.read = roles] \in Jobs
    BY <2>1 DEF Jobs
  <2>6. job' \in [Call -> Jobs]
    <3>1. CASE GetFails(k) \/ PatchAnswered(k) \/ PatchFails(k)
      BY <2>2, <3>1 DEF GetFails, PatchAnswered, PatchFails, Report, TypeOK
    <3>2. CASE GetAnswered(k)
      BY <2>4, <2>5, <3>2 DEF GetAnswered, TypeOK
    <3> QED
      BY <1>2, <3>1, <3>2 DEF Work
  <2>7. UNCHANGED <<roles, touched, stale, outside>>
    BY <1>2 DEF Work, GetFails, GetAnswered, PatchAnswered, PatchFails
  <2> QED
    BY <2>6, <2>7 DEF TypeOK
<1>3. ASSUME NEW k \in Call, Apply(k) PROVE TypeOK'
  <2>1. job[k] \in Jobs
    BY DEF TypeOK
  <2>2. job[k].tries + 1 \in 0..MaxTries
    <3>1. job[k].tries \in 0..MaxTries
      BY <2>1 DEF Jobs
    <3>2. job[k].tries < MaxTries
      BY <1>3 DEF Apply
    <3> QED
      BY <3>1, <3>2, BoundsAssumption
  <2>3. [job[k] EXCEPT !.tries = @ + 1] \in Jobs
    BY <2>1, <2>2 DEF Jobs
  <2>4. job' \in [Call -> Jobs]
    BY <1>3, <2>3 DEF Apply, TypeOK
  <2>5. roles' \in SUBSET Role
    BY <1>3, WantedType DEF Apply
  <2>6. touched' \in [Call -> BOOLEAN]
    BY <1>3, Zenon DEF Apply, Touch, TypeOK, Writing
  <2>7. stale' \in [Call -> BOOLEAN]
    BY <1>3 DEF Apply, TypeOK
  <2> QED
    BY <1>3, <2>4, <2>5, <2>6, <2>7 DEF Apply, TypeOK
<1>4. CASE Outside
  <2>1. touched' \in [Call -> BOOLEAN]
    BY <1>4, Zenon DEF Outside, Touch, TypeOK, Writing
  <2>2. outside' \in 0..MaxOutside
    BY <1>4, BoundsAssumption DEF Outside, TypeOK
  <2> QED
    BY <1>4, <2>1, <2>2 DEF Outside, TypeOK
<1>5. CASE UNCHANGED vars
  BY <1>5 DEF vars, TypeOK
<1> QED
  BY <1>1, <1>2, <1>3, <1>4, <1>5 DEF Next
-----------------------------------------------------------------------------
(* What a step that leaves the roles alone does to the call it is about.   *)
LEMMA WorkFields ==
  ASSUME TypeOK, NEW k \in Call, Start(k) \/ Work(k)
  PROVE  /\ UNCHANGED <<roles, touched, stale, outside>>
         /\ \A j \in Call : j # k => job'[j] = job[j]
         /\ job'[k].op = job[k].op /\ job'[k].role = job[k].role
         /\ job'[k].tries = job[k].tries
         /\ \/ job'[k].pc = "getting" /\ job[k].pc = "idle" /\ job'[k].report = job[k].report
            \/ job'[k].pc = "done" /\ job[k].pc = "getting" /\ job'[k].report = "failed"
            \/ /\ job'[k].pc = "done" /\ job[k].pc = "getting" /\ job'[k].report = "ok"
               /\ (job[k].role \in roles) = (job[k].op = "add") /\ job'[k].read = roles
            \/ /\ job'[k].pc = "patching" /\ job[k].pc = "getting"
               /\ job'[k].report = job[k].report
               /\ (job[k].role \in roles) # (job[k].op = "add") /\ job'[k].read = roles
            \/ /\ job'[k].pc = "patched" /\ job[k].pc = "patching" /\ job'[k].report = "ok"
               /\ job[k].tries > 0 /\ job'[k].read = job[k].read
            \/ /\ job'[k].pc = "patched" /\ job[k].pc = "patching"
               /\ job'[k].report = "failed" /\ job'[k].read = job[k].read
<1>1. job[k] \in Jobs
  BY DEF TypeOK
<1> USE DEF TypeOK, Jobs
<1>2. CASE Start(k)
  BY <1>1, <1>2 DEF Start
<1>3. CASE GetFails(k)
  BY <1>1, <1>3 DEF GetFails, Report
<1>4. CASE GetAnswered(k)
  BY <1>1, <1>4 DEF GetAnswered
<1>5. CASE PatchAnswered(k)
  BY <1>1, <1>5 DEF PatchAnswered, Report
<1>6. CASE PatchFails(k)
  BY <1>1, <1>6 DEF PatchFails, Report
<1> QED
  BY <1>2, <1>3, <1>4, <1>5, <1>6 DEF Work

(* What an application of a call's list changes.                           *)
LEMMA ApplyFields ==
  ASSUME TypeOK, NEW k \in Call, Apply(k)
  PROVE  /\ Writing(k) /\ roles' = Wanted(k) /\ UNCHANGED outside
         /\ \A j \in Call : j # k => job'[j] = job[j]
         /\ job'[k].op = job[k].op /\ job'[k].role = job[k].role
         /\ job'[k].pc = job[k].pc /\ job'[k].report = job[k].report
         /\ job'[k].read = job[k].read /\ job'[k].tries = job[k].tries + 1
         /\ \A j \in Call : ~touched'[j] =>
              ~touched[j] /\ (j # k /\ Writing(j) => Wanted(k) = roles)
         /\ \A j \in Call : touched'[j] => touched[j] \/ Writing(j)
         /\ \A j \in Call : stale[j] => stale'[j]
         /\ touched[k] => stale'[k]
<1>1. job[k] \in Jobs
  BY DEF TypeOK
<1>2. \A j \in Call :
        touched'[j] = (touched[j] \/ (j \in Call \ {k} /\ Writing(j) /\ Wanted(k) # roles))
  BY Zenon DEF Apply, Touch
<1>3. \A j \in Call : j \in Call \ {k} <=> j # k
  OBVIOUS
<1>4. /\ \A j \in Call : ~touched'[j] =>
           ~touched[j] /\ (j # k /\ Writing(j) => Wanted(k) = roles)
      /\ \A j \in Call : touched'[j] => touched[j] \/ Writing(j)
  BY <1>2, <1>3, Zenon
<1>5. Writing(k) /\ roles' = Wanted(k) /\ UNCHANGED outside
  BY DEF Apply
<1>6. /\ \A j \in Call : j # k => job'[j] = job[j]
      /\ job'[k].op = job[k].op /\ job'[k].role = job[k].role
      /\ job'[k].pc = job[k].pc /\ job'[k].report = job[k].report
      /\ job'[k].read = job[k].read /\ job'[k].tries = job[k].tries + 1
  BY <1>1 DEF Apply, TypeOK, Jobs
<1>7. (\A j \in Call : stale[j] => stale'[j]) /\ (touched[k] => stale'[k])
  BY DEF Apply, TypeOK
<1> QED
  BY <1>4, <1>5, <1>6, <1>7

LEMMA OutsideFields ==
  ASSUME TypeOK, Outside
  PROVE  /\ job' = job /\ outside' > 0 /\ stale' = stale
         /\ \A j \in Call : ~touched'[j] =>
              ~touched[j] /\ (Writing(j) => roles' = roles)
         /\ \A j \in Call : touched'[j] => touched[j] \/ Writing(j)
<1>1. \A j \in Call :
        touched'[j] = (touched[j] \/ (j \in Call /\ Writing(j) /\ roles' # roles))
  BY Zenon DEF Outside, Touch
<1>2. /\ \A j \in Call : ~touched'[j] =>
           ~touched[j] /\ (Writing(j) => roles' = roles)
      /\ \A j \in Call : touched'[j] => touched[j] \/ Writing(j)
  BY <1>1, Zenon
<1>3. job' = job /\ outside' > 0 /\ stale' = stale
  BY BoundsAssumption DEF Outside, TypeOK
<1> QED
  BY <1>2, <1>3

LEMMA InvInit == Init => RolesInv
<1> SUFFICES ASSUME Init PROVE RolesInv
  OBVIOUS
<1>1. TypeOK
  BY TypeInit
<1>2. \A k \in Call : job[k].pc = "idle" /\ job[k].tries = 0 /\ job[k].report = "none"
                    /\ ~touched[k]
  BY DEF Init
<1> QED
  <2>1. KnowsRoles /\ HasToWrite
    BY <1>2 DEF KnowsRoles, HasToWrite, Consistent, Writing
  <2>3. AddedIsThere
    BY <1>2 DEF AddedIsThere
  <2> QED
    BY <1>1, <2>1, <2>3 DEF RolesInv

LEMMA HasToWriteStep == RolesInv /\ [Next]_vars => HasToWrite'
<1> SUFFICES ASSUME RolesInv, [Next]_vars, NEW j \in Call
             PROVE  Consistent(job'[j]) /\ (touched'[j] => Writing(j)')
  BY DEF HasToWrite, Consistent
<1>1. TypeOK /\ Consistent(job[j]) /\ (touched[j] => Writing(j))
  BY DEF RolesInv, HasToWrite
<1>2. CASE job'[j] = job[j] /\ (touched'[j] => touched[j] \/ Writing(j))
  BY <1>1, <1>2 DEF Writing
<1>3. ASSUME NEW k \in Call, Start(k) \/ Work(k)
      PROVE  Consistent(job'[j]) /\ (touched'[j] => Writing(j)')
  <2>1. CASE j = k
    <3>1. Consistent(job'[k])
      BY <1>1, <1>3, <2>1, WorkFields DEF Consistent
    <3>2. touched' = touched /\ (Writing(k) => Writing(k)')
      BY <1>1, <1>3, WorkFields DEF Writing
    <3> QED
      BY <1>1, <2>1, <3>1, <3>2
  <2>2. CASE j # k
    BY <1>1, <1>2, <1>3, <2>2, WorkFields
  <2> QED
    BY <2>1, <2>2
<1>4. ASSUME NEW k \in Call, Apply(k)
      PROVE  Consistent(job'[j]) /\ (touched'[j] => Writing(j)')
  <2>1. CASE j = k
    <3>1. job[k].tries \in Nat /\ Writing(k)
      BY <1>1, <1>4, TriesType, ApplyFields
    <3>2. Consistent(job'[k]) /\ Writing(k)'
      BY <1>1, <1>4, <2>1, <3>1, ApplyFields DEF Consistent, Writing
    <3> QED
      BY <2>1, <3>2
  <2>2. CASE j # k
    BY <1>1, <1>2, <1>4, <2>2, ApplyFields
  <2> QED
    BY <2>1, <2>2
<1>5. CASE Outside
  BY <1>1, <1>2, <1>5, OutsideFields
<1>6. CASE UNCHANGED vars
  BY <1>2, <1>6 DEF vars
<1> QED
  BY <1>3, <1>4, <1>5, <1>6 DEF Next

LEMMA KnowsRolesStep == RolesInv /\ [Next]_vars => KnowsRoles'
<1> SUFFICES ASSUME RolesInv, [Next]_vars, NEW j \in Call, Writing(j)', ~touched'[j]
             PROVE  roles' = IF job'[j].tries = 0 THEN job'[j].read ELSE Wanted(j)'
  BY DEF KnowsRoles
<1>1. TypeOK
  BY DEF RolesInv
<1>2. ASSUME Writing(j), ~touched[j]
      PROVE  roles = IF job[j].tries = 0 THEN job[j].read ELSE Wanted(j)
  BY <1>2 DEF RolesInv, KnowsRoles
<1>3. ASSUME job'[j] = job[j], roles' = roles, ~touched[j]
      PROVE  roles' = IF job'[j].tries = 0 THEN job'[j].read ELSE Wanted(j)'
  BY <1>2, <1>3 DEF Writing, Wanted
<1>4. ASSUME NEW k \in Call, Start(k) \/ Work(k)
      PROVE  roles' = IF job'[j].tries = 0 THEN job'[j].read ELSE Wanted(j)'
  <2>1. CASE j = k
    <3>1. UNCHANGED <<roles, touched, stale, outside>> /\ job'[j].tries = job[j].tries
          /\ job'[j].op = job[j].op /\ job'[j].role = job[j].role
      BY <1>1, <1>4, <2>1, WorkFields
    <3>2. \/ /\ job'[j].pc = "patching" /\ job[j].pc = "getting" /\ job'[j].read = roles
          \/ /\ job'[j].pc = "patched" /\ job[j].pc = "patching" /\ job'[j].read = job[j].read
      BY <1>1, <1>4, <2>1, WorkFields DEF Writing
    <3>3. job[j].pc = "getting" => job[j].tries = 0
      BY DEF RolesInv, HasToWrite, Consistent
    <3> QED
      BY <1>2, <3>1, <3>2, <3>3 DEF Writing, Wanted
  <2>2. CASE j # k
    BY <1>1, <1>3, <1>4, <2>2, WorkFields
  <2> QED
    BY <2>1, <2>2
<1>5. ASSUME NEW k \in Call, Apply(k)
      PROVE  roles' = IF job'[j].tries = 0 THEN job'[j].read ELSE Wanted(j)'
  <2>1. CASE j = k
    <3>1. job[k].tries \in Nat
      BY <1>1, TriesType
    <3>2. /\ roles' = Wanted(k) /\ job'[k].tries = job[k].tries + 1
          /\ job'[k].op = job[k].op /\ job'[k].role = job[k].role
          /\ job'[k].read = job[k].read
      BY <1>1, <1>5, ApplyFields
    <3>3. job'[k].tries # 0
      BY <3>1, <3>2
    <3>4. Wanted(k)' = Wanted(k)
      BY <3>2 DEF Wanted
    <3> QED
      BY <2>1, <3>2, <3>3, <3>4
  <2>2. CASE j # k
    <3>1. job'[j] = job[j] /\ roles' = Wanted(k)
          /\ ~touched[j] /\ (Writing(j) => Wanted(k) = roles)
      BY <1>1, <1>5, <2>2, ApplyFields
    <3>2. Writing(j)
      BY <3>1 DEF Writing
    <3>3. roles' = roles
      BY <3>1, <3>2
    <3> QED
      BY <1>3, <3>1, <3>3
  <2> QED
    BY <2>1, <2>2
<1>6. CASE Outside
  <2>1. job' = job /\ ~touched[j] /\ (Writing(j) => roles' = roles)
    BY <1>1, <1>6, OutsideFields
  <2>2. Writing(j)
    BY <2>1 DEF Writing
  <2> QED
    BY <1>3, <2>1, <2>2
<1>7. CASE UNCHANGED vars
  BY <1>3, <1>7 DEF vars
<1> QED
  BY <1>4, <1>5, <1>6, <1>7 DEF Next

(* What happened once has happened.                                       *)
LEMMA OnlyMore ==
  ASSUME TypeOK, [Next]_vars
  PROVE  /\ \A r \in Role : Undone(r) => Undone(r)'
         /\ Overtaken => Overtaken'
         /\ \A j \in Call : job'[j].op = job[j].op /\ job'[j].role = job[j].role
<1>1. ASSUME NEW j \in Call
      PROVE  /\ job'[j].op = job[j].op /\ job'[j].role = job[j].role
             /\ job[j].pc # "idle" => job'[j].pc # "idle"
             /\ stale[j] => stale'[j]
  <2>1. ASSUME NEW k \in Call, Start(k) \/ Work(k)
        PROVE  /\ job'[j].op = job[j].op /\ job'[j].role = job[j].role
               /\ job[j].pc # "idle" => job'[j].pc # "idle"
               /\ stale' = stale
    <3>1. CASE j = k
      BY <2>1, <3>1, WorkFields
    <3>2. CASE j # k
      BY <2>1, <3>2, WorkFields
    <3> QED
      BY <3>1, <3>2
  <2>2. ASSUME NEW k \in Call, Apply(k)
        PROVE  /\ job'[j].op = job[j].op /\ job'[j].role = job[j].role
               /\ job[j].pc # "idle" => job'[j].pc # "idle"
               /\ stale[j] => stale'[j]
    <3>1. CASE j = k
      BY <2>2, <3>1, ApplyFields
    <3>2. CASE j # k
      BY <2>2, <3>2, ApplyFields
    <3> QED
      BY <3>1, <3>2
  <2>3. CASE Outside
    BY <2>3, OutsideFields
  <2>4. CASE UNCHANGED vars
    BY <2>4 DEF vars
  <2> QED
    BY <2>1, <2>2, <2>3, <2>4 DEF Next
<1>2. outside > 0 => outside' > 0
  <2>1. CASE Outside
    BY <2>1, OutsideFields
  <2>2. CASE \E k \in Call : Start(k) \/ Work(k) \/ Apply(k)
    BY <2>2 DEF Start, Work, GetFails, GetAnswered, PatchAnswered, PatchFails, Apply
  <2> QED
    BY <2>1, <2>2 DEF Next, vars
<1>3. Overtaken => Overtaken'
  BY <1>1 DEF Overtaken
<1>4. ASSUME NEW r \in Role, Undone(r) PROVE Undone(r)'
  BY <1>1, <1>2, <1>4 DEF Undone
<1> QED
  BY <1>1, <1>3, <1>4

LEMMA AddedIsThereStep == RolesInv /\ [Next]_vars => AddedIsThere'
<1> SUFFICES ASSUME RolesInv, [Next]_vars PROVE AddedIsThere'
  OBVIOUS
<1>0. TypeOK
  BY DEF RolesInv
<1> SUFFICES ASSUME NEW j \in Call,
                    job'[j].report = "ok" \/ job'[j].tries # 0,
                    job'[j].op = "add", ~Undone(job[j].role)', ~Overtaken'
             PROVE  job[j].role \in roles'
  BY <1>0, OnlyMore DEF AddedIsThere
<1>1. /\ TypeOK /\ job[j] \in Jobs /\ job[j].op = "add" /\ job[j].role \in Role
      /\ ~Undone(job[j].role) /\ ~Overtaken
  <2>1. TypeOK /\ job[j] \in Jobs
    BY DEF RolesInv, TypeOK
  <2>2. job[j].role \in Role
    BY <2>1 DEF Jobs
  <2> QED
    BY <2>1, <2>2, OnlyMore
<1>2. ASSUME job[j].report = "ok" \/ job[j].tries # 0
      PROVE  job[j].role \in roles
  BY <1>1, <1>2 DEF RolesInv, AddedIsThere
<1>3. ASSUME NEW k \in Call, Start(k) \/ Work(k) PROVE job[j].role \in roles'
  <2>1. CASE j = k
    <3>1. roles' = roles /\ job'[j].tries = job[j].tries /\ job[j].tries \in Nat
      BY <1>1, <1>3, <2>1, WorkFields, TriesType
    <3>2. CASE job[j].tries # 0
      BY <1>2, <3>1, <3>2
    <3>3. CASE job[j].tries = 0
      <4>1. ~(job[j].tries > 0)
        BY <3>3
      <4>2. \/ job'[j].report = job[j].report
            \/ job'[j].report = "failed"
            \/ (job[j].role \in roles) = (job[j].op = "add")
        BY <1>1, <1>3, <2>1, <4>1, WorkFields
      <4> QED
        BY <1>1, <1>2, <3>1, <3>3, <4>2
    <3> QED
      BY <3>2, <3>3
  <2>2. CASE j # k
    BY <1>1, <1>2, <1>3, <2>2, WorkFields
  <2> QED
    BY <2>1, <2>2
<1>4. ASSUME NEW k \in Call, Apply(k) PROVE job[j].role \in roles'
  <2>1. roles' = Wanted(k) /\ Writing(k) /\ job'[k].tries # 0
    BY <1>1, <1>4, ApplyFields, TriesType
  <2>2. CASE j = k
    BY <1>1, <2>1, <2>2 DEF Wanted
  <2>3. CASE j # k
    <3>1. job'[j] = job[j] /\ job[j].role \in roles
      BY <1>1, <1>2, <1>4, <2>3, ApplyFields
    <3>2. ~touched[k]
      BY <1>1, <1>4, ApplyFields DEF Overtaken
    <3>3. roles = IF job[k].tries = 0 THEN job[k].read ELSE Wanted(k)
      BY <2>1, <3>2 DEF RolesInv, KnowsRoles
    <3>4. ~(job[k].op = "remove" /\ job[k].role = job[j].role)
      BY <1>1, <2>1 DEF Undone, Writing
    <3>5. job[k].op \in {"add", "remove"}
      <4>1. job[k] \in Jobs
        BY <1>1 DEF TypeOK
      <4> QED
        BY <4>1 DEF Jobs, Ops
    <3> QED
      BY <2>1, <3>1, <3>3, <3>4, <3>5 DEF Wanted
  <2> QED
    BY <2>2, <2>3
<1>5. CASE Outside
  <2>1. outside' > 0
    BY <1>1, <1>5, OutsideFields
  <2> QED
    BY <2>1 DEF Undone
<1>6. CASE UNCHANGED vars
  BY <1>2, <1>6 DEF vars
<1> QED
  BY <1>3, <1>4, <1>5, <1>6 DEF Next

LEMMA InvStep == RolesInv /\ [Next]_vars => RolesInv'
<1> SUFFICES ASSUME RolesInv, [Next]_vars PROVE RolesInv'
  OBVIOUS
<1> QED
  BY TypeStep, HasToWriteStep, KnowsRolesStep, AddedIsThereStep DEF RolesInv

LEMMA AlwaysRolesInv == Spec => []RolesInv
<1>1. Init => RolesInv
  BY InvInit
<1>2. RolesInv /\ [Next]_vars => RolesInv'
  BY InvStep
<1> QED
  BY <1>1, <1>2, PTL DEF Spec

(* Every variable of the role changes keeps its type.                      *)
THEOREM RolesTypeCorrect == Spec => []TypeOK
<1>1. RolesInv => TypeOK
  BY DEF RolesInv
<1> QED
  BY <1>1, AlwaysRolesInv, PTL

(* A role whose addition was reported is lost only to a list that was      *)
(* applied when the roles had changed since its call read or wrote them.   *)
THEOREM LostOnlyToOvertaking == Spec => []LostOnlyByOvertaking
<1>1. RolesInv => LostOnlyByOvertaking
  BY DEF LostOnlyByOvertaking, SuccessMeansRoleIsThere, RolesInv, AddedIsThere, Overtaken
<1> QED
  BY <1>1, AlwaysRolesInv, PTL

(* A call during which nothing else changed the roles changes its role and *)
(* no other.                                                               *)
THEOREM UndisturbedCallsAreExact == Spec => UndisturbedIsExact
<1>1. ASSUME RolesInv, [Next]_vars
      PROVE  \A k \in Call :
               job[k].report = "none" /\ job'[k].report = "ok" /\ ~touched[k] =>
                 /\ roles' \ {job[k].role} = job'[k].read \ {job[k].role}
                 /\ (job[k].role \in roles') = (job[k].op = "add")
  <2> SUFFICES ASSUME NEW k \in Call, job[k].report = "none", job'[k].report = "ok",
                      ~touched[k]
               PROVE  /\ roles' \ {job[k].role} = job'[k].read \ {job[k].role}
                      /\ (job[k].role \in roles') = (job[k].op = "add")
    OBVIOUS
  <2>1. TypeOK
    BY <1>1 DEF RolesInv
  <2>2. PICK c \in Call : Start(c) \/ Work(c)
    <3>1. CASE Outside \/ UNCHANGED vars
      BY <2>1, <3>1, OutsideFields DEF vars
    <3>2. ASSUME NEW c \in Call, Apply(c) PROVE FALSE
      <4>1. job'[k].report = job[k].report
        <5>1. CASE c = k
          BY <2>1, <3>2, <5>1, ApplyFields
        <5>2. CASE c # k
          BY <2>1, <3>2, <5>2, ApplyFields
        <5> QED
          BY <5>1, <5>2
      <4> QED
        BY <4>1
    <3> QED
      BY <1>1, <3>1, <3>2 DEF Next
  <2>3. c = k
    BY <2>1, <2>2, WorkFields
  <2>4. roles' = roles
    BY <2>1, <2>2, WorkFields
  <2>5. \/ (job[k].role \in roles) = (job[k].op = "add") /\ job'[k].read = roles
        \/ /\ job[k].pc = "patching" /\ job[k].tries > 0 /\ job'[k].read = job[k].read
    BY <2>1, <2>2, <2>3, WorkFields
  <2>6. CASE (job[k].role \in roles) = (job[k].op = "add") /\ job'[k].read = roles
    BY <2>4, <2>6
  <2>7. CASE job[k].pc = "patching" /\ job[k].tries > 0 /\ job'[k].read = job[k].read
    <3>1. job[k].tries # 0
      BY <2>7
    <3>2. roles = Wanted(k)
      BY <1>1, <2>7, <3>1 DEF RolesInv, KnowsRoles, Writing
    <3>3. job[k].op = "add" \/ job[k].op = "remove"
      <4>1. job[k] \in Jobs
        BY <2>1 DEF TypeOK
      <4> QED
        BY <4>1 DEF Jobs, Ops
    <3> QED
      BY <2>4, <2>7, <3>2, <3>3 DEF Wanted
  <2> QED
    BY <2>5, <2>6, <2>7
<1> QED
  BY <1>1, AlwaysRolesInv, PTL DEF Spec, UndisturbedIsExact
-----------------------------------------------------------------------------
(* What is cached of users.  Unless two of its writers met since the bot   *)
(* was last told of it, a user has one writer at most; its message brings  *)
(* the newest, a fetch nothing older, and without a message the entry is   *)
(* the newest.                                                             *)
Fetches(f) == fetch[f].pc \in {"user", "profile", "write"}

OneWriter(u) ==
  /\ \A m, n \in messages : m.user = u /\ n.user = u => m = n
  /\ \A f, g \in Fetch : Fetches(f) /\ Fetches(g) /\ fetch[f].user = u /\ fetch[g].user = u => f = g
  /\ \A m \in messages, f \in Fetch : m.user = u => ~(Fetches(f) /\ fetch[f].user = u)

Newest(u) ==
  /\ \A m \in messages : m.user = u => m.n = newest[u]
  /\ \A f \in Fetch : Fetches(f) /\ fetch[f].user = u /\ fetch[f].copy # None =>
       fetch[f].copy.n >= newest[u]
  /\ (\A m \in messages : m.user # u) => cache[u] = None \/ cache[u].n = newest[u]

(* An entry or a copy of one: what it says of its user.                    *)
Grounded(u, e) ==
  e # None =>
    /\ e.bot => u \in Bots
    /\ u \in Bots /\ ~e.bot => u \in heard
    /\ e.bio = Empty => u \in refused

ToldOK ==
  /\ heardOf \in 0..MaxTold /\ newest \in [Person -> 0..MaxTold]
  /\ \A u \in Person : newest[u] <= heardOf
  /\ \A u \in Person : cache[u] # None => cache[u].n <= heardOf
  /\ \A f \in Fetch : fetch[f].copy # None => fetch[f].copy.n <= heardOf
  /\ \A m \in messages : m.n <= heardOf

WritersOK == \A u \in Person : u \notin mixed => OneWriter(u) /\ Newest(u)

EntriesOK ==
  /\ \A u \in Person : Grounded(u, cache[u])
  /\ \A f \in Fetch : Grounded(fetch[f].user, fetch[f].copy)

UserInv == Users!TypeOK /\ ToldOK /\ WritersOK /\ EntriesOK

Places == {"idle", "user", "profile", "write", "direct", "callback", "catch", "ended"}
-----------------------------------------------------------------------------
LEMMA UserInit == Users!Init => UserInv
<1> SUFFICES ASSUME Users!Init PROVE UserInv
  OBVIOUS
<1> DEFINE Idle == [pc : {"idle"}, user : Person, copy : {None}]
<1>0. 0 \in 0..MaxTold /\ MaxTold \in Nat
  BY UsersConstants DEF Users!ConstantsAssumption
<1>1. fetch \in [Fetch -> Idle]
  BY DEF Users!Init
<1>2. \A f \in Fetch : fetch[f] \in Idle
  BY <1>1
<1>3. \A f \in Fetch : fetch[f].pc = "idle" /\ fetch[f].user \in Person /\ fetch[f].copy = None
  BY <1>2
<1>4. Users!TypeOK
  <2>1. profiles \in [Person -> [name : Nick, bio : Bio \cup {None}]]
    BY DEF Users!Init
  <2>2. cache \in [Person -> Users!Entry \cup {None}]
    BY DEF Users!Init
  <2>3. messages \subseteq [n : 1..MaxTold, user : Person, name : Nick, left : 1..2]
    BY DEF Users!Init
  <2>4. fetch \in [Fetch -> [pc : Places, user : Person, copy : Users!Entry \cup {None}]]
    BY <1>1 DEF Places
  <2>5. answers \in [Fetch -> Seq(Users!Entry \cup {None})]
    BY EmptySeq DEF Users!Init
  <2> QED
    BY <2>1, <2>2, <2>3, <2>4, <2>5, <1>3 DEF Users!TypeOK, Places
<1>5. ToldOK
  BY <1>0, <1>3 DEF Users!Init, ToldOK
<1>6. WritersOK
  BY <1>3 DEF Users!Init, WritersOK, OneWriter, Newest, Fetches
<1>7. EntriesOK
  BY <1>3 DEF Users!Init, EntriesOK, Grounded
<1> QED
  BY <1>4, <1>5, <1>6, <1>7 DEF UserInv

(* The types of a fetch and of what it copied, one by one.                 *)
LEMMA FetchTypes ==
  ASSUME Users!TypeOK, NEW f \in Fetch
  PROVE  /\ fetch[f].pc \in Places /\ fetch[f].user \in Person
         /\ fetch[f].copy \in Users!Entry \cup {None}
         /\ fetch[f].pc \in {"write", "profile"} => fetch[f].copy # None
  BY DEF Users!TypeOK, Places

(* A step of one fetch changes where it is and its copy, nothing of others.*)
LEMMA SetFields ==
  ASSUME Users!TypeOK, NEW f \in Fetch, NEW p, NEW e, Users!Set(f, p, e)
  PROVE  /\ fetch'[f].pc = p /\ fetch'[f].copy = e /\ fetch'[f].user = fetch[f].user
         /\ \A g \in Fetch : g # f => fetch'[g] = fetch[g]
  BY DEF Users!TypeOK, Users!Set

LEMMA SetType ==
  ASSUME Users!TypeOK, NEW f \in Fetch, NEW p \in Places, NEW e \in Users!Entry \cup {None},
         Users!Set(f, p, e), p \in {"write", "profile"} => e # None
  PROVE  /\ fetch' \in [Fetch -> [pc : Places, user : Person, copy : Users!Entry \cup {None}]]
         /\ \A g \in Fetch : fetch'[g].pc \in {"write", "profile"} => fetch'[g].copy # None
<1>1. fetch \in [Fetch -> [pc : Places, user : Person, copy : Users!Entry \cup {None}]]
  BY DEF Users!TypeOK, Places
<1>2. fetch' \in [Fetch -> [pc : Places, user : Person, copy : Users!Entry \cup {None}]]
  BY <1>1 DEF Users!Set
<1>3. \A g \in Fetch : fetch'[g].pc \in {"write", "profile"} => fetch'[g].copy # None
  BY SetFields, FetchTypes
<1> QED
  BY <1>2, <1>3

(* An answer more for one of the fetches.                                  *)
LEMMA AnswerType ==
  ASSUME Users!TypeOK, NEW f \in Fetch, NEW e \in Users!Entry \cup {None},
         answers' = [answers EXCEPT ![f] = Append(@, e)]
  PROVE  answers' \in [Fetch -> Seq(Users!Entry \cup {None})]
<1> DEFINE S == Users!Entry \cup {None}
<1>1. answers \in [Fetch -> Seq(S)]
  BY DEF Users!TypeOK
<1> HIDE DEF S
<1>2. Append(answers[f], e) \in Seq(S)
  <2>1. answers[f] \in Seq(S) /\ e \in S
    BY <1>1 DEF S
  <2> QED
    BY <2>1
<1>3. answers' \in [Fetch -> Seq(S)]
  BY <1>1, <1>2
<1> QED
  BY <1>3 DEF S

(* What is told of a user makes an entry.                                  *)
LEMMA EntryType ==
  ASSUME Users!TypeOK, heardOf \in 0..MaxTold, heardOf < MaxTold, NEW u \in Person,
         NEW b \in BOOLEAN
  PROVE  /\ [name |-> profiles[u].name, bot |-> b, bio |-> None, n |-> heardOf + 1]
              \in Users!Entry
         /\ [name |-> profiles[u].name, bot |-> b, bio |-> None, n |-> heardOf + 1] # None
<1>1. profiles[u].name \in Nick
  BY DEF Users!TypeOK
<1>2. heardOf + 1 \in 0..MaxTold
  BY UsersConstants DEF Users!ConstantsAssumption
<1>3. [name |-> profiles[u].name, bot |-> b, bio |-> None, n |-> heardOf + 1] \in Users!Entry
  BY <1>1, <1>2 DEF Users!Entry
<1> QED
  BY <1>3, UsersConstants DEF Users!ConstantsAssumption
-----------------------------------------------------------------------------
FetchActs(f) == Users!BeginFetch(f) \/ Users!FetchStep(f)

(* A fetch goes on with nothing, with what is cached, with what it was     *)
(* told of its user just now, or with its copy and another bio.            *)
LEMMA FetchGoesOn ==
  ASSUME UserInv, NEW f \in Fetch, FetchActs(f)
  PROVE  \E p \in Places, e \in Users!Entry \cup {None} :
           /\ Users!Set(f, p, e)
           /\ p \in {"write", "profile"} => e # None
           /\ e # None => e.n <= heardOf'
<1> DEFINE u == fetch[f].user
           c == fetch[f].copy
<1>1. /\ Users!TypeOK /\ ToldOK
      /\ u \in Person /\ c \in Users!Entry \cup {None}
      /\ cache[u] \in Users!Entry \cup {None}
      /\ c # None => c.n <= heardOf
      /\ cache[u] # None => cache[u].n <= heardOf
  <2>1. u \in Person /\ c \in Users!Entry \cup {None}
    BY FetchTypes DEF UserInv
  <2> QED
    BY <2>1 DEF UserInv, Users!TypeOK, ToldOK
<1>2. CASE Users!BeginFetch(f)
  <2>1. heardOf' = heardOf
    BY <1>2 DEF Users!BeginFetch
  <2>2. CASE Users!Set(f, "direct", cache[u])
    BY <1>1, <2>1, <2>2 DEF Places
  <2>3. CASE Users!Set(f, IF cache[u] = None THEN "user" ELSE "profile", cache[u])
    <3>1. CASE cache[u] = None
      BY <1>1, <2>1, <2>3, <3>1 DEF Places
    <3>2. CASE cache[u] # None
      BY <1>1, <2>1, <2>3, <3>2 DEF Places
    <3> QED
      BY <3>1, <3>2
  <2> QED
    BY <1>2, <2>2, <2>3 DEF Users!BeginFetch
<1>3. CASE Users!AskUser(f)
  <2>1. CASE Users!Set(f, "callback", None)
    BY <2>1 DEF Places
  <2>2. CASE /\ heardOf < MaxTold /\ heardOf' = heardOf + 1
             /\ Users!Set(f, "profile", [name |-> profiles[u].name, bot |-> u \in Bots,
                                         bio |-> None, n |-> heardOf + 1])
    <3> DEFINE b == u \in Bots
               e == [name |-> profiles[u].name, bot |-> b, bio |-> None, n |-> heardOf + 1]
    <3>1. b \in BOOLEAN /\ heardOf \in 0..MaxTold
      BY <1>1 DEF ToldOK
    <3>2. e \in Users!Entry /\ e # None
      BY <1>1, <2>2, <3>1, EntryType
    <3>3. e.n <= heardOf'
      BY <2>2, <3>1, UsersConstants DEF Users!ConstantsAssumption
    <3>4. Users!Set(f, "profile", e)
      BY <2>2
    <3> HIDE DEF e
    <3> QED
      BY <3>2, <3>3, <3>4 DEF Places
  <2> QED
    BY <1>3, <2>1, <2>2 DEF Users!AskUser
<1>4. CASE Users!AskProfile(f)
  <2>1. c \in Users!Entry /\ c # None
    BY <1>1, <1>4, FetchTypes DEF Users!AskProfile, Users!At
  <2>2. profiles[u].bio \in Bio \cup {None}
    BY <1>1 DEF Users!TypeOK
  <2>3. ASSUME NEW b \in Bio \cup {None, Empty}
        PROVE  /\ [c EXCEPT !.bio = b] \in Users!Entry /\ [c EXCEPT !.bio = b] # None
               /\ [c EXCEPT !.bio = b].n = c.n
    <3>1. [c EXCEPT !.bio = b] \in Users!Entry /\ [c EXCEPT !.bio = b].n = c.n
      BY <2>1 DEF Users!Entry
    <3> QED
      BY <3>1, UsersConstants DEF Users!ConstantsAssumption
  <2>4. c.bio \in Bio \cup {None, Empty}
    BY <2>1 DEF Users!Entry
  <2>5. PICK b \in Bio \cup {None, Empty} : Users!Set(f, "write", [c EXCEPT !.bio = b])
    BY <1>4, <2>2, <2>4 DEF Users!AskProfile
  <2>6. heardOf' = heardOf
    BY <1>4 DEF Users!AskProfile
  <2> DEFINE e == [c EXCEPT !.bio = b]
  <2>7. e \in Users!Entry /\ e # None /\ e.n <= heardOf' /\ Users!Set(f, "write", e)
    BY <1>1, <2>1, <2>3, <2>5, <2>6
  <2> HIDE DEF e
  <2> QED
    BY <2>7 DEF Places
<1>5. CASE Users!RequestThrows(f)
  BY <1>5 DEF Users!RequestThrows, Places
<1>6. CASE Users!WriteBack(f)
  BY <1>1, <1>6 DEF Users!WriteBack, Places
<1>7. CASE Users!CallBack(f)
  BY <1>7 DEF Users!CallBack, Places
<1>8. CASE Users!Catch(f)
  BY <1>8 DEF Users!Catch, Places
<1> QED
  BY <1>2, <1>3, <1>4, <1>5, <1>6, <1>7, <1>8 DEF FetchActs, Users!FetchStep

(* Only the write changes what is cached.                                  *)
LEMMA FetchWrites ==
  ASSUME UserInv, NEW f \in Fetch, FetchActs(f)
  PROVE  \/ cache' = cache /\ newest' = newest
         \/ /\ fetch[f].copy # None /\ fetch[f].copy \in Users!Entry
            /\ cache' = [cache EXCEPT ![fetch[f].user] = fetch[f].copy]
            /\ newest' = [newest EXCEPT ![fetch[f].user] =
                            IF fetch[f].copy.n > @ THEN fetch[f].copy.n ELSE @]
<1>1. CASE Users!WriteBack(f)
  <2>1. fetch[f].pc = "write"
    BY <1>1 DEF Users!WriteBack, Users!At
  <2>2. fetch[f].copy # None /\ fetch[f].copy \in Users!Entry
    BY <2>1, FetchTypes DEF UserInv
  <2> QED
    BY <1>1, <2>2 DEF Users!WriteBack
<1>2. CASE ~Users!WriteBack(f)
  BY <1>2 DEF FetchActs, Users!FetchStep, Users!BeginFetch, Users!AskUser, Users!AskProfile,
     Users!RequestThrows, Users!CallBack, Users!Catch
<1> QED
  BY <1>1, <1>2

LEMMA FetchAnswers ==
  ASSUME UserInv, NEW f \in Fetch, FetchActs(f)
  PROVE  \/ answers' = answers
         \/ \E e \in Users!Entry \cup {None} : answers' = [answers EXCEPT ![f] = Append(@, e)]
<1>1. fetch[f].copy \in Users!Entry \cup {None}
  BY FetchTypes DEF UserInv
<1> QED
  BY <1>1 DEF FetchActs, Users!FetchStep, Users!BeginFetch, Users!AskUser, Users!AskProfile,
     Users!RequestThrows, Users!WriteBack, Users!CallBack, Users!Catch

LEMMA FetchLeaves ==
  ASSUME UserInv, NEW f \in Fetch, FetchActs(f)
  PROVE  /\ profiles' = profiles /\ messages' = messages /\ heard' = heard
         /\ heardOf' = heardOf \/ (heardOf < MaxTold /\ heardOf' = heardOf + 1)
  BY DEF FetchActs, Users!FetchStep, Users!BeginFetch, Users!AskUser, Users!AskProfile,
     Users!RequestThrows, Users!WriteBack, Users!CallBack, Users!Catch

LEMMA FetchTypeStep ==
  ASSUME UserInv, NEW f \in Fetch, FetchActs(f)
  PROVE  Users!TypeOK' /\ ToldOK'
<1> DEFINE S == Users!Entry \cup {None}
           u == fetch[f].user
           c == fetch[f].copy
<1>0. Users!TypeOK /\ ToldOK /\ MaxTold \in Nat
  BY UsersConstants DEF UserInv, Users!ConstantsAssumption
<1>1. u \in Person /\ (c # None => c \in Users!Entry /\ c.n \in 0..MaxTold /\ c.n <= heardOf)
  <2>1. u \in Person /\ c \in S
    BY <1>0, FetchTypes
  <2>2. c # None => c \in Users!Entry /\ c.n \in 0..MaxTold
    BY <2>1 DEF Users!Entry
  <2> QED
    BY <1>0, <2>1, <2>2 DEF ToldOK
<1>2. PICK p \in Places, e \in S :
        /\ Users!Set(f, p, e)
        /\ p \in {"write", "profile"} => e # None
        /\ e # None => e.n <= heardOf'
  BY FetchGoesOn
<1>3. /\ fetch' \in [Fetch -> [pc : Places, user : Person, copy : S]]
      /\ \A g \in Fetch : fetch'[g].pc \in {"write", "profile"} => fetch'[g].copy # None
  BY <1>0, <1>2, SetType
<1>4. answers' \in [Fetch -> Seq(S)]
  BY <1>0, AnswerType, FetchAnswers DEF Users!TypeOK
<1>5. cache' \in [Person -> S]
  BY <1>0, FetchWrites DEF Users!TypeOK
<1>6. heardOf' \in 0..MaxTold /\ heardOf \in 0..MaxTold /\ heardOf <= heardOf'
  BY <1>0, FetchLeaves DEF ToldOK
<1>7. \A v \in Person : newest[v] \in 0..MaxTold /\ newest[v] <= heardOf
  BY <1>0 DEF ToldOK
<1>8. \/ newest' = newest
      \/ c # None /\ \E n \in {newest[u], c.n} : newest' = [newest EXCEPT ![u] = n]
  BY FetchWrites
<1>9. /\ newest' \in [Person -> 0..MaxTold]
      /\ \A v \in Person : newest'[v] = newest[v] \/ (c # None /\ newest'[v] = c.n)
  <2>1. newest \in [Person -> 0..MaxTold]
    BY <1>0 DEF ToldOK
  <2>2. CASE newest' = newest
    BY <2>1, <2>2
  <2>3. ASSUME c # None, NEW n \in {newest[u], c.n}, newest' = [newest EXCEPT ![u] = n]
        PROVE  /\ newest' \in [Person -> 0..MaxTold]
               /\ \A v \in Person : newest'[v] = newest[v] \/ (c # None /\ newest'[v] = c.n)
    <3>1. n \in 0..MaxTold
      BY <1>1, <2>1, <2>3
    <3> QED
      BY <1>1, <2>1, <2>3, <3>1
  <2> QED
    BY <1>8, <2>2, <2>3
<1>10. \A v \in Person : newest'[v] <= heardOf'
  BY <1>1, <1>6, <1>7, <1>9
<1>11. \A v \in Person : cache'[v] = cache[v] \/ (c # None /\ cache'[v] = c)
  BY <1>0, FetchWrites DEF Users!TypeOK
<1>12. \A v \in Person : cache[v] # None => cache[v].n \in 0..MaxTold /\ cache[v].n <= heardOf
  <2>1. \A v \in Person : cache[v] # None => cache[v] \in Users!Entry
    BY <1>0 DEF Users!TypeOK
  <2> QED
    BY <1>0, <2>1 DEF ToldOK, Users!Entry
<1>13. \A v \in Person : cache'[v] # None => cache'[v].n <= heardOf'
  BY <1>1, <1>6, <1>11, <1>12
<1>14. \A g \in Fetch : fetch'[g].copy # None => fetch'[g].copy.n <= heardOf'
  <2> SUFFICES ASSUME NEW g \in Fetch, fetch'[g].copy # None
               PROVE  fetch'[g].copy.n <= heardOf'
    OBVIOUS
  <2>1. CASE g = f
    BY <1>0, <1>2, <2>1, SetFields
  <2>2. CASE g # f
    <3>1. fetch'[g] = fetch[g] /\ fetch[g].copy \in S
      BY <1>0, <1>2, <2>2, SetFields, FetchTypes
    <3>2. fetch[g].copy.n \in 0..MaxTold
      BY <3>1 DEF Users!Entry
    <3> QED
      BY <1>0, <1>6, <3>1, <3>2 DEF ToldOK
  <2> QED
    BY <2>1, <2>2
<1>15. \A m \in messages : m.n \in 0..MaxTold
  BY <1>0 DEF Users!TypeOK
<1>16. messages' = messages /\ \A m \in messages' : m.n <= heardOf'
  BY <1>0, <1>6, <1>15, FetchLeaves DEF ToldOK
<1>17. profiles' = profiles
  BY FetchLeaves
<1>18. Users!TypeOK'
  BY <1>0, <1>3, <1>4, <1>5, <1>16, <1>17 DEF Users!TypeOK, Places
<1> QED
  BY <1>6, <1>9, <1>10, <1>13, <1>14, <1>16, <1>18 DEF ToldOK

LEMMA ReadyTypeStep == UserInv /\ Users!Ready => Users!TypeOK' /\ ToldOK'
<1> SUFFICES ASSUME UserInv, Users!Ready PROVE Users!TypeOK' /\ ToldOK'
  OBVIOUS
<1>0. /\ Users!TypeOK /\ ToldOK /\ MaxTold \in Nat
      /\ heardOf \in 0..MaxTold /\ heardOf < MaxTold /\ heardOf' = heardOf + 1
  BY UsersConstants DEF UserInv, ToldOK, Users!ConstantsAssumption, Users!Ready
<1> DEFINE e(u) == [name |-> profiles[u].name, bot |-> u \in Bots, bio |-> None, n |-> heardOf + 1]
<1>1. \A u \in Person : e(u) \in Users!Entry /\ e(u).n <= heardOf'
  <2> SUFFICES ASSUME NEW u \in Person PROVE e(u) \in Users!Entry /\ e(u).n <= heardOf'
    OBVIOUS
  <2> DEFINE b == u \in Bots
  <2>1. b \in BOOLEAN
    OBVIOUS
  <2>2. [name |-> profiles[u].name, bot |-> b, bio |-> None, n |-> heardOf + 1] \in Users!Entry
    BY <1>0, <2>1, EntryType
  <2> QED
    BY <1>0, <2>2
<1>2. cache' = [u \in Person |-> e(u)]
  BY DEF Users!Ready, Users!OnReady
<1>3. /\ profiles' = profiles /\ messages' = messages /\ fetch' = fetch /\ answers' = answers
      /\ newest' = [u \in Person |-> heardOf + 1]
  BY DEF Users!Ready
<1> HIDE DEF e
<1>4. cache' \in [Person -> Users!Entry \cup {None}] /\ \A u \in Person : cache'[u].n <= heardOf'
  BY <1>1, <1>2
<1>5. Users!TypeOK'
  BY <1>0, <1>3, <1>4 DEF Users!TypeOK
<1>6. \A m \in messages : m.n \in Nat
  BY <1>0 DEF Users!TypeOK
<1>7. \A f \in Fetch : fetch[f].copy # None => fetch[f].copy.n \in Nat
  BY <1>0, FetchTypes DEF Users!Entry
<1>8. \A u \in Person : newest'[u] <= heardOf' /\ newest' \in [Person -> 0..MaxTold]
  BY <1>0, <1>3
<1>9. newest' \in [Person -> 0..MaxTold]
  BY <1>0, <1>3
<1> QED
  BY <1>0, <1>3, <1>4, <1>5, <1>6, <1>7, <1>8, <1>9 DEF ToldOK

LEMMA ReceiveTypeStep ==
  ASSUME UserInv, NEW u \in Person, Users!Receive(u)
  PROVE  Users!TypeOK' /\ ToldOK'
<1>0. /\ Users!TypeOK /\ ToldOK /\ MaxTold \in Nat
      /\ heardOf \in 0..MaxTold /\ heardOf < MaxTold /\ heardOf' = heardOf + 1
  BY UsersConstants DEF UserInv, ToldOK, Users!ConstantsAssumption, Users!Receive
<1> DEFINE m0 == [n |-> heardOf + 1, user |-> u, name |-> profiles[u].name, left |-> 2]
<1>1. /\ profiles' = profiles /\ cache' = cache /\ fetch' = fetch /\ answers' = answers
      /\ newest' = [newest EXCEPT ![u] = heardOf + 1]
      /\ messages' = messages \cup {m0}
  BY DEF Users!Receive
<1>2. /\ m0 \in [n : 1..MaxTold, user : Person, name : Nick, left : 1..2]
      /\ m0.n <= heardOf'
  BY <1>0 DEF Users!TypeOK
<1> HIDE DEF m0
<1>3. Users!TypeOK'
  BY <1>0, <1>1, <1>2 DEF Users!TypeOK
<1>4. \A m \in messages : m.n \in Nat
  BY <1>0 DEF Users!TypeOK
<1>5. \A f \in Fetch : fetch[f].copy # None => fetch[f].copy.n \in Nat
  BY <1>0, FetchTypes DEF Users!Entry
<1>6. \A v \in Person : cache[v] # None => cache[v].n \in Nat
  BY <1>0 DEF Users!TypeOK, Users!Entry
<1>7. newest' \in [Person -> 0..MaxTold] /\ \A v \in Person : newest'[v] <= heardOf'
  BY <1>0, <1>1 DEF ToldOK
<1>8. \A m \in messages' : m.n <= heardOf'
  BY <1>0, <1>1, <1>2, <1>4 DEF ToldOK
<1>9. \A f \in Fetch : fetch'[f].copy # None => fetch'[f].copy.n <= heardOf'
  BY <1>0, <1>1, <1>5 DEF ToldOK
<1>10. \A v \in Person : cache'[v] # None => cache'[v].n <= heardOf'
  BY <1>0, <1>1, <1>6 DEF ToldOK
<1>11. heardOf' \in 0..MaxTold
  BY <1>0
<1> QED
  BY <1>3, <1>7, <1>8, <1>9, <1>10, <1>11 DEF ToldOK

LEMMA CacheAuthorTypeStep ==
  ASSUME UserInv, NEW m \in messages, Users!CacheAuthor(m)
  PROVE  Users!TypeOK' /\ ToldOK'
<1>0. Users!TypeOK /\ ToldOK /\ MaxTold \in Nat
  BY UsersConstants DEF UserInv, Users!ConstantsAssumption
<1> DEFINE e == [name |-> m.name, bot |-> FALSE, bio |-> None, n |-> m.n]
           m1 == [m EXCEPT !.left = 1]
           M == [n : 1..MaxTold, user : Person, name : Nick, left : 1..2]
<1>1. m \in M
  BY <1>0 DEF Users!TypeOK
<1>2. /\ profiles' = profiles /\ fetch' = fetch /\ answers' = answers
      /\ heardOf' = heardOf /\ newest' = newest
      /\ cache' = [cache EXCEPT ![m.user] = e]
  BY DEF Users!CacheAuthor
<1>3. m1 \in M /\ m1.n = m.n
  BY <1>1
<1>4. messages' \subseteq messages \cup {m1}
  BY DEF Users!CacheAuthor
<1>5. e \in Users!Entry /\ e.n <= heardOf /\ m.user \in Person
  <2>1. m.n \in 0..MaxTold /\ m.name \in Nick /\ m.user \in Person
    BY <1>0, <1>1
  <2> DEFINE b == FALSE
  <2>2. b \in BOOLEAN
    OBVIOUS
  <2> HIDE DEF b
  <2>3. [name |-> m.name, bot |-> b, bio |-> None, n |-> m.n] \in Users!Entry
    BY <2>1, <2>2 DEF Users!Entry
  <2>4. e \in Users!Entry
    BY <2>3 DEF b
  <2> QED
    BY <1>0, <2>1, <2>4 DEF ToldOK
<1> HIDE DEF m1, e
<1>6. Users!TypeOK'
  <2>1. messages' \subseteq M
    BY <1>0, <1>3, <1>4 DEF Users!TypeOK
  <2>2. cache' \in [Person -> Users!Entry \cup {None}]
    BY <1>0, <1>2, <1>5 DEF Users!TypeOK
  <2> QED
    BY <1>0, <1>2, <2>1, <2>2 DEF Users!TypeOK
<1>7. \A k \in messages' : k.n <= heardOf'
  BY <1>0, <1>2, <1>3, <1>4 DEF ToldOK
<1>8. \A v \in Person : cache'[v] # None => cache'[v].n <= heardOf'
  BY <1>0, <1>2, <1>5 DEF ToldOK, Users!TypeOK
<1> QED
  BY <1>0, <1>2, <1>6, <1>7, <1>8 DEF ToldOK

LEMMA ChangeTypeStep ==
  ASSUME UserInv, NEW u \in Person, Users!Change(u)
  PROVE  Users!TypeOK' /\ ToldOK'
<1>1. profiles' \in [Person -> [name : Nick, bio : Bio \cup {None}]]
  BY DEF UserInv, Users!Change, Users!TypeOK
<1>2. UNCHANGED <<cache, messages, fetch, answers, heardOf, newest>>
  BY DEF Users!Change
<1> QED
  BY <1>1, <1>2 DEF UserInv, Users!TypeOK, ToldOK
-----------------------------------------------------------------------------
(* A user without a writer has neither a message nor a fetch under way.    *)
LEMMA NoWriter ==
  ASSUME NEW u, Users!Writers(u) = {}
  PROVE  /\ \A m \in messages : m.user # u
         /\ \A f \in Fetch : Fetches(f) => fetch[f].user # u
  BY DEF Users!Writers, Users!Fetching, Fetches

LEMMA ReadyWriters == UserInv /\ Users!Ready => WritersOK'
<1> SUFFICES ASSUME UserInv, Users!Ready, NEW u \in Person, u \notin mixed'
             PROVE  (OneWriter(u) /\ Newest(u))'
  BY DEF WritersOK
<1>1. Users!Writers(u) = {}
  BY DEF Users!Ready, Users!Overlap
<1>2. cache'[u].n = newest'[u] /\ messages' = messages /\ fetch' = fetch
  BY DEF Users!Ready, Users!OnReady
<1> QED
  BY <1>1, <1>2, NoWriter DEF OneWriter, Newest, Fetches

LEMMA ReceiveWriters ==
  ASSUME UserInv, NEW v \in Person, Users!Receive(v)
  PROVE  WritersOK'
<1> SUFFICES ASSUME NEW u \in Person, u \notin mixed'
             PROVE  (OneWriter(u) /\ Newest(u))'
  BY DEF WritersOK
<1> DEFINE m0 == [n |-> heardOf + 1, user |-> v, name |-> profiles[v].name, left |-> 2]
<1>0. /\ messages' = messages \cup {m0} /\ m0.user = v /\ m0.n = heardOf + 1
      /\ fetch' = fetch /\ cache' = cache
      /\ newest' = [newest EXCEPT ![v] = heardOf + 1] /\ newest \in [Person -> 0..MaxTold]
  BY DEF Users!Receive, UserInv, ToldOK
<1> HIDE DEF m0
<1>1. CASE u = v
  <2>1. Users!Writers(u) = {}
    BY <1>1 DEF Users!Receive, Users!Overlap
  <2>2. newest'[u] = m0.n
    BY <1>0, <1>1
  <2> QED
    BY <1>0, <1>1, <2>1, <2>2, NoWriter DEF OneWriter, Newest, Fetches
<1>2. CASE u # v
  <2>1. OneWriter(u) /\ Newest(u)
    BY <1>2 DEF Users!Receive, Users!Overlap, UserInv, WritersOK
  <2>2. newest'[u] = newest[u]
    BY <1>0, <1>2
  <2> QED
    BY <1>0, <1>2, <2>1, <2>2 DEF OneWriter, Newest, Fetches
<1> QED
  BY <1>1, <1>2

LEMMA CacheAuthorWriters ==
  ASSUME UserInv, NEW m \in messages, Users!CacheAuthor(m)
  PROVE  WritersOK'
<1> SUFFICES ASSUME NEW u \in Person, u \notin mixed'
             PROVE  (OneWriter(u) /\ Newest(u))'
  BY DEF WritersOK
<1> DEFINE e == [name |-> m.name, bot |-> FALSE, bio |-> None, n |-> m.n]
           m1 == [m EXCEPT !.left = 1]
<1>0. /\ messages' \subseteq (messages \ {m}) \cup {m1}
      /\ e.n = m.n /\ m1.user = m.user /\ m1.n = m.n
      /\ fetch' = fetch /\ newest' = newest
      /\ cache' = [cache EXCEPT ![m.user] = e] /\ DOMAIN cache = Person /\ m.user \in Person
  <2>1. m \in [n : 1..MaxTold, user : Person, name : Nick, left : 1..2]
    BY DEF UserInv, Users!TypeOK
  <2> QED
    BY <2>1 DEF Users!CacheAuthor, UserInv, Users!TypeOK
<1>1. OneWriter(u) /\ Newest(u)
  BY DEF Users!CacheAuthor, UserInv, WritersOK
<1>2. \A k \in messages : k # m => k \in messages'
  BY DEF Users!CacheAuthor
<1> HIDE DEF e, m1
<1>3. CASE u = m.user
  <2>1. cache'[u].n = newest'[u]
    BY <1>0, <1>1, <1>3 DEF Newest
  <2>2. \A k \in messages' : k.user = u => k = m1
    BY <1>0, <1>1, <1>3 DEF OneWriter
  <2>3. \A f \in Fetch : ~(Fetches(f) /\ fetch[f].user = u)
    BY <1>1, <1>3 DEF OneWriter
  <2>4. m1.n = newest'[u]
    BY <1>0, <1>1, <1>3 DEF Newest
  <2> QED
    BY <1>0, <2>1, <2>2, <2>3, <2>4 DEF OneWriter, Newest, Fetches
<1>4. CASE u # m.user
  <2>1. cache'[u] = cache[u]
    BY <1>0, <1>4
  <2>2. \A k \in messages' : k.user = u => k \in messages
    BY <1>0, <1>4
  <2>3. OneWriter(u)'
    BY <1>0, <1>1, <2>2 DEF OneWriter, Fetches
  <2>4. (\A k \in messages' : k.user # u) => \A k \in messages : k.user # u
    BY <1>2, <1>4
  <2> QED
    BY <1>0, <1>1, <2>1, <2>2, <2>3, <2>4 DEF Newest, Fetches
<1> QED
  BY <1>3, <1>4

LEMMA FetchWriters ==
  ASSUME UserInv, NEW f \in Fetch, FetchActs(f)
  PROVE  WritersOK'
<1> SUFFICES ASSUME NEW u \in Person, u \notin mixed'
             PROVE  (OneWriter(u) /\ Newest(u))'
  BY DEF WritersOK
<1> DEFINE v == fetch[f].user
           c == fetch[f].copy
<1>0. Users!TypeOK /\ ToldOK /\ messages' = messages /\ v \in Person
  BY FetchLeaves, FetchTypes DEF UserInv
<1>1. \A g \in Fetch : g # f => fetch'[g] = fetch[g]
  BY <1>0, FetchGoesOn, SetFields
<1>2. fetch'[f].user = v
  BY <1>0, FetchGoesOn, SetFields
<1>3. mixed \subseteq mixed'
  BY DEF FetchActs, Users!FetchStep, Users!BeginFetch, Users!AskUser, Users!AskProfile,
     Users!RequestThrows, Users!WriteBack, Users!CallBack, Users!Catch
<1>4. OneWriter(u) /\ Newest(u)
  BY <1>3 DEF UserInv, WritersOK
<1>5. CASE u # v
  <2>1. cache'[u] = cache[u] /\ newest'[u] = newest[u]
    <3>1. cache = [w \in Person |-> cache[w]] /\ newest = [w \in Person |-> newest[w]]
      BY <1>0 DEF Users!TypeOK, ToldOK
    <3>2. CASE cache' = cache /\ newest' = newest
      BY <3>2
    <3>3. ASSUME NEW n, cache' = [cache EXCEPT ![v] = c], newest' = [newest EXCEPT ![v] = n]
          PROVE  cache'[u] = cache[u] /\ newest'[u] = newest[u]
      BY <1>5, <3>1, <3>3
    <3> QED
      BY <3>2, <3>3, FetchWrites
  <2> QED
    BY <1>0, <1>1, <1>2, <1>4, <1>5, <2>1 DEF OneWriter, Newest, Fetches
<1>6. CASE u = v /\ Users!BeginFetch(f)
  <2>1. cache' = cache /\ newest' = newest /\ ~Fetches(f)
    BY <1>6 DEF Users!BeginFetch, Fetches, Users!At
  <2>2. CASE Users!Set(f, "direct", cache[v])
    <3>1. ~Fetches(f)'
      BY <1>0, <2>2, SetFields DEF Fetches
    <3> QED
      BY <1>0, <1>1, <1>4, <2>1, <3>1 DEF OneWriter, Newest, Fetches
  <2>3. CASE /\ Users!Set(f, IF cache[v] = None THEN "user" ELSE "profile", cache[v])
             /\ mixed' = mixed \cup (IF Users!Writers(v) # {} THEN {v} ELSE {})
    <3>1. Users!Writers(u) = {}
      BY <1>6, <2>3
    <3>2. fetch'[f].copy = cache[u]
      BY <1>0, <1>6, <2>3, SetFields
    <3>3. cache[u] = None \/ cache[u].n = newest[u]
      BY <1>4, <3>1, NoWriter DEF Newest
    <3>4. newest[u] \in Nat
      BY <1>0 DEF ToldOK
    <3> QED
      BY <1>0, <1>1, <2>1, <3>1, <3>2, <3>3, <3>4, NoWriter DEF OneWriter, Newest, Fetches
  <2> QED
    BY <1>6, <2>2, <2>3 DEF Users!BeginFetch
<1>7. CASE u = v /\ Users!FetchStep(f)
  <2>1. Fetches(f)' => Fetches(f)
    BY <1>0, <1>7, SetFields DEF Fetches, Users!FetchStep, Users!AskUser, Users!AskProfile,
       Users!RequestThrows, Users!WriteBack, Users!CallBack, Users!Catch, Users!At
  <2>2. OneWriter(u)'
    BY <1>0, <1>1, <1>2, <1>4, <2>1 DEF OneWriter, Fetches
  <2>3. \A g \in Fetch : Fetches(g)' /\ g # f => Fetches(g) /\ fetch'[g] = fetch[g]
    BY <1>1 DEF Fetches
  <2>4. newest[u] \in Nat /\ newest[u] <= heardOf /\ heardOf \in Nat
    BY <1>0, <1>7 DEF ToldOK
  <2>5. CASE Users!WriteBack(f)
    <3>1. Fetches(f) /\ c # None /\ c \in Users!Entry
      BY <1>0, <2>5, FetchTypes DEF Users!WriteBack, Users!At, Fetches
    <3>2. c.n >= newest[u] /\ c.n \in Nat
      BY <1>4, <1>7, <3>1 DEF Newest, Users!Entry
    <3>3. cache'[u] = c
      BY <1>0, <1>7, <2>5 DEF Users!WriteBack, Users!TypeOK
    <3>4. newest'[u] = IF c.n > newest[u] THEN c.n ELSE newest[u]
      BY <1>0, <1>7, <2>5 DEF Users!WriteBack, ToldOK
    <3>5. newest'[u] = c.n
      BY <2>4, <3>2, <3>4
    <3>6. \A m \in messages : m.user # u
      BY <1>4, <1>7, <3>1 DEF OneWriter
    <3>7. \A g \in Fetch : Fetches(g)' => fetch'[g].user # u
      <4>1. ~Fetches(f)'
        BY <1>0, <2>5, SetFields DEF Users!WriteBack, Fetches
      <4> QED
        BY <1>4, <1>7, <2>3, <3>1, <4>1 DEF OneWriter
    <3> QED
      BY <1>0, <2>2, <3>3, <3>5, <3>6, <3>7 DEF Newest, Fetches
  <2>6. CASE ~Users!WriteBack(f)
    <3>1. cache' = cache /\ newest' = newest
      BY <1>7, <2>6 DEF Users!FetchStep, Users!AskUser, Users!AskProfile,
         Users!RequestThrows, Users!CallBack, Users!Catch
    <3>2. Fetches(f)' => fetch'[f].copy.n >= newest[u]
      <4>1. CASE Users!AskUser(f)
        BY <1>0, <2>4, <4>1, SetFields DEF Users!AskUser, Fetches
      <4>2. CASE Users!AskProfile(f)
        <5>1. Fetches(f) /\ c # None /\ c \in Users!Entry
          BY <1>0, <4>2, FetchTypes DEF Users!AskProfile, Users!At, Fetches
        <5>2. c.n >= newest[u]
          BY <1>4, <1>7, <5>1 DEF Newest
        <5>3. \E b : Users!Set(f, "write", [c EXCEPT !.bio = b])
          BY <4>2 DEF Users!AskProfile
        <5>4. fetch'[f].copy.n = c.n
          BY <1>0, <5>1, <5>3, SetFields DEF Users!Entry
        <5> QED
          BY <5>2, <5>4
      <4>3. CASE ~Users!AskUser(f) /\ ~Users!AskProfile(f)
        BY <1>0, <1>7, <2>6, <4>3, SetFields DEF Fetches, Users!FetchStep,
           Users!RequestThrows, Users!CallBack, Users!Catch
      <4> QED
        BY <4>1, <4>2, <4>3
    <3>3. \A g \in Fetch : Fetches(g)' /\ fetch'[g].user = u /\ fetch'[g].copy # None =>
            fetch'[g].copy.n >= newest[u]
      BY <1>4, <2>3, <3>2 DEF Newest
    <3> QED
      BY <1>0, <1>4, <2>2, <3>1, <3>3 DEF Newest, Fetches
  <2> QED
    BY <2>5, <2>6
<1> QED
  BY <1>5, <1>6, <1>7 DEF FetchActs
-----------------------------------------------------------------------------
(* Told of a user, the bot knows whether it is one of the bots.            *)
LEMMA ToldGrounded ==
  ASSUME NEW u, NEW x, NEW k
  PROVE  Grounded(u, [name |-> x, bot |-> u \in Bots, bio |-> None, n |-> k])
<1> DEFINE b == u \in Bots
           e == [name |-> x, bot |-> b, bio |-> None, n |-> k]
<1>1. e.bot = b /\ e.bio = None
  OBVIOUS
<1>2. e.bio # Empty
  BY <1>1, UsersConstants DEF Users!ConstantsAssumption
<1>3. (e.bot => u \in Bots) /\ (u \in Bots => e.bot)
  <2>1. CASE u \in Bots
    BY <2>1
  <2>2. CASE u \notin Bots
    BY <2>2
  <2> QED
    BY <2>1, <2>2
<1> HIDE DEF e, b
<1>4. Grounded(u, e)
  BY <1>2, <1>3 DEF Grounded
<1> QED
  BY <1>4 DEF e, b

LEMMA ReadyEntries == UserInv /\ Users!Ready => EntriesOK'
<1> SUFFICES ASSUME UserInv, Users!Ready PROVE EntriesOK'
  OBVIOUS
<1>1. /\ fetch' = fetch /\ heard' = heard /\ refused' = refused
      /\ cache' = [u \in Person |-> [name |-> profiles[u].name, bot |-> u \in Bots,
                                     bio |-> None, n |-> heardOf + 1]]
  BY DEF Users!Ready, Users!OnReady
<1>2. \A v, e : Grounded(v, e)' = Grounded(v, e)
  BY <1>1 DEF Grounded
<1>3. ASSUME NEW u \in Person PROVE Grounded(u, cache'[u])
  BY <1>1, ToldGrounded
<1>4. ASSUME NEW f \in Fetch PROVE Grounded(fetch'[f].user, fetch'[f].copy)
  BY <1>1 DEF UserInv, EntriesOK
<1> QED
  BY <1>1, <1>3, <1>4 DEF EntriesOK, Grounded

LEMMA CacheAuthorEntries ==
  ASSUME UserInv, NEW m \in messages, Users!CacheAuthor(m)
  PROVE  EntriesOK'
<1>1. /\ heard' = heard \cup {m.user} /\ refused' = refused /\ fetch' = fetch
      /\ cache' = [cache EXCEPT ![m.user] =
                    [name |-> m.name, bot |-> FALSE, bio |-> None, n |-> m.n]]
      /\ DOMAIN cache = Person
  BY DEF Users!CacheAuthor, UserInv, Users!TypeOK
<1>2. \A u \in Person : cache'[u] = cache[u]
        \/ (u = m.user /\ cache'[u].bot = FALSE /\ cache'[u].bio = None)
  BY <1>1
<1>3. None # Empty
  BY UsersConstants DEF Users!ConstantsAssumption
<1>4. ASSUME NEW u \in Person PROVE Grounded(u, cache[u])'
  <2>1. CASE cache'[u] = cache[u]
    BY <1>1, <2>1 DEF UserInv, EntriesOK, Grounded
  <2>2. CASE u = m.user /\ cache'[u].bot = FALSE /\ cache'[u].bio = None
    BY <1>1, <1>3, <2>2 DEF Grounded
  <2> QED
    BY <1>2, <2>1, <2>2
<1>5. ASSUME NEW f \in Fetch PROVE Grounded(fetch[f].user, fetch[f].copy)'
  BY <1>1 DEF UserInv, EntriesOK, Grounded
<1> QED
  BY <1>4, <1>5 DEF EntriesOK

(* A refusal or a bio that the user wrote: what a fetch copies has its     *)
(* cause as well.                                                          *)
LEMMA FetchEntries ==
  ASSUME UserInv, NEW f \in Fetch, FetchActs(f)
  PROVE  EntriesOK'
<1> DEFINE u == fetch[f].user
           c == fetch[f].copy
<1>0. /\ Users!TypeOK /\ heard' = heard /\ u \in Person
      /\ Grounded(u, c) /\ Grounded(u, cache[u])
  BY FetchLeaves, FetchTypes DEF UserInv, EntriesOK
<1>1. refused \subseteq refused'
  BY DEF FetchActs, Users!FetchStep, Users!BeginFetch, Users!AskUser, Users!AskProfile,
     Users!RequestThrows, Users!WriteBack, Users!CallBack, Users!Catch
<1>2. \A e : \A v \in Person : Grounded(v, e) => Grounded(v, e)'
  BY <1>0, <1>1 DEF Grounded
<1>3. \A v \in Person : Grounded(v, cache[v])'
  <2>1. \A v \in Person : cache'[v] = cache[v] \/ (v = u /\ cache'[v] = c)
    BY <1>0, FetchWrites DEF Users!TypeOK
  <2>2. \A v \in Person : Grounded(v, cache[v])
    BY DEF UserInv, EntriesOK
  <2> QED
    BY <1>0, <1>1, <2>1, <2>2 DEF Grounded
<1>4. Grounded(fetch[f].user, fetch[f].copy)'
  <2>1. CASE Users!AskUser(f)
    <3>1. CASE Users!Set(f, "callback", None)
      BY <1>0, <3>1, SetFields DEF Grounded
    <3>2. CASE Users!Set(f, "profile", [name |-> profiles[u].name, bot |-> u \in Bots,
                                        bio |-> None, n |-> heardOf + 1])
      <4> DEFINE e == [name |-> profiles[u].name, bot |-> u \in Bots,
                       bio |-> None, n |-> heardOf + 1]
      <4>1. Grounded(u, e)
        BY ToldGrounded
      <4> HIDE DEF e
      <4>2. fetch'[f].user = u /\ fetch'[f].copy = e
        BY <1>0, <3>2, SetFields DEF e
      <4> QED
        BY <1>0, <1>1, <4>1, <4>2 DEF Grounded
    <3> QED
      BY <2>1, <3>1, <3>2 DEF Users!AskUser
  <2>2. CASE Users!AskProfile(f)
    <3>1. c \in Users!Entry /\ c # None
      BY <1>0, <2>2, FetchTypes DEF Users!AskProfile, Users!At
    <3>2. profiles[u].bio \in Bio \cup {None} /\ None # Empty /\ Empty \notin Bio
      BY <1>0, UsersConstants DEF Users!TypeOK, Users!ConstantsAssumption
    <3>3. \E b : /\ Users!Set(f, "write", [c EXCEPT !.bio = b])
                 /\ b = c.bio \/ b # Empty \/ u \in refused'
      BY <2>2, <3>2 DEF Users!AskProfile
    <3>4. PICK b : /\ Users!Set(f, "write", [c EXCEPT !.bio = b])
                   /\ b = c.bio \/ b # Empty \/ u \in refused'
      BY <3>3
    <3>5. /\ [c EXCEPT !.bio = b].bio = b /\ [c EXCEPT !.bio = b].bot = c.bot
      BY <3>1 DEF Users!Entry
    <3>6. /\ fetch'[f].copy.bio = b /\ fetch'[f].copy.bot = c.bot /\ fetch'[f].user = u
      <4> DEFINE e == [c EXCEPT !.bio = b]
      <4>1. e.bio = b /\ e.bot = c.bot /\ Users!Set(f, "write", e)
        BY <3>4, <3>5
      <4> HIDE DEF e
      <4>2. fetch'[f].copy = e /\ fetch'[f].user = u
        BY <1>0, <4>1, SetFields
      <4> QED
        BY <4>1, <4>2
    <3>7. /\ c.bot => u \in Bots
          /\ u \in Bots /\ ~c.bot => u \in heard'
          /\ c.bio = Empty => u \in refused'
      BY <1>0, <1>1, <3>1 DEF Grounded
    <3>8. b = Empty => u \in refused'
      BY <3>4, <3>7
    <3>9. (fetch'[f].copy.bot => c.bot) /\ (c.bot => fetch'[f].copy.bot)
      <4>1. c.bot \in BOOLEAN
        BY <3>1 DEF Users!Entry
      <4> QED
        BY <3>6, <4>1
    <3> HIDE DEF c
    <3> QED
      BY <3>6, <3>7, <3>8, <3>9 DEF Grounded
  <2>3. CASE ~Users!AskUser(f) /\ ~Users!AskProfile(f)
    <3>1. fetch'[f].user = u /\ fetch'[f].copy \in {None, c, cache[u]}
      BY <1>0, <2>3, SetFields DEF FetchActs, Users!FetchStep, Users!BeginFetch,
         Users!RequestThrows, Users!WriteBack, Users!CallBack, Users!Catch
    <3> QED
      BY <1>0, <1>1, <3>1 DEF Grounded
  <2> QED
    BY <2>1, <2>2, <2>3
<1>5. ASSUME NEW g \in Fetch, g # f PROVE Grounded(fetch[g].user, fetch[g].copy)'
  <2>1. fetch'[g] = fetch[g]
    BY <1>0, <1>5, FetchGoesOn, SetFields
  <2>2. Grounded(fetch[g].user, fetch[g].copy)
    BY DEF UserInv, EntriesOK
  <2> QED
    BY <1>0, <1>1, <2>1, <2>2 DEF Grounded
<1> QED
  BY <1>3, <1>4, <1>5 DEF EntriesOK
-----------------------------------------------------------------------------
LEMMA UserStep == UserInv /\ Users!Next => UserInv'
<1> SUFFICES ASSUME UserInv, Users!Next PROVE UserInv'
  OBVIOUS
<1>1. CASE Users!Ready
  BY <1>1, ReadyTypeStep, ReadyWriters, ReadyEntries DEF UserInv
<1>2. ASSUME NEW u \in Person, Users!Receive(u) PROVE UserInv'
  <2>1. EntriesOK'
    BY <1>2 DEF UserInv, EntriesOK, Grounded, Users!Receive
  <2> QED
    BY <1>2, <2>1, ReceiveTypeStep, ReceiveWriters DEF UserInv
<1>3. ASSUME NEW u \in Person, Users!Change(u) PROVE UserInv'
  <2>1. WritersOK' /\ EntriesOK'
    BY <1>3 DEF UserInv, WritersOK, OneWriter, Newest, Fetches, EntriesOK, Grounded, Users!Change
  <2> QED
    BY <1>3, <2>1, ChangeTypeStep DEF UserInv
<1>4. ASSUME NEW m \in messages, Users!CacheAuthor(m) PROVE UserInv'
  BY <1>4, CacheAuthorTypeStep, CacheAuthorWriters, CacheAuthorEntries DEF UserInv
<1>5. ASSUME NEW f \in Fetch, FetchActs(f) PROVE UserInv'
  BY <1>5, FetchTypeStep, FetchWriters, FetchEntries DEF UserInv
<1> QED
  BY <1>1, <1>2, <1>3, <1>4, <1>5 DEF Users!Next, FetchActs

LEMMA UserStutter ==
  ASSUME UserInv, UNCHANGED userVars
  PROVE  UserInv'
<1>1. /\ profiles' = profiles /\ cache' = cache /\ messages' = messages /\ fetch' = fetch
      /\ answers' = answers /\ heardOf' = heardOf /\ newest' = newest /\ mixed' = mixed
      /\ heard' = heard /\ refused' = refused
  BY DEF userVars
<1> QED
  BY <1>1 DEF UserInv, Users!TypeOK, ToldOK, WritersOK, OneWriter, Newest, Fetches, EntriesOK,
     Grounded

LEMMA AlwaysUserInv == MCSpec => []UserInv
<1>1. MCInit => UserInv
  BY UserInit DEF MCInit, UsersIdle
<1>2. UserInv /\ [MCNext]_allVars => UserInv'
  <2> SUFFICES ASSUME UserInv, [MCNext]_allVars PROVE UserInv'
    OBVIOUS
  <2>1. CASE Users!Next
    BY <2>1, UserStep
  <2>2. CASE UNCHANGED userVars
    BY <2>2, UserStutter
  <2> QED
    BY <2>1, <2>2 DEF MCNext, allVars
<1> QED
  BY <1>1, <1>2, PTL DEF MCSpec

(* What is cached of a user has a cause in what the bot was told: without  *)
(* two writers at once the newest, the bot flag but for a message, an      *)
(* empty bio only for a refused profile; for any number of users, of       *)
(* messages and of calls of fetch_user.                                    *)
THEOREM EntriesStayCaused == MCSpec => []EntriesHaveCause
<1>1. UserInv => EntriesHaveCause
  <2> SUFFICES ASSUME UserInv PROVE EntriesHaveCause
    OBVIOUS
  <2>1. Users!EntryIsNewest
    <3> SUFFICES ASSUME NEW u \in Person, cache[u] # None, Users!Writers(u) = {}, u \notin mixed
                 PROVE  cache[u].n = newest[u]
      BY DEF Users!EntryIsNewest
    <3> QED
      BY NoWriter DEF UserInv, WritersOK, Newest
  <2>2. Users!BotFlagHasCause /\ Users!EmptyBioHasCause
    BY DEF UserInv, EntriesOK, Grounded, Users!BotFlagHasCause, Users!EmptyBioHasCause
  <2> QED
    BY <2>1, <2>2 DEF UserInv, EntriesHaveCause, Users!EntriesHaveCause
<1> QED
  BY <1>1, AlwaysUserInv, PTL
-----------------------------------------------------------------------------
(* The reactions.  Their calls are about the one role; without an overlap  *)
(* the handlers ran in the order of the events, and only the call of the   *)
(* last of them is under way.  A late try of an earlier call that succeeded*)
(* writes what is there, unless the roles have changed since: it is stale. *)
Active(k) == job[k].pc \in {"getting", "patching"}

LastHandled(k) == \A j \in handled : j <= k

TheRole ==
  /\ \A n \in Call : job[n].role = Assigned
  /\ \A n \in Call : job[n].op = IF IsReact(n) THEN "add" ELSE "remove"

EventsCame ==
  /\ handled \subseteq Call /\ sent \in Nat
  /\ sent = 0 \/ sent \in Call
  /\ \A n \in handled : n <= sent
  /\ \A n \in Call : n \notin handled => job[n].pc = "idle"

InTurn ==
  /\ \A n \in handled, k \in Call : k < n => k \in handled
  /\ \A k \in Call : Active(k) => LastHandled(k)

RoleIsUpToDate ==
  /\ \A k \in Call : Active(k) => ~touched[k]
  /\ handled = {} => Assigned \notin roles
  /\ \A k \in handled :
       job[k].report = "ok" /\ LastHandled(k) => (Assigned \in roles <=> IsReact(k))

Undisturbed ==
  ~overlapped /\ outside = 0 /\ \A k \in Call : ~stale[k] /\ job[k].report # "failed"

ReactInv ==
  /\ TheRole /\ EventsCame
  /\ ~overlapped => InTurn
  /\ Undisturbed => RoleIsUpToDate
-----------------------------------------------------------------------------
LEMMA ReactInit == RInit => ReactInv
<1> SUFFICES ASSUME RInit PROVE ReactInv
  OBVIOUS
<1>1. /\ \A k \in Call : job[k].pc = "idle" /\ job[k].report = "none" /\ ~touched[k]
      /\ handled = {} /\ sent = 0
  BY DEF RInit, Init
<1>2. Assigned \notin roles
  BY DEF RInit
<1>3. TheRole
  BY DEF RInit, TheRole
<1> QED
  BY <1>1, <1>2, <1>3 DEF ReactInv, EventsCame, InTurn, RoleIsUpToDate, Active

(* A reaction more.                                                        *)
LEMMA ToggleStep == ReactInv /\ ToggleReaction => ReactInv'
<1> SUFFICES ASSUME ReactInv, ToggleReaction PROVE ReactInv'
  OBVIOUS
<1>1. /\ sent + 1 \in Call /\ sent' = sent + 1 /\ sent' \in Nat
      /\ job' = job /\ roles' = roles /\ touched' = touched /\ outside' = outside
      /\ stale' = stale
      /\ handled' = handled /\ overlapped' = overlapped
  BY DEF ReactInv, EventsCame, ToggleReaction, vars
<1>2. \A n \in handled : n <= sent'
  <2>1. \A n \in handled : n \in Nat /\ n <= sent
    BY EventNumbers DEF ReactInv, EventsCame
  <2>2. sent \in Nat
    BY DEF ReactInv, EventsCame
  <2> QED
    BY <1>1, <2>1, <2>2
<1>3. TheRole' /\ EventsCame'
  BY <1>1, <1>2 DEF ReactInv, TheRole, EventsCame
<1>4. /\ (InTurn => InTurn') /\ (RoleIsUpToDate => RoleIsUpToDate')
      /\ Undisturbed' => Undisturbed
  BY <1>1 DEF InTurn, RoleIsUpToDate, Active, LastHandled, Undisturbed
<1> QED
  BY <1>1, <1>3, <1>4 DEF ReactInv

(* A handler that runs in turn runs after those of all earlier events, and *)
(* their calls have ended.                                                 *)
LEMMA HandleStep ==
  ASSUME RolesInv, ReactInv, NEW n \in Call, Handle(n)
  PROVE  ReactInv'
<1>0. /\ TypeOK /\ TheRole /\ EventsCame /\ n \in Nat /\ n <= sent /\ n \notin handled
      /\ handled' = handled \cup {n} /\ sent' = sent
      /\ overlapped' = (overlapped \/ Overlaps(n))
  BY EventNumbers DEF RolesInv, ReactInv, Handle
<1>1. /\ roles' = roles /\ touched' = touched /\ stale' = stale /\ outside' = outside
      /\ \A j \in Call : j # n => job'[j] = job[j]
      /\ job'[n].op = job[n].op /\ job'[n].role = job[n].role /\ job'[n].report = job[n].report
  <2>1. CASE Start(n)
    <3>1. job'[n].report = job[n].report
      BY <1>0, <2>1, WorkFields DEF Start
    <3> QED
      BY <1>0, <2>1, <3>1, WorkFields
  <2>2. CASE UNCHANGED vars
    BY <2>2 DEF vars
  <2> QED
    BY <2>1, <2>2 DEF Handle
<1>2. TheRole'
  BY <1>0, <1>1 DEF TheRole
<1>3. EventsCame'
  BY <1>0, <1>1 DEF EventsCame
<1>4. job[n].report = "none" /\ job'[n].report = "none" /\ ~touched[n]
  BY <1>0, <1>1 DEF EventsCame, RolesInv, HasToWrite, Consistent, Writing
<1>5. ASSUME ~overlapped'
      PROVE  /\ \A k \in Call : k # n => ~Active(k) /\ (k < n <=> k \in handled)
             /\ ~overlapped
  <2>1. ~Overlaps(n) /\ ~overlapped
    BY <1>0, <1>5
  <2>2. \A k \in Call \ {n} :
          ~(job[k].pc \in {"getting", "patching"} \/ (k < n) # (k \in handled))
    BY <2>1 DEF Overlaps
  <2> QED
    BY <2>1, <2>2 DEF Active
<1>6. ~overlapped' => \A k \in handled' : k <= n
  BY <1>0, <1>5, EventNumbers DEF EventsCame
<1>7. ~overlapped' => InTurn'
  <2> SUFFICES ASSUME ~overlapped' PROVE InTurn'
    OBVIOUS
  <2>1. ASSUME NEW m \in handled', NEW k \in Call, k < m PROVE k \in handled'
    <3>1. k \in Nat /\ m \in Nat /\ n \in Nat
      BY <1>0, <1>3, <2>1, EventNumbers DEF EventsCame
    <3>2. m <= n
      BY <1>6, <2>1
    <3>3. k < n \/ k = n
      BY <2>1, <3>1, <3>2
    <3> QED
      BY <1>0, <1>5, <3>3
  <2>2. ASSUME NEW k \in Call, Active(k)' PROVE LastHandled(k)'
    <3>1. k = n
      BY <1>1, <1>5, <2>2 DEF Active
    <3> QED
      BY <1>6, <3>1 DEF LastHandled
  <2> QED
    BY <2>1, <2>2 DEF InTurn
<1>8. Undisturbed' => RoleIsUpToDate'
  <2> SUFFICES ASSUME Undisturbed' PROVE RoleIsUpToDate'
    OBVIOUS
  <2>0. ~overlapped'
    BY DEF Undisturbed
  <2>1. RoleIsUpToDate
    <3>1. Undisturbed
      BY <1>1, <1>4, <1>5, <2>0 DEF Undisturbed
    <3> QED
      BY <3>1 DEF ReactInv
  <2>2. ASSUME NEW k \in handled', job'[k].report = "ok", LastHandled(k)' PROVE FALSE
    <3>1. k # n
      BY <1>4, <2>2
    <3>2. k \in handled /\ k \in Nat /\ k < n
      BY <1>0, <1>5, <2>0, <3>1, EventNumbers DEF EventsCame
    <3>3. n <= k
      BY <1>0, <2>2 DEF LastHandled
    <3> QED
      BY <1>0, <3>2, <3>3
  <2>3. ASSUME NEW k \in Call, Active(k)' PROVE ~touched'[k]
    BY <1>1, <1>4, <1>5, <2>0, <2>3 DEF Active
  <2> QED
    BY <1>0, <2>2, <2>3 DEF RoleIsUpToDate
<1> QED
  BY <1>2, <1>3, <1>7, <1>8 DEF ReactInv

(* Two calls that are under way are one.                                   *)
LEMMA OneActive ==
  ASSUME EventsCame, InTurn, NEW j \in Call, NEW k \in Call, Active(j), Active(k)
  PROVE  j = k
<1>1. j \in handled /\ k \in handled /\ j \in Nat /\ k \in Nat
  BY EventNumbers DEF EventsCame, Active
<1>2. j <= k /\ k <= j
  BY <1>1 DEF InTurn, LastHandled
<1> QED
  BY <1>1, <1>2

LEMMA CallWorkStep ==
  ASSUME RolesInv, ReactInv, NEW k \in Call, Work(k), UNCHANGED <<sent, handled, overlapped>>
  PROVE  ReactInv'
<1>0. /\ TypeOK /\ TheRole /\ EventsCame
      /\ sent' = sent /\ handled' = handled /\ overlapped' = overlapped
  BY DEF RolesInv, ReactInv
<1>1. /\ roles' = roles /\ touched' = touched /\ stale' = stale /\ outside' = outside
      /\ \A j \in Call : j # k => job'[j] = job[j]
      /\ job'[k].op = job[k].op /\ job'[k].role = job[k].role
      /\ Active(k) /\ job'[k].pc # "idle"
  BY <1>0, WorkFields DEF Active, Work, GetFails, GetAnswered, PatchAnswered, PatchFails
<1>2. k \in handled
  BY <1>0, <1>1 DEF EventsCame, Active
<1>3. TheRole' /\ EventsCame'
  BY <1>0, <1>1, <1>2 DEF TheRole, EventsCame
<1>4. InTurn => InTurn'
  <2>1. \A j \in Call : Active(j)' => Active(j)
    BY <1>1 DEF Active
  <2> QED
    BY <1>0, <1>1, <2>1 DEF InTurn, LastHandled
<1>5. ASSUME RoleIsUpToDate, job'[k].report = "ok" PROVE Assigned \in roles <=> IsReact(k)
  <2>1. job[k].op = "add" <=> IsReact(k)
    BY <1>0 DEF TheRole
  <2>2. job[k].role = Assigned /\ (job[k].op = "add" \/ job[k].op = "remove")
    BY <1>0 DEF TheRole
  <2>3. \/ (job[k].role \in roles) = (job[k].op = "add")
        \/ job[k].pc = "patching" /\ job[k].tries > 0
        \/ job[k].report = "ok" /\ job[k].pc \in {"idle", "getting"}
    BY <1>0, <1>5, WorkFields
  <2>4. CASE (job[k].role \in roles) = (job[k].op = "add")
    BY <2>1, <2>2, <2>4
  <2>5. CASE job[k].pc = "patching" /\ job[k].tries > 0
    <3>1. Writing(k) /\ ~touched[k] /\ job[k].tries # 0
      BY <1>1, <1>5, <2>5 DEF Writing, RoleIsUpToDate
    <3>2. roles = Wanted(k)
      BY <3>1 DEF RolesInv, KnowsRoles
    <3> QED
      BY <2>1, <2>2, <3>2 DEF Wanted
  <2>6. ~(job[k].report = "ok" /\ job[k].pc \in {"idle", "getting"})
    BY DEF RolesInv, HasToWrite, Consistent
  <2> QED
    BY <2>3, <2>4, <2>5, <2>6
<1>6. Undisturbed' => RoleIsUpToDate'
  <2> SUFFICES ASSUME Undisturbed' PROVE RoleIsUpToDate'
    OBVIOUS
  <2>1. RoleIsUpToDate
    <3>1. job[k].report # "failed"
      BY <1>1 DEF RolesInv, HasToWrite, Consistent, Active
    <3>2. \A j \in Call : job[j].report # "failed"
      BY <1>1, <3>1 DEF Undisturbed
    <3>3. Undisturbed
      BY <1>0, <1>1, <3>2 DEF Undisturbed
    <3> QED
      BY <3>3 DEF ReactInv
  <2>2. ASSUME NEW j \in handled, job'[j].report = "ok", LastHandled(j)
        PROVE  Assigned \in roles <=> IsReact(j)
    <3>1. CASE j = k
      BY <1>5, <2>1, <2>2, <3>1
    <3>2. CASE j # k
      BY <1>0, <1>1, <2>1, <2>2, <3>2 DEF RoleIsUpToDate, EventsCame
    <3> QED
      BY <3>1, <3>2
  <2>3. \A j \in Call : Active(j)' => Active(j) /\ ~touched'[j]
    BY <1>1, <2>1 DEF RoleIsUpToDate, Active
  <2>4. handled # {}
    BY <1>2
  <2> QED
    BY <1>0, <1>1, <2>2, <2>3, <2>4 DEF RoleIsUpToDate, LastHandled
<1> QED
  BY <1>0, <1>1, <1>3, <1>4, <1>6 DEF ReactInv

LEMMA CallApplyStep ==
  ASSUME RolesInv, ReactInv, NEW k \in Call, Apply(k), UNCHANGED <<sent, handled, overlapped>>
  PROVE  ReactInv'
<1>0. /\ TypeOK /\ TheRole /\ EventsCame
      /\ sent' = sent /\ handled' = handled /\ overlapped' = overlapped
  BY DEF RolesInv, ReactInv
<1>1. /\ Writing(k) /\ outside' = outside
      /\ \A j \in Call : j # k => job'[j] = job[j]
      /\ \A j \in Call : job'[j].op = job[j].op /\ job'[j].role = job[j].role
                         /\ job'[j].pc = job[j].pc /\ job'[j].report = job[j].report
  BY <1>0, ApplyFields
<1>2. k \in handled
  BY <1>0, <1>1 DEF EventsCame, Writing
<1>3. TheRole' /\ EventsCame'
  BY <1>0, <1>1, <1>2 DEF TheRole, EventsCame
<1>4. InTurn => InTurn'
  BY <1>0, <1>1 DEF InTurn, LastHandled, Active
<1>5. Undisturbed' => RoleIsUpToDate'
  <2> SUFFICES ASSUME Undisturbed' PROVE RoleIsUpToDate'
    OBVIOUS
  <2>1. Undisturbed /\ ~touched[k]
    BY <1>0, <1>1, ApplyFields DEF Undisturbed
  <2>2. RoleIsUpToDate /\ InTurn
    BY <2>1 DEF ReactInv, Undisturbed
  <2>3. \A j \in Call :
          touched'[j] = (touched[j] \/ (j \in Call \ {k} /\ Writing(j) /\ Wanted(k) # roles))
    BY Zenon DEF Apply, Touch
  <2>4. CASE job[k].pc = "patching"
    <3>1. Active(k)
      BY <2>4 DEF Active
    <3>2. ASSUME NEW j \in Call, Active(j)' PROVE ~touched'[j]
      <4>1. Active(j)
        BY <1>1, <3>2 DEF Active
      <4>2. j = k
        BY <1>0, <2>2, <3>1, <4>1, OneActive
      <4>3. ~(j \in Call \ {k} /\ Writing(j) /\ Wanted(k) # roles)
        BY <4>2
      <4> QED
        BY <2>1, <2>3, <4>2, <4>3
    <3>3. ASSUME NEW j \in handled, job[j].report = "ok", LastHandled(j) PROVE FALSE
      <4>1. j \in Nat /\ k \in Nat /\ k <= j /\ j <= k
        BY <1>0, <1>2, <2>2, <3>1, <3>3, EventNumbers DEF LastHandled, InTurn, EventsCame
      <4>2. j = k
        BY <4>1
      <4> QED
        BY <2>4, <3>3, <4>2 DEF RolesInv, HasToWrite, Consistent
    <3>4. \A j \in handled : job'[j].report = job[j].report
      BY <1>0, <1>1 DEF EventsCame
    <3> QED
      BY <1>0, <1>2, <3>2, <3>3, <3>4 DEF RoleIsUpToDate, LastHandled
  <2>5. CASE job[k].pc = "patched"
    <3>1. job[k].tries # 0
      <4>1. job[k].report = "ok"
        <5>1. job[k] \in Jobs
          BY <1>0 DEF TypeOK
        <5>2. job[k].report \in {"none", "ok", "failed"}
          BY <5>1 DEF Jobs
        <5> QED
          BY <2>1, <2>5, <5>2 DEF Undisturbed, RolesInv, HasToWrite, Consistent
      <4> QED
        BY <2>5, <4>1 DEF RolesInv, HasToWrite, Consistent
    <3>2. roles = Wanted(k) /\ roles' = Wanted(k)
      BY <1>0, <1>1, <2>1, <3>1, ApplyFields DEF RolesInv, KnowsRoles
    <3>3. \A j \in Call : touched'[j] = touched[j]
      <4>1. \A j \in Call : ~(j \in Call \ {k} /\ Writing(j) /\ Wanted(k) # roles)
        BY <3>2
      <4>2. \A j \in Call : touched[j] \in BOOLEAN
        BY <1>0 DEF TypeOK
      <4> QED
        BY <2>3, <4>1, <4>2
    <3>4. \A j \in handled : job'[j].report = job[j].report
      BY <1>0, <1>1 DEF EventsCame
    <3>5. \A j \in Call : Active(j)' => ~touched'[j]
      BY <1>1, <2>2, <3>3 DEF Active, RoleIsUpToDate
    <3> QED
      BY <1>0, <1>2, <2>2, <3>2, <3>4, <3>5 DEF RoleIsUpToDate, LastHandled
  <2> QED
    BY <1>1, <2>4, <2>5 DEF Writing
<1> QED
  BY <1>0, <1>1, <1>3, <1>4, <1>5 DEF ReactInv

LEMMA ReactOutsideStep ==
  RolesInv /\ ReactInv /\ Outside /\ UNCHANGED <<sent, handled, overlapped>> => ReactInv'
<1> SUFFICES ASSUME RolesInv, ReactInv, Outside, UNCHANGED <<sent, handled, overlapped>>
             PROVE  ReactInv'
  OBVIOUS
<1>1. job' = job /\ outside' # 0 /\ sent' = sent /\ handled' = handled
      /\ overlapped' = overlapped
  BY OutsideFields DEF RolesInv
<1> QED
  BY <1>1 DEF ReactInv, TheRole, EventsCame, InTurn, Active, LastHandled, Undisturbed

LEMMA ReactStep == RolesInv /\ ReactInv /\ RNext => ReactInv'
<1> SUFFICES ASSUME RolesInv, ReactInv, RNext PROVE ReactInv'
  OBVIOUS
<1> QED
  BY ToggleStep, HandleStep, CallWorkStep, CallApplyStep, ReactOutsideStep DEF RNext

LEMMA ReactStutter == ReactInv /\ UNCHANGED reactionVars => ReactInv'
  BY DEF reactionVars, vars, ReactInv, TheRole, EventsCame, InTurn, Active, LastHandled,
     RoleIsUpToDate, Undisturbed

LEMMA AlwaysReactInv == MCSpec => [](RolesInv /\ (part = "reactions" => ReactInv))
<1> DEFINE Inv == RolesInv /\ (part = "reactions" => ReactInv)
<1>1. MCInit => Inv
  BY InvInit, ReactInit DEF MCInit, RolesIdle, RInit
<1>2. Inv /\ [MCNext]_allVars => Inv'
  <2> SUFFICES ASSUME Inv, [MCNext]_allVars PROVE Inv'
    OBVIOUS
  <2>1. CASE UNCHANGED reactionVars /\ part' = part
    <3>1. [Next]_vars
      BY <2>1 DEF reactionVars
    <3> QED
      BY <2>1, <3>1, InvStep, ReactStutter
  <2>2. CASE part = "calls" /\ part' = part /\ Next
    BY <2>2, InvStep
  <2>3. CASE part = "reactions" /\ part' = part /\ RNext
    <3>1. [Next]_vars
      BY <2>3 DEF RNext, ToggleReaction, Handle, Next
    <3> QED
      BY <2>3, <3>1, InvStep, ReactStep
  <2> QED
    BY <2>1, <2>2, <2>3 DEF MCNext, allVars
<1> QED
  BY <1>1, <1>2, PTL DEF MCSpec

(* When all events were handled and all calls succeeded, the member has    *)
(* the role exactly if the reaction is there, unless two handlers ran out  *)
(* of order or at once, a PATCH came through late on changed roles, or     *)
(* somebody else changed the roles; for any number of reactions and of     *)
(* tries of each PATCH.                                                    *)
THEOREM ReactionsStayFollowed == MCSpec => []ReactionsAreFollowed
<1>1. RolesInv /\ ReactInv => DivergenceNeedsOverlap
  <2> SUFFICES ASSUME RolesInv, ReactInv, Settled, ~overlapped, \A n \in Call : ~stale[n]
               PROVE  (Assigned \in roles) = Reacted
    BY DEF DivergenceNeedsOverlap, RoleFollowsReaction
  <2>1. RoleIsUpToDate /\ EventsCame
    <3>1. EventsCame
      BY DEF ReactInv
    <3>2. ASSUME NEW n \in Call PROVE job[n].report # "failed"
      <4>1. CASE n <= sent
        BY <4>1 DEF Settled
      <4>2. CASE ~(n <= sent)
        <5>1. n \notin handled
          BY <3>1, <4>2 DEF EventsCame
        <5> QED
          BY <3>1, <5>1 DEF EventsCame, RolesInv, HasToWrite, Consistent
      <4> QED
        BY <4>1, <4>2
    <3>3. Undisturbed
      BY <3>2 DEF Undisturbed, Settled
    <3> QED
      BY <3>1, <3>3 DEF ReactInv
  <2>2. \A n \in Call : n <= sent => job[n].report = "ok" /\ n \in handled
    BY <2>1 DEF Settled, EventsCame, RolesInv, HasToWrite, Consistent
  <2>3. CASE sent \in Call
    <3>1. sent \in handled /\ LastHandled(sent) /\ job[sent].report = "ok"
      BY <2>1, <2>2, <2>3 DEF EventsCame, LastHandled
    <3>2. Assigned \in roles <=> IsReact(sent)
      BY <2>1, <3>1 DEF RoleIsUpToDate
    <3> QED
      BY <3>2 DEF Reacted, IsReact
  <2>4. CASE sent \notin Call
    <3>1. sent = 0 /\ handled = {}
      <4>1. sent = 0 /\ \A n \in handled : n \in Nat /\ n \in Call /\ n <= 0
        BY <2>1, <2>4, EventNumbers DEF EventsCame
      <4>2. ASSUME NEW n \in handled PROVE n = 0
        <5>1. n \in Nat /\ n <= 0
          BY <4>1
        <5> QED
          BY <5>1
      <4> QED
        BY <2>4, <4>1, <4>2
    <3>2. Assigned \notin roles
      BY <2>1, <3>1 DEF RoleIsUpToDate
    <3>3. ~Reacted
      BY <3>1 DEF Reacted, IsReact
    <3> QED
      BY <3>2, <3>3 DEF Reacted, IsReact
  <2> QED
    BY <2>3, <2>4
<1>2. RolesInv /\ (part = "reactions" => ReactInv) => ReactionsAreFollowed
  BY <1>1 DEF ReactionsAreFollowed
<1> QED
  BY <1>2, AlwaysReactInv, PTL
-----------------------------------------------------------------------------
(* What is cached of a server.  Its aspects: that it is here, its name and *)
(* its roles, its channels and those members who are not ignored.  An      *)
(* event that is on its way writes some of them.                           *)
Kinds == {"here", "name", "role", "channel", "member"}

ServerKinds == {"here", "name", "role"}

Of(k) ==
  IF k = "role" THEN CachedRole ELSE IF k = "channel" THEN Channel
  ELSE IF k = "member" THEN User \ Ignored ELSE {Absent}

(* The aspect of the server s in the value v of a server; in the state st. *)
InServer(v, s, k, x) ==
  IF v = Absent THEN {}
  ELSE IF k = "here" THEN {s}
  ELSE IF k = "name" THEN {v.name}
  ELSE IF x \in DOMAIN v.roles THEN {v.roles[x]} ELSE {}

In(st, s, k, x) ==
  IF k = "channel" THEN IF <<s, x>> \in st.channels THEN {s} ELSE {}
  ELSE IF k = "member" THEN IF <<s, x>> \in st.members THEN {s} ELSE {}
  ELSE InServer(st.servers[s], s, k, x)

(* Whether e writes the aspect, and what.                                  *)
ReadyWrites(e, s, k, x) ==
  IF k = "channel" THEN <<s, x>> \in e.state.channels
  ELSE IF k = "member" THEN <<s, x>> \in e.state.members
  ELSE e.state.servers[s] # Absent

TellsOf(e, k, x) ==
  \/ e.type \in {"ServerCreate", "ServerDelete"} /\ k \in ServerKinds
  \/ e.type = "ServerCreate" /\ k = "channel" /\ x \in e.channels
  \/ e.type = "ServerUpdate" /\ k = "name" /\ e.name # Absent
  \/ e.type \in {"RoleCreate", "RoleUpdate", "RoleDelete"} /\ k = "role" /\ x = e.role
  \/ e.type \in {"ChannelCreate", "ChannelDelete"} /\ k = "channel" /\ x = e.channel
  \/ e.type \in {"MemberJoin", "MemberLeave"} /\ k = "member" /\ x = e.user

Writes(e, s, k, x) ==
  IF e.type = "Ready" THEN ReadyWrites(e, s, k, x)
  ELSE e.server = s /\ TellsOf(e, k, x)

Written(e, s, k, x) ==
  IF e.type = "Ready" THEN In(e.state, s, k, x)
  ELSE IF e.type = "ServerCreate" /\ k \in ServerKinds THEN InServer(e.value, s, k, x)
  ELSE IF e.type \in {"ServerDelete", "RoleDelete", "ChannelDelete", "MemberLeave"} THEN {}
  ELSE IF e.type \in {"ServerUpdate", "RoleCreate", "RoleUpdate"} THEN {e.name}
  ELSE {s}

(* The events on their way, and those of them that the worker has yet.     *)
Waiting == {stream[i] : i \in DOMAIN stream}

Pending == threads \cup erasing \cup Waiting

(* The aspect is v once those of the events P before the n-th are applied  *)
(* to c, in their order.                                                   *)
LastWrite(P, f, s, k, x, n) ==
  /\ f \in P /\ f.n < n /\ Writes(f, s, k, x)
  /\ \A g \in P : g.n < n /\ Writes(g, s, k, x) => g.n <= f.n

After(P, c, s, k, x, n, v) ==
  \/ \E f \in P : LastWrite(P, f, s, k, x, n) /\ Written(f, s, k, x) = v
  \/ In(c, s, k, x) = v /\ \A g \in P : g.n < n => ~Writes(g, s, k, x)

Before(s, k, x, n, v) == After(Pending, cached, s, k, x, n, v)

(* An older event of the server was applied after a newer one.             *)
Doubt(k) == IF k \in ServerKinds THEN late ELSE disordered

Trusted(s, k, x, n) ==
  s \notin Doubt(k) \/ \E f \in Waiting : f.n < n /\ Writes(f, s, k, x)

(* The bot was told of what the aspect is now, or will be by Ready.        *)
Told(s, k, x) ==
  IF k = "channel" THEN IF <<s, x>> \in platform.channels THEN connected ELSE <<s, x>> \notin missed
  ELSE IF k = "member" THEN <<s, x>> \notin platform.members /\ <<s, x>> \notin missed
  ELSE IF platform.servers[s] # Absent THEN connected ELSE s \notin missed

Current ==
  \A s \in Server, k \in Kinds : \A x \in Of(k) :
    Told(s, k, x) /\ Trusted(s, k, x, told + 1)
      => Before(s, k, x, told + 1, In(platform, s, k, x))

(* What an event asks for, so that its listener does not drop it.          *)
NeedKind(e) == IF e.type = "RoleUpdate" THEN "role" ELSE "here"
NeedOf(e) == IF e.type = "RoleUpdate" THEN e.role ELSE Absent

Asks(e) == e.type \in {"ServerUpdate", "RoleCreate", "RoleUpdate"}

Effective ==
  \A e \in Pending : Asks(e) /\ Trusted(e.server, NeedKind(e), NeedOf(e), e.n) =>
    ~Before(e.server, NeedKind(e), NeedOf(e), e.n, {})

InOrder ==
  /\ \A e \in Pending : e.n \in 1..told
  /\ \A e, f \in Pending : e.n = f.n => e = f
  /\ \A e \in threads \cup erasing, f \in Waiting : e.n < f.n
  /\ \A i, j \in DOMAIN stream : i < j => stream[i].n < stream[j].n

IsEvent(e) ==
  /\ e.type \in {"Ready", "ServerCreate", "ServerDelete", "ServerUpdate", "RoleCreate", "RoleUpdate",
                 "RoleDelete", "ChannelCreate", "ChannelDelete", "MemberJoin", "MemberLeave"}
  /\ e.n \in Nat
  /\ e.type = "Ready" => e.state \in Caches!State
  /\ e.type # "Ready" => e.server \in Server
  /\ e.type = "ServerCreate" => e.value \in Caches!ServerValue /\ e.channels \subseteq Channel
  /\ e.type = "ServerUpdate" => e.name \in Name \cup {Absent}
  /\ e.type \in {"RoleCreate", "RoleUpdate", "RoleDelete"} => e.role \in CachedRole
  /\ e.type \in {"RoleCreate", "RoleUpdate"} => e.name \in Name
  /\ e.type \in {"ChannelCreate", "ChannelDelete"} => e.channel \in Channel
  /\ e.type \in {"MemberJoin", "MemberLeave"} => e.user \in User

EventsOK ==
  /\ stream \in Seq(Waiting)
  /\ \A e \in Pending : IsEvent(e)
  /\ \A e \in threads \cup erasing : e.type # "Ready"
  /\ threads \cap erasing = {}

CacheInv == Caches!TypeOK /\ EventsOK /\ InOrder /\ Current /\ Effective
-----------------------------------------------------------------------------
(* What a listener changes: the aspects its event writes.                  *)
Effect(c, d, e) ==
  \A s \in Server, k \in Kinds : \A x \in Of(k) :
    In(d, s, k, x) = IF Writes(e, s, k, x) THEN Written(e, s, k, x) ELSE In(c, s, k, x)

LEMMA StateFields ==
  ASSUME NEW c \in Caches!State
  PROVE  /\ c = [servers |-> c.servers, channels |-> c.channels, members |-> c.members]
         /\ c.servers \in [Server -> Caches!ServerValue \cup {Absent}]
         /\ c.channels \subseteq Server \X Channel
         /\ c.members \subseteq Server \X User
  BY DEF Caches!State

LEMMA PutFields ==
  ASSUME NEW c \in Caches!State, NEW s \in Server, NEW v \in Caches!ServerValue \cup {Absent}
  PROVE  /\ Caches!Put(c, s, v) \in Caches!State
         /\ Caches!Put(c, s, v).servers[s] = v
         /\ \A t \in Server : t # s => Caches!Put(c, s, v).servers[t] = c.servers[t]
         /\ Caches!Put(c, s, v).channels = c.channels
         /\ Caches!Put(c, s, v).members = c.members
  BY StateFields DEF Caches!Put, Caches!State

LEMMA ValueFields ==
  ASSUME NEW v \in Caches!ServerValue
  PROVE  /\ v.name \in Name /\ v # Absent
         /\ DOMAIN v.roles \subseteq CachedRole
         /\ v.roles = [q \in DOMAIN v.roles |-> v.roles[q]]
         /\ \A q \in DOMAIN v.roles : v.roles[q] \in Name
         /\ v = [name |-> v.name, roles |-> v.roles]
<1>1. /\ v.name \in Name /\ v = [name |-> v.name, roles |-> v.roles]
      /\ v.roles \in UNION {[R -> Name] : R \in SUBSET CachedRole}
  BY DEF Caches!ServerValue
<1>2. PICK R \in SUBSET CachedRole : v.roles \in [R -> Name]
  BY <1>1
<1> QED
  BY <1>1, <1>2, CacheConstants DEF Caches!ConstantsAssumption

LEMMA MakeValue ==
  ASSUME NEW n \in Name, NEW R \in SUBSET CachedRole, NEW r \in [R -> Name]
  PROVE  [name |-> n, roles |-> r] \in Caches!ServerValue
<1>1. r \in UNION {[Q -> Name] : Q \in SUBSET CachedRole}
  OBVIOUS
<1> QED
  BY <1>1 DEF Caches!ServerValue

(* The listener that replaces the server s by v writes the aspects of s.   *)
LEMMA ServerCreateEffect ==
  ASSUME NEW c \in Caches!State, NEW e, IsEvent(e), e.type = "ServerCreate"
  PROVE  Caches!OnServerCreate(c, e) \in Caches!State /\ Effect(c, Caches!OnServerCreate(c, e), e)
<1> DEFINE d == Caches!OnServerCreate(c, e)
           p == Caches!Put(c, e.server, e.value)
<1>1. e.server \in Server /\ e.value \in Caches!ServerValue /\ e.channels \subseteq Channel
  BY DEF IsEvent
<1>2. /\ p \in Caches!State /\ p.servers[e.server] = e.value
      /\ \A t \in Server : t # e.server => p.servers[t] = c.servers[t]
      /\ p.channels = c.channels /\ p.members = c.members
  BY <1>1, PutFields
<1> HIDE DEF p
<1>3. /\ d.servers = p.servers /\ d.members = p.members
      /\ d.channels = p.channels \cup ({e.server} \X e.channels)
      /\ d \in Caches!State
  BY <1>1, <1>2, StateFields DEF Caches!OnServerCreate, p, Caches!State
<1> HIDE DEF d
<1>4. ASSUME NEW s \in Server, NEW k \in Kinds, NEW x \in Of(k)
      PROVE  In(d, s, k, x) = IF Writes(e, s, k, x) THEN Written(e, s, k, x) ELSE In(c, s, k, x)
  <2>1. CASE k = "channel"
    <3>1. <<s, x>> \in d.channels <=> <<s, x>> \in c.channels \/ (s = e.server /\ x \in e.channels)
      BY <1>2, <1>3
    <3> QED
      BY <2>1, <3>1 DEF In, Writes, Written, TellsOf, ServerKinds
  <2>2. CASE k = "member"
    BY <1>2, <1>3, <2>2 DEF In, Writes, TellsOf, ServerKinds
  <2>3. CASE k \in ServerKinds
    <3>1. Writes(e, s, k, x) <=> s = e.server
      BY <2>3 DEF Writes, TellsOf
    <3>2. In(d, s, k, x) = InServer(p.servers[s], s, k, x)
      BY <1>3, <2>3 DEF In, ServerKinds
    <3>3. CASE s = e.server
      BY <1>2, <2>3, <3>1, <3>2, <3>3 DEF Written
    <3>4. CASE s # e.server
      BY <1>2, <2>3, <3>1, <3>2, <3>4 DEF In, ServerKinds
    <3> QED
      BY <3>3, <3>4
  <2> QED
    BY <2>1, <2>2, <2>3 DEF Kinds, ServerKinds
<1> QED
  BY <1>3, <1>4 DEF Effect, d

LEMMA EraseEffect ==
  ASSUME NEW c \in Caches!State, NEW e, IsEvent(e), e.type = "ServerDelete"
  PROVE  /\ Caches!Put(c, e.server, Absent) \in Caches!State
         /\ Effect(c, Caches!Put(c, e.server, Absent), e)
<1> DEFINE d == Caches!Put(c, e.server, Absent)
<1>1. e.server \in Server
  BY DEF IsEvent
<1>2. /\ d \in Caches!State /\ d.servers[e.server] = Absent
      /\ \A t \in Server : t # e.server => d.servers[t] = c.servers[t]
      /\ d.channels = c.channels /\ d.members = c.members
  BY <1>1, PutFields
<1> HIDE DEF d
<1>3. ASSUME NEW s \in Server, NEW k \in Kinds, NEW x \in Of(k)
      PROVE  In(d, s, k, x) = IF Writes(e, s, k, x) THEN Written(e, s, k, x) ELSE In(c, s, k, x)
  <2>1. CASE k \in {"channel", "member"}
    BY <1>2, <2>1 DEF In, Writes, TellsOf, ServerKinds
  <2>2. CASE k \in ServerKinds
    <3>1. Writes(e, s, k, x) <=> s = e.server
      BY <2>2 DEF Writes, TellsOf
    <3>2. In(d, s, k, x) = InServer(d.servers[s], s, k, x)
      BY <2>2 DEF In, ServerKinds
    <3>3. CASE s = e.server
      BY <1>2, <2>2, <3>1, <3>2, <3>3 DEF Written, InServer
    <3>4. CASE s # e.server
      BY <1>2, <2>2, <3>1, <3>2, <3>4 DEF In, ServerKinds
    <3> QED
      BY <3>3, <3>4
  <2> QED
    BY <2>1, <2>2 DEF Kinds, ServerKinds
<1> QED
  BY <1>2, <1>3 DEF Effect, d

(* A change of one server, in its name or in its roles.                    *)
LEMMA ServerChangeEffect ==
  ASSUME NEW c \in Caches!State, NEW d, NEW e, NEW s0 \in Server, NEW v \in Caches!ServerValue,
         IsEvent(e), e.type # "Ready", e.server = s0, d = Caches!Put(c, s0, v),
         \A k, x : TellsOf(e, k, x) => k \in ServerKinds,
         \A k \in ServerKinds : \A x \in Of(k) :
           InServer(v, s0, k, x) = IF TellsOf(e, k, x) THEN Written(e, s0, k, x)
                                   ELSE InServer(c.servers[s0], s0, k, x)
  PROVE  d \in Caches!State /\ Effect(c, d, e)
<1>1. /\ d \in Caches!State /\ d.servers[s0] = v
      /\ \A t \in Server : t # s0 => d.servers[t] = c.servers[t]
      /\ d.channels = c.channels /\ d.members = c.members
  BY PutFields
<1>2. ASSUME NEW s \in Server, NEW k \in Kinds, NEW x \in Of(k)
      PROVE  In(d, s, k, x) = IF Writes(e, s, k, x) THEN Written(e, s, k, x) ELSE In(c, s, k, x)
  <2>1. Writes(e, s, k, x) <=> s = s0 /\ TellsOf(e, k, x)
    BY DEF Writes
  <2>2. CASE k \in {"channel", "member"}
    <3>1. ~Writes(e, s, k, x)
      BY <2>1, <2>2 DEF ServerKinds
    <3> QED
      BY <1>1, <2>2, <3>1 DEF In
  <2>3. CASE k \in ServerKinds
    <3>1. In(d, s, k, x) = InServer(d.servers[s], s, k, x)
          /\ In(c, s, k, x) = InServer(c.servers[s], s, k, x)
      BY <2>3 DEF In, ServerKinds
    <3>2. CASE s = s0
      BY <1>1, <2>1, <2>3, <3>1, <3>2
    <3>3. CASE s # s0
      BY <1>1, <2>1, <3>1, <3>3
    <3> QED
      BY <3>2, <3>3
  <2> QED
    BY <2>2, <2>3 DEF Kinds, ServerKinds
<1> QED
  BY <1>1, <1>2 DEF Effect

(* An event that writes nothing changes nothing.                           *)
LEMMA NoEffect ==
  ASSUME NEW c \in Caches!State, NEW e, e.type # "Ready",
         \A k \in Kinds : \A x \in Of(k) : ~TellsOf(e, k, x)
  PROVE  Effect(c, c, e)
  BY DEF Effect, Writes

LEMMA ServerUpdateEffect ==
  ASSUME NEW c \in Caches!State, NEW e, IsEvent(e), e.type = "ServerUpdate"
  PROVE  /\ Caches!OnServerUpdate(c, e) \in Caches!State
         /\ c.servers[e.server] # Absent => Effect(c, Caches!OnServerUpdate(c, e), e)
<1> DEFINE s0 == e.server
           d == Caches!OnServerUpdate(c, e)
           w == c.servers[s0]
           v == [w EXCEPT !.name = e.name]
<1>1. s0 \in Server /\ e.name \in Name \cup {Absent}
  BY DEF IsEvent
<1>2. CASE w = Absent
  BY <1>2 DEF Caches!OnServerUpdate
<1>3. CASE w # Absent /\ e.name = Absent
  <2>1. d = c
    BY <1>3 DEF Caches!OnServerUpdate
  <2>2. \A k, x : ~TellsOf(e, k, x)
    BY <1>3 DEF TellsOf
  <2> QED
    BY <2>1, <2>2, NoEffect
<1>4. CASE w # Absent /\ e.name # Absent
  <2>1. w \in Caches!ServerValue /\ e.name \in Name
    BY <1>1, <1>4, StateFields
  <2>2. /\ w = [name |-> w.name, roles |-> w.roles] /\ v = [name |-> e.name, roles |-> w.roles]
        /\ w.roles \in UNION {[R -> Name] : R \in SUBSET CachedRole}
    BY <2>1 DEF Caches!ServerValue
  <2>3. v \in Caches!ServerValue /\ v.name = e.name /\ v.roles = w.roles
    BY <2>1, <2>2 DEF Caches!ServerValue
  <2>4. d = Caches!Put(c, s0, v)
    BY <1>4, StateFields DEF Caches!OnServerUpdate, Caches!Put
  <2>5. v # Absent
    BY <2>3, CacheConstants DEF Caches!ConstantsAssumption
  <2> HIDE DEF v, d
  <2>6. ASSUME NEW k \in ServerKinds, NEW x \in Of(k)
        PROVE  InServer(v, s0, k, x) = IF TellsOf(e, k, x) THEN Written(e, s0, k, x)
                                       ELSE InServer(w, s0, k, x)
    BY <1>4, <2>3, <2>5 DEF InServer, TellsOf, Written, ServerKinds
  <2>7. \A k, x : TellsOf(e, k, x) => k \in ServerKinds
    BY DEF TellsOf, ServerKinds
  <2> QED
    BY <1>1, <2>3, <2>4, <2>6, <2>7, ServerChangeEffect DEF d
<1> QED
  BY <1>2, <1>3, <1>4

(* The same for the roles of a server.                                     *)
LEMMA RolesEffect ==
  ASSUME NEW c \in Caches!State, NEW e, IsEvent(e),
         e.type \in {"RoleCreate", "RoleUpdate", "RoleDelete"},
         c.servers[e.server] # Absent,
         NEW R \in SUBSET CachedRole, NEW r \in [R -> Name],
         \A q \in CachedRole : q # e.role =>
           (q \in R <=> q \in DOMAIN c.servers[e.server].roles)
           /\ (q \in R => r[q] = c.servers[e.server].roles[q]),
         IF e.type = "RoleDelete" THEN e.role \notin R ELSE e.role \in R /\ r[e.role] = e.name
  PROVE  /\ [c EXCEPT !.servers[e.server].roles = r] \in Caches!State
         /\ Effect(c, [c EXCEPT !.servers[e.server].roles = r], e)
<1> DEFINE s0 == e.server
           d == [c EXCEPT !.servers[e.server].roles = r]
           w == c.servers[s0]
           v == [w EXCEPT !.roles = r]
<1>1. s0 \in Server
  BY DEF IsEvent
<1>2. w \in Caches!ServerValue
  BY <1>1, StateFields
<1>3. v = [name |-> w.name, roles |-> r] /\ w.name \in Name
  BY <1>2 DEF Caches!ServerValue
<1>4. v \in Caches!ServerValue /\ v.name = w.name /\ v.roles = r
  BY <1>3, MakeValue
<1>5. d = Caches!Put(c, s0, v)
  BY <1>1, StateFields DEF Caches!Put
<1>6. v # Absent
  BY <1>4, CacheConstants DEF Caches!ConstantsAssumption
<1>7. DOMAIN r = R
  OBVIOUS
<1> HIDE DEF v, d
<1>8. ASSUME NEW k \in ServerKinds, NEW x \in Of(k)
      PROVE  InServer(v, s0, k, x) = IF TellsOf(e, k, x) THEN Written(e, s0, k, x)
                                     ELSE InServer(w, s0, k, x)
  <2>1. CASE k \in {"here", "name"}
    BY <1>4, <1>6, <2>1 DEF InServer, TellsOf, ServerKinds
  <2>2. CASE k = "role" /\ x = e.role
    BY <1>4, <1>6, <1>7, <2>2 DEF InServer, TellsOf, Written, ServerKinds
  <2>3. CASE k = "role" /\ x # e.role
    <3>1. x \in CachedRole /\ ~TellsOf(e, k, x)
      BY <2>3 DEF Of, TellsOf
    <3> QED
      BY <1>4, <1>6, <1>7, <2>3, <3>1 DEF InServer
  <2> QED
    BY <2>1, <2>2, <2>3 DEF ServerKinds
<1>9. \A k, x : TellsOf(e, k, x) => k \in ServerKinds
  BY DEF TellsOf, ServerKinds
<1> QED
  BY <1>1, <1>4, <1>5, <1>8, <1>9, ServerChangeEffect DEF d

LEMMA RolesOf ==
  ASSUME NEW c \in Caches!State, NEW s \in Server, c.servers[s] # Absent
  PROVE  /\ DOMAIN c.servers[s].roles \subseteq CachedRole
         /\ \A q \in DOMAIN c.servers[s].roles : c.servers[s].roles[q] \in Name
<1>1. c.servers[s] \in Caches!ServerValue
  BY StateFields
<1> QED
  BY <1>1, ValueFields

LEMMA RoleCreateEffect ==
  ASSUME NEW c \in Caches!State, NEW e, IsEvent(e), e.type = "RoleCreate"
  PROVE  /\ Caches!OnRoleCreate(c, e) \in Caches!State
         /\ c.servers[e.server] # Absent => Effect(c, Caches!OnRoleCreate(c, e), e)
<1> DEFINE f == c.servers[e.server].roles
           R == DOMAIN f \cup {e.role}
           r == Caches!WithRole(f, e.role, e.name)
<1>1. e.server \in Server /\ e.role \in CachedRole /\ e.name \in Name
  BY DEF IsEvent
<1>2. CASE c.servers[e.server] = Absent
  BY <1>2 DEF Caches!OnRoleCreate
<1>3. CASE c.servers[e.server] # Absent
  <2>1. DOMAIN f \subseteq CachedRole /\ \A q \in DOMAIN f : f[q] \in Name
    BY <1>1, <1>3, RolesOf
  <2>2. /\ R \in SUBSET CachedRole /\ r \in [R -> Name] /\ r[e.role] = e.name
        /\ \A q \in DOMAIN f : q # e.role => r[q] = f[q]
    <3> HIDE DEF f
    <3>1. R \in SUBSET CachedRole
      BY <1>1, <2>1
    <3>2. r \in [R -> Name] /\ r[e.role] = e.name
      BY <1>1, <2>1 DEF Caches!WithRole
    <3>3. \A q \in DOMAIN f : q # e.role => r[q] = f[q]
      BY <1>1, <2>1 DEF Caches!WithRole
    <3> QED
      BY <3>1, <3>2, <3>3
  <2>3. Caches!OnRoleCreate(c, e) = [c EXCEPT !.servers[e.server].roles = r]
    BY <1>1, <1>3, StateFields DEF Caches!OnRoleCreate
  <2> HIDE DEF r
  <2>4. \A q \in CachedRole : q # e.role =>
          (q \in R <=> q \in DOMAIN f) /\ (q \in R => r[q] = f[q])
    BY <2>2
  <2> QED
    BY <1>3, <2>2, <2>3, <2>4, RolesEffect, SMTT(20)
<1> QED
  BY <1>2, <1>3

LEMMA RoleUpdateEffect ==
  ASSUME NEW c \in Caches!State, NEW e, IsEvent(e), e.type = "RoleUpdate"
  PROVE  /\ Caches!OnRoleUpdate(c, e) \in Caches!State
         /\ c.servers[e.server] # Absent /\ e.role \in DOMAIN c.servers[e.server].roles
              => Effect(c, Caches!OnRoleUpdate(c, e), e)
<1> DEFINE f == c.servers[e.server].roles
           R == DOMAIN f \cup {e.role}
           r == Caches!WithRole(f, e.role, e.name)
<1>1. e.server \in Server /\ e.role \in CachedRole /\ e.name \in Name
  BY DEF IsEvent
<1>2. CASE c.servers[e.server] = Absent
  BY <1>2 DEF Caches!OnRoleUpdate
<1>3. CASE c.servers[e.server] # Absent /\ e.role \in DOMAIN f
  <2>1. DOMAIN f \subseteq CachedRole /\ \A q \in DOMAIN f : f[q] \in Name
    BY <1>1, <1>3, RolesOf
  <2>2. /\ R \in SUBSET CachedRole /\ r \in [R -> Name] /\ r[e.role] = e.name
        /\ \A q \in DOMAIN f : q # e.role => r[q] = f[q]
    <3> HIDE DEF f
    <3>1. R \in SUBSET CachedRole
      BY <1>1, <2>1
    <3>2. r \in [R -> Name] /\ r[e.role] = e.name
      BY <1>1, <2>1 DEF Caches!WithRole
    <3>3. \A q \in DOMAIN f : q # e.role => r[q] = f[q]
      BY <1>1, <2>1 DEF Caches!WithRole
    <3> QED
      BY <3>1, <3>2, <3>3
  <2>3. Caches!OnRoleUpdate(c, e) = [c EXCEPT !.servers[e.server].roles = r]
    BY <1>1, <1>3, StateFields DEF Caches!OnRoleUpdate
  <2> HIDE DEF r
  <2>4. \A q \in CachedRole : q # e.role =>
          (q \in R <=> q \in DOMAIN f) /\ (q \in R => r[q] = f[q])
    BY <2>2
  <2> QED
    BY <1>3, <2>2, <2>3, <2>4, RolesEffect, SMTT(20)
<1>4. CASE c.servers[e.server] # Absent /\ e.role \notin DOMAIN f
  <2>1. Caches!OnRoleUpdate(c, e) = [c EXCEPT !.servers[e.server].roles = f]
    BY <1>1, <1>4, StateFields DEF Caches!OnRoleUpdate
  <2>2. c.servers[e.server] \in Caches!ServerValue
    BY <1>1, <1>4, StateFields
  <2>3. [c EXCEPT !.servers[e.server].roles = f] = c
    BY <1>1, <2>2, StateFields DEF Caches!ServerValue, Caches!State
  <2> QED
    BY <1>4, <2>1, <2>3
<1> QED
  BY <1>2, <1>3, <1>4

LEMMA RoleDeleteEffect ==
  ASSUME NEW c \in Caches!State, NEW e, IsEvent(e), e.type = "RoleDelete"
  PROVE  Caches!OnRoleDelete(c, e) \in Caches!State /\ Effect(c, Caches!OnRoleDelete(c, e), e)
<1> DEFINE f == c.servers[e.server].roles
           R == DOMAIN f \ {e.role}
           r == [q \in R |-> f[q]]
<1>1. e.server \in Server /\ e.role \in CachedRole
  BY DEF IsEvent
<1>2. CASE c.servers[e.server] = Absent
  <2>1. Caches!OnRoleDelete(c, e) = c
    BY <1>2 DEF Caches!OnRoleDelete
  <2>2. ASSUME NEW s \in Server, NEW k \in Kinds, NEW x \in Of(k), Writes(e, s, k, x)
        PROVE  In(c, s, k, x) = Written(e, s, k, x)
    <3>1. s = e.server /\ k = "role"
      BY <2>2 DEF Writes, TellsOf
    <3> QED
      BY <1>2, <3>1 DEF In, InServer, Written, ServerKinds
  <2> QED
    BY <2>1, <2>2 DEF Effect
<1>3. CASE c.servers[e.server] # Absent
  <2>1. DOMAIN f \subseteq CachedRole /\ \A q \in DOMAIN f : f[q] \in Name
    BY <1>1, <1>3, RolesOf
  <2>2. R \in SUBSET CachedRole /\ r \in [R -> Name] /\ \A q \in R : r[q] = f[q]
    BY <2>1
  <2>3. Caches!OnRoleDelete(c, e) = [c EXCEPT !.servers[e.server].roles = r]
    BY <1>1, <1>3, StateFields DEF Caches!OnRoleDelete
  <2> HIDE DEF r
  <2>4. \A q \in CachedRole : q # e.role =>
          (q \in R <=> q \in DOMAIN f) /\ (q \in R => r[q] = f[q])
    BY <2>2
  <2> QED
    BY <1>3, <2>2, <2>3, <2>4, RolesEffect, SMTT(20)
<1> QED
  BY <1>2, <1>3

LEMMA ChannelEffect ==
  ASSUME NEW c \in Caches!State, NEW e, IsEvent(e), e.type \in {"ChannelCreate", "ChannelDelete"}
  PROVE  Caches!OnChannel(c, e) \in Caches!State /\ Effect(c, Caches!OnChannel(c, e), e)
<1> DEFINE d == Caches!OnChannel(c, e)
           p == <<e.server, e.channel>>
<1>1. e.server \in Server /\ e.channel \in Channel
  BY DEF IsEvent
<1>2. /\ d \in Caches!State /\ d.servers = c.servers /\ d.members = c.members
      /\ d.channels = IF e.type = "ChannelCreate" THEN c.channels \cup {p} ELSE c.channels \ {p}
  BY <1>1, StateFields DEF Caches!OnChannel, Caches!State
<1> HIDE DEF d
<1>3. ASSUME NEW s \in Server, NEW k \in Kinds, NEW x \in Of(k)
      PROVE  In(d, s, k, x) = IF Writes(e, s, k, x) THEN Written(e, s, k, x) ELSE In(c, s, k, x)
  <2>1. CASE k = "channel"
    <3>1. Writes(e, s, k, x) <=> s = e.server /\ x = e.channel
      BY <2>1 DEF Writes, TellsOf, ServerKinds
    <3>2. <<s, x>> = p <=> s = e.server /\ x = e.channel
      OBVIOUS
    <3> QED
      BY <1>2, <2>1, <3>1, <3>2 DEF In, Written, ServerKinds
  <2>2. CASE k # "channel"
    BY <1>2, <2>2 DEF In, Writes, TellsOf
  <2> QED
    BY <2>1, <2>2
<1> QED
  BY <1>2, <1>3 DEF Effect, d

LEMMA MemberEffect ==
  ASSUME NEW c \in Caches!State, NEW e, IsEvent(e), e.type \in {"MemberJoin", "MemberLeave"}
  PROVE  Caches!OnMember(c, e) \in Caches!State /\ Effect(c, Caches!OnMember(c, e), e)
<1> DEFINE d == Caches!OnMember(c, e)
           p == <<e.server, e.user>>
<1>1. e.server \in Server /\ e.user \in User
  BY DEF IsEvent
<1>2. CASE e.user \in Ignored
  <2>1. d = c
    BY <1>2 DEF Caches!OnMember
  <2>2. \A k \in Kinds : \A x \in Of(k) : ~TellsOf(e, k, x)
    BY <1>2 DEF TellsOf, Of
  <2> QED
    BY <2>1, <2>2, NoEffect
<1>3. CASE e.user \notin Ignored
  <2>1. /\ d \in Caches!State /\ d.servers = c.servers /\ d.channels = c.channels
        /\ d.members = IF e.type = "MemberJoin" THEN c.members \cup {p} ELSE c.members \ {p}
    BY <1>1, <1>3, StateFields DEF Caches!OnMember, Caches!State
  <2> HIDE DEF d
  <2>2. ASSUME NEW s \in Server, NEW k \in Kinds, NEW x \in Of(k)
        PROVE  In(d, s, k, x) = IF Writes(e, s, k, x) THEN Written(e, s, k, x) ELSE In(c, s, k, x)
    <3>1. CASE k = "member"
      <4>1. Writes(e, s, k, x) <=> s = e.server /\ x = e.user
        BY <3>1 DEF Writes, TellsOf, ServerKinds
      <4>2. <<s, x>> = p <=> s = e.server /\ x = e.user
        OBVIOUS
      <4> QED
        BY <2>1, <3>1, <4>1, <4>2 DEF In, Written, ServerKinds
    <3>2. CASE k # "member"
      BY <2>1, <3>2 DEF In, Writes, TellsOf
    <3> QED
      BY <3>1, <3>2
  <2> QED
    BY <2>1, <2>2 DEF Effect, d
<1> QED
  BY <1>2, <1>3

LEMMA ReadyEffect ==
  ASSUME NEW c \in Caches!State, NEW e, IsEvent(e), e.type = "Ready"
  PROVE  Caches!OnReady(c, e) \in Caches!State /\ Effect(c, Caches!OnReady(c, e), e)
<1> DEFINE d == Caches!OnReady(c, e)
           st == e.state
<1>1. st \in Caches!State
  BY DEF IsEvent
<1>2. /\ d \in Caches!State
      /\ \A s \in Server :
           d.servers[s] = IF st.servers[s] # Absent THEN st.servers[s] ELSE c.servers[s]
      /\ d.channels = c.channels \cup st.channels /\ d.members = c.members \cup st.members
  BY <1>1, StateFields DEF Caches!OnReady, Caches!State
<1> HIDE DEF d
<1>3. ASSUME NEW s \in Server, NEW k \in Kinds, NEW x \in Of(k)
      PROVE  In(d, s, k, x) = IF Writes(e, s, k, x) THEN Written(e, s, k, x) ELSE In(c, s, k, x)
  <2>1. CASE k = "channel"
    BY <1>2, <2>1 DEF In, Writes, ReadyWrites, Written
  <2>2. CASE k = "member"
    BY <1>2, <2>2 DEF In, Writes, ReadyWrites, Written
  <2>3. CASE k # "channel" /\ k # "member"
    BY <1>2, <2>3 DEF In, Writes, ReadyWrites, Written
  <2> QED
    BY <2>1, <2>2, <2>3
<1> QED
  BY <1>2, <1>3 DEF Effect, d

LEMMA ListenerEffect ==
  ASSUME NEW c \in Caches!State, NEW e, IsEvent(e), e.type \notin {"Ready", "ServerDelete"}
  PROVE  /\ Caches!Listener(c, e) \in Caches!State
         /\ (Asks(e) => In(c, e.server, NeedKind(e), NeedOf(e)) # {})
              => Effect(c, Caches!Listener(c, e), e)
<1>1. CASE e.type = "ServerCreate"
  BY <1>1, ServerCreateEffect DEF Caches!Listener
<1>2. CASE e.type = "ServerUpdate"
  <2>1. In(c, e.server, NeedKind(e), NeedOf(e)) # {} => c.servers[e.server] # Absent
    BY <1>2 DEF In, InServer, NeedKind
  <2> QED
    BY <1>2, <2>1, ServerUpdateEffect DEF Caches!Listener, Asks
<1>3. CASE e.type = "RoleCreate"
  <2>1. In(c, e.server, NeedKind(e), NeedOf(e)) # {} => c.servers[e.server] # Absent
    BY <1>3 DEF In, InServer, NeedKind
  <2> QED
    BY <1>3, <2>1, RoleCreateEffect DEF Caches!Listener, Asks
<1>4. CASE e.type = "RoleUpdate"
  <2>1. In(c, e.server, NeedKind(e), NeedOf(e)) # {}
          => c.servers[e.server] # Absent /\ e.role \in DOMAIN c.servers[e.server].roles
    BY <1>4 DEF In, InServer, NeedKind, NeedOf
  <2> QED
    BY <1>4, <2>1, RoleUpdateEffect DEF Caches!Listener, Asks
<1>5. CASE e.type = "RoleDelete"
  BY <1>5, RoleDeleteEffect DEF Caches!Listener
<1>6. CASE e.type \in {"ChannelCreate", "ChannelDelete"}
  BY <1>6, ChannelEffect DEF Caches!Listener
<1>7. CASE e.type \in {"MemberJoin", "MemberLeave"}
  BY <1>7, MemberEffect DEF Caches!Listener
<1> QED
  BY <1>1, <1>2, <1>3, <1>4, <1>5, <1>6, <1>7 DEF IsEvent

(* Without what it asks for, the event is dropped.                         *)
LEMMA ListenerDrops ==
  ASSUME NEW c \in Caches!State, NEW e, IsEvent(e), Asks(e),
         In(c, e.server, NeedKind(e), NeedOf(e)) = {}
  PROVE  Caches!Listener(c, e) = c
<1>1. CASE e.type \in {"ServerUpdate", "RoleCreate"}
  <2>1. c.servers[e.server] = Absent
    BY <1>1 DEF In, InServer, NeedKind, NeedOf
  <2> QED
    BY <1>1, <2>1 DEF Caches!Listener, Caches!OnServerUpdate, Caches!OnRoleCreate
<1>2. CASE e.type = "RoleUpdate"
  <2>1. e.server \in Server
    BY <1>2 DEF IsEvent
  <2>2. CASE c.servers[e.server] = Absent
    BY <1>2, <2>2 DEF Caches!Listener, Caches!OnRoleUpdate
  <2>3. CASE c.servers[e.server] # Absent
    <3>1. e.role \notin DOMAIN c.servers[e.server].roles
      BY <1>2, <2>3 DEF In, InServer, NeedKind, NeedOf
    <3>2. Caches!OnRoleUpdate(c, e)
            = [c EXCEPT !.servers[e.server].roles = c.servers[e.server].roles]
      BY <2>1, <2>3, <3>1, StateFields DEF Caches!OnRoleUpdate
    <3>3. c.servers[e.server] \in Caches!ServerValue
      BY <2>1, <2>3, StateFields
    <3> QED
      BY <1>2, <2>1, <3>2, <3>3, StateFields
      DEF Caches!Listener, Caches!ServerValue, Caches!State
  <2> QED
    BY <2>2, <2>3
<1> QED
  BY <1>1, <1>2 DEF Asks
-----------------------------------------------------------------------------
(* What an aspect is after all events of P but the e-th, or with one more. *)
LEMMA AfterIsOne ==
  ASSUME NEW P, NEW c, NEW s, NEW k, NEW x, NEW n, NEW v, NEW w,
         \A f \in P : f.n \in Nat, \A f, g \in P : f.n = g.n => f = g,
         After(P, c, s, k, x, n, v), After(P, c, s, k, x, n, w)
  PROVE  v = w
<1>1. CASE \A g \in P : g.n < n => ~Writes(g, s, k, x)
  BY <1>1 DEF After, LastWrite
<1>2. CASE \E g \in P : g.n < n /\ Writes(g, s, k, x)
  <2>1. PICK f \in P : LastWrite(P, f, s, k, x, n) /\ Written(f, s, k, x) = v
    BY <1>2 DEF After
  <2>2. PICK g \in P : LastWrite(P, g, s, k, x, n) /\ Written(g, s, k, x) = w
    BY <1>2 DEF After
  <2>3. f.n <= g.n /\ g.n <= f.n
    BY <2>1, <2>2 DEF LastWrite
  <2>4. f = g
    BY <2>3
  <2> QED
    BY <2>1, <2>2, <2>4
<1> QED
  BY <1>1, <1>2

LEMMA AfterOlder ==
  ASSUME NEW P, NEW c, NEW e, NEW s, NEW k, NEW x, NEW n \in Nat, NEW v,
         \A f \in P : f.n \in Nat, e.n \in Nat, n <= e.n
  PROVE  After(P \cup {e}, c, s, k, x, n, v) <=> After(P, c, s, k, x, n, v)
<1> DEFINE Q == P \cup {e}
<1>1. \A g \in Q : g.n < n <=> g \in P /\ g.n < n
  OBVIOUS
<1>2. \A f : LastWrite(Q, f, s, k, x, n) <=> LastWrite(P, f, s, k, x, n)
  BY <1>1 DEF LastWrite
<1> QED
  BY <1>1, <1>2 DEF After, LastWrite

LEMMA AfterNewer ==
  ASSUME NEW P, NEW c, NEW e, NEW s, NEW k, NEW x, NEW n \in Nat, NEW v,
         \A f \in P : f.n \in Nat /\ f.n < e.n, e.n \in Nat, e.n < n
  PROVE  /\ Writes(e, s, k, x) => After(P \cup {e}, c, s, k, x, n, Written(e, s, k, x))
         /\ ~Writes(e, s, k, x) =>
              (After(P \cup {e}, c, s, k, x, n, v) <=> After(P, c, s, k, x, e.n, v))
<1> DEFINE Q == P \cup {e}
<1>1. ASSUME Writes(e, s, k, x)
      PROVE  After(P \cup {e}, c, s, k, x, n, Written(e, s, k, x))
  <2>1. LastWrite(Q, e, s, k, x, n)
    BY <1>1 DEF LastWrite
  <2> QED
    BY <2>1 DEF After
<1>2. ASSUME ~Writes(e, s, k, x)
      PROVE  After(P \cup {e}, c, s, k, x, n, v) <=> After(P, c, s, k, x, e.n, v)
  <2>1. \A g : g \in Q /\ g.n < n /\ Writes(g, s, k, x) <=> g \in P /\ g.n < e.n /\ Writes(g, s, k, x)
    BY <1>2
  <2>2. \A f : LastWrite(Q, f, s, k, x, n) <=> LastWrite(P, f, s, k, x, e.n)
    BY <2>1 DEF LastWrite
  <2> QED
    BY <2>1, <2>2 DEF After, LastWrite
<1> QED
  BY <1>1, <1>2

(* e leaves P: it was applied to c, which gave d, or is overwritten.       *)
LEMMA AfterApplied ==
  ASSUME NEW P, NEW c, NEW d, NEW e \in P, NEW s, NEW k, NEW x, NEW n \in Nat, NEW v,
         \A f \in P : f.n \in Nat, \A f, g \in P : f.n = g.n => f = g,
         \/ \E h \in P : e.n < h.n /\ h.n < n /\ Writes(h, s, k, x)
         \/ /\ In(d, s, k, x) = IF Writes(e, s, k, x) THEN Written(e, s, k, x) ELSE In(c, s, k, x)
            /\ Writes(e, s, k, x) => e.n < n
            /\ Writes(e, s, k, x) => \A g \in P : Writes(g, s, k, x) => e.n <= g.n
  PROVE  After(P \ {e}, d, s, k, x, n, v) <=> After(P, c, s, k, x, n, v)
<1> DEFINE Q == P \ {e}
<1>1. CASE \E h \in P : e.n < h.n /\ h.n < n /\ Writes(h, s, k, x)
  <2>1. PICK h \in P : e.n < h.n /\ h.n < n /\ Writes(h, s, k, x)
    BY <1>1
  <2>2. h \in Q
    BY <2>1
  <2>3. \A f : LastWrite(P, f, s, k, x, n) <=> LastWrite(Q, f, s, k, x, n)
    <3>1. ASSUME NEW f, LastWrite(P, f, s, k, x, n)
          PROVE  LastWrite(Q, f, s, k, x, n)
      BY <2>1, <3>1 DEF LastWrite
    <3>2. ASSUME NEW f, LastWrite(Q, f, s, k, x, n)
          PROVE  LastWrite(P, f, s, k, x, n)
      <4>1. h.n <= f.n /\ e.n <= f.n
        BY <2>1, <2>2, <3>2 DEF LastWrite
      <4> QED
        BY <3>2, <4>1 DEF LastWrite
    <3> QED
      BY <3>1, <3>2
  <2> QED
    BY <2>1, <2>2, <2>3 DEF After, LastWrite
<1>2. CASE ~Writes(e, s, k, x) /\ In(d, s, k, x) = In(c, s, k, x)
  <2>1. \A g : g \in P /\ g.n < n /\ Writes(g, s, k, x) <=> g \in Q /\ g.n < n /\ Writes(g, s, k, x)
    BY <1>2
  <2>2. \A f : LastWrite(P, f, s, k, x, n) <=> LastWrite(Q, f, s, k, x, n)
    BY <2>1 DEF LastWrite
  <2> QED
    BY <1>2, <2>1, <2>2 DEF After, LastWrite
<1>3. CASE /\ Writes(e, s, k, x) /\ In(d, s, k, x) = Written(e, s, k, x) /\ e.n < n
           /\ \A g \in P : Writes(g, s, k, x) => e.n <= g.n
           /\ \A h \in Q : h.n < n => ~Writes(h, s, k, x)
  <2>1. \A f : LastWrite(P, f, s, k, x, n) <=> f = e
    BY <1>3 DEF LastWrite
  <2>2. After(P, c, s, k, x, n, v) <=> Written(e, s, k, x) = v
    BY <1>3, <2>1 DEF After
  <2>3. After(Q, d, s, k, x, n, v) <=> In(d, s, k, x) = v
    BY <1>3 DEF After, LastWrite
  <2> QED
    BY <1>3, <2>2, <2>3
<1>4. ASSUME Writes(e, s, k, x), NEW h \in Q, h.n < n, Writes(h, s, k, x),
             \A g \in P : Writes(g, s, k, x) => e.n <= g.n
      PROVE  \E g \in P : e.n < g.n /\ g.n < n /\ Writes(g, s, k, x)
  <2>1. e.n # h.n /\ e.n <= h.n
    BY <1>4
  <2> QED
    BY <1>4, <2>1
<1> QED
  BY <1>1, <1>2, <1>3, <1>4
-----------------------------------------------------------------------------
(* The stream: what comes last and what goes first.                        *)
LEMMA StreamAppend ==
  ASSUME NEW q, NEW S, q \in Seq(S), NEW e
  PROVE  /\ {Append(q, e)[i] : i \in DOMAIN Append(q, e)} = {q[i] : i \in DOMAIN q} \cup {e}
         /\ \A i \in DOMAIN q : i \in DOMAIN Append(q, e) /\ Append(q, e)[i] = q[i]
         /\ \A i \in DOMAIN Append(q, e) :
              (i \in DOMAIN q /\ i <= Len(q)) \/ (i = Len(q) + 1 /\ Append(q, e)[i] = e)
         /\ Len(q) \in Nat /\ DOMAIN q = 1..Len(q)
<1> DEFINE a == Append(q, e)
<1>1. q \in Seq(S \cup {e}) /\ Len(q) \in Nat /\ DOMAIN q = 1..Len(q)
  OBVIOUS
<1>2. /\ a \in Seq(S \cup {e}) /\ Len(a) = Len(q) + 1 /\ DOMAIN a = 1..Len(q) + 1
      /\ \A i \in 1..Len(q) : a[i] = q[i]
      /\ a[Len(q) + 1] = e
  BY <1>1, AppendProperties
<1> HIDE DEF a
<1> QED
  <2>1. \A i \in DOMAIN a : (i \in DOMAIN q /\ i <= Len(q)) \/ (i = Len(q) + 1 /\ a[i] = e)
    BY <1>1, <1>2
  <2>2. \A i \in DOMAIN q : i \in DOMAIN a /\ a[i] = q[i]
    BY <1>1, <1>2
  <2>3. {a[i] : i \in DOMAIN a} = {q[i] : i \in DOMAIN q} \cup {e}
    <3>1. Len(q) + 1 \in DOMAIN a /\ a[Len(q) + 1] = e
      BY <1>1, <1>2
    <3> QED
      BY <2>1, <2>2, <3>1
  <2> QED
    BY <1>1, <2>1, <2>2, <2>3 DEF a

LEMMA StreamItems ==
  ASSUME NEW q, NEW S, NEW T, q \in Seq(S), \A i \in DOMAIN q : q[i] \in T
  PROVE  q \in Seq(T)
<1>1. Len(q) \in Nat /\ q \in [1..Len(q) -> T]
  OBVIOUS
<1> QED
  BY <1>1, SeqDef

LEMMA StreamTail ==
  ASSUME NEW q, NEW S, q \in Seq(S), q # <<>>
  PROVE  /\ {q[i] : i \in DOMAIN q} = {Tail(q)[i] : i \in DOMAIN Tail(q)} \cup {Head(q)}
         /\ Tail(q) \in Seq(S) /\ Head(q) = q[1] /\ 1 \in DOMAIN q
         /\ \A i \in DOMAIN Tail(q) : i + 1 \in DOMAIN q /\ i \in Nat /\ 1 < i + 1 /\ Tail(q)[i] = q[i + 1]
<1> DEFINE t == Tail(q)
<1>1. /\ Head(q) = q[1] /\ Len(q) \in Nat /\ Len(q) >= 1 /\ DOMAIN q = 1..Len(q)
      /\ t \in Seq(S) /\ Len(t) = Len(q) - 1 /\ \A i \in 1..Len(t) : t[i] = q[i + 1]
  BY HeadTailProperties, EmptySeq
<1>2. DOMAIN t = 1..Len(t)
  BY <1>1
<1> HIDE DEF t
<1>3. \A i \in DOMAIN t : i + 1 \in DOMAIN q /\ i \in Nat /\ 1 < i + 1 /\ t[i] = q[i + 1]
  BY <1>1, <1>2
<1>4. \A i \in DOMAIN q : i = 1 \/ (i - 1 \in DOMAIN t /\ t[i - 1] = q[i])
  BY <1>1, <1>2
<1>5. 1 \in DOMAIN q /\ q[1] = Head(q)
  BY <1>1
<1>6. {q[i] : i \in DOMAIN q} = {t[i] : i \in DOMAIN t} \cup {Head(q)}
  <2>1. \A i \in DOMAIN q : q[i] \in {t[j] : j \in DOMAIN t} \cup {Head(q)}
    BY <1>4, <1>5
  <2>2. \A i \in DOMAIN t : t[i] \in {q[j] : j \in DOMAIN q}
    BY <1>3
  <2> QED
    BY <1>5, <2>1, <2>2
<1>7. t \in Seq(S) /\ Head(q) = q[1]
  BY <1>1
<1> HIDE <1>1, <1>2
<1> QED
  BY <1>3, <1>5, <1>6, <1>7 DEF t
-----------------------------------------------------------------------------
(* What an event needs is an aspect of its server.                         *)
LEMMA NeedIsAspect ==
  ASSUME NEW e, IsEvent(e), Asks(e)
  PROVE  /\ e.server \in Server /\ NeedKind(e) \in Kinds /\ NeedOf(e) \in Of(NeedKind(e))
         /\ NeedKind(e) \in ServerKinds /\ e.type # "Ready"
  BY DEF IsEvent, Asks, NeedKind, NeedOf, Kinds, ServerKinds, Of

(* Events that write the same aspect conflict, and one that writes what    *)
(* another needs does.                                                     *)
LEMMA WritersConflict ==
  ASSUME NEW e, NEW g, NEW s, NEW k, NEW x, e.type # "Ready", g.type # "Ready",
         Writes(e, s, k, x), Writes(g, s, k, x)
  PROVE  Caches!Conflict(e, g) /\ e.server = s /\ g.server = s
<1>1. e.server = s /\ g.server = s /\ TellsOf(e, k, x) /\ TellsOf(g, k, x)
  BY DEF Writes
<1> QED
  BY <1>1 DEF TellsOf, Caches!Conflict, Caches!Whole, ServerKinds

LEMMA NeedConflicts ==
  ASSUME NEW e, NEW f, e.type # "Ready", Asks(f),
         Writes(e, f.server, NeedKind(f), NeedOf(f))
  PROVE  Caches!Conflict(e, f)
<1>1. e.server = f.server /\ TellsOf(e, NeedKind(f), NeedOf(f))
  BY DEF Writes
<1> QED
  BY <1>1 DEF TellsOf, Caches!Conflict, Caches!Whole, ServerKinds, NeedKind, Asks

(* The places in the order of events where an aspect is asked for.         *)
Asked(s, k, x, n) ==
  \/ n = told + 1
  \/ \E f \in Pending : /\ Asks(f) /\ f.n = n /\ f.server = s
                        /\ k = NeedKind(f) /\ x = NeedOf(f)

(* The events that are on their way, without the one that is applied.      *)
LEMMA EventsInOrder ==
  ASSUME CacheInv
  PROVE  /\ told \in Nat
         /\ \A f \in Pending : f.n \in Nat /\ f.n < told + 1 /\ IsEvent(f)
         /\ \A f, g \in Pending : f.n = g.n => f = g
         /\ \A f \in threads \cup erasing, g \in Waiting : f.n < g.n
<1>1. told \in Nat
  BY CacheConstants DEF CacheInv, Caches!TypeOK, Caches!ConstantsAssumption
<1>2. \A f \in Pending : f.n \in Nat /\ f.n < told + 1
  BY <1>1 DEF CacheInv, InOrder
<1> QED
  BY <1>1, <1>2 DEF CacheInv, InOrder, EventsOK

LEMMA LeaveKeeps ==
  ASSUME CacheInv, NEW e \in Pending, Pending' = Pending \ {e},
         UNCHANGED <<platform, connected, told, missed>>,
         \A s \in Server, k \in Kinds : \A x \in Of(k), n \in Nat :
           Trusted(s, k, x, n)' /\ Asked(s, k, x, n)' =>
             /\ Trusted(s, k, x, n)
             /\ \/ \E h \in Pending : e.n < h.n /\ h.n < n /\ Writes(h, s, k, x)
                \/ /\ In(cached', s, k, x)
                        = IF Writes(e, s, k, x) THEN Written(e, s, k, x) ELSE In(cached, s, k, x)
                   /\ Writes(e, s, k, x) => e.n < n
                   /\ Writes(e, s, k, x) => \A g \in Pending : Writes(g, s, k, x) => e.n <= g.n
  PROVE  Current' /\ Effective'
<1>1. ASSUME NEW s \in Server, NEW k \in Kinds, NEW x \in Of(k), NEW n \in Nat, NEW v,
             Trusted(s, k, x, n)', Asked(s, k, x, n)'
      PROVE  /\ Trusted(s, k, x, n)
             /\ Before(s, k, x, n, v)' <=> Before(s, k, x, n, v)
  <2>1. /\ \A f \in Pending : f.n \in Nat
        /\ \A f, g \in Pending : f.n = g.n => f = g
    BY EventsInOrder
  <2>2. After(Pending \ {e}, cached', s, k, x, n, v) <=> After(Pending, cached, s, k, x, n, v)
    BY <1>1, <2>1, AfterApplied
  <2>3. Before(s, k, x, n, v)' <=> After(Pending \ {e}, cached', s, k, x, n, v)
    BY DEF Before
  <2> QED
    BY <1>1, <2>2, <2>3 DEF Before
<1>2. Current'
  <2> SUFFICES ASSUME NEW s \in Server, NEW k \in Kinds, NEW x \in Of(k),
                      Told(s, k, x)', Trusted(s, k, x, told + 1)'
               PROVE  Before(s, k, x, told + 1, In(platform, s, k, x))'
    BY DEF Current
  <2>1. told + 1 \in Nat /\ Asked(s, k, x, told + 1)' /\ Told(s, k, x)
    BY EventsInOrder DEF Asked, Told
  <2>2. Trusted(s, k, x, told + 1)
    BY <1>1, <2>1
  <2>3. Before(s, k, x, told + 1, In(platform, s, k, x))
    BY <2>1, <2>2 DEF CacheInv, Current
  <2> QED
    BY <1>1, <2>1, <2>3
<1>3. Effective'
  <2> SUFFICES ASSUME NEW f \in Pending', Asks(f),
                      Trusted(f.server, NeedKind(f), NeedOf(f), f.n)'
               PROVE  ~Before(f.server, NeedKind(f), NeedOf(f), f.n, {})'
    BY DEF Effective
  <2>1. f \in Pending /\ f.n \in Nat /\ IsEvent(f)
    BY EventsInOrder
  <2>2. Asked(f.server, NeedKind(f), NeedOf(f), f.n)'
    BY DEF Asked
  <2>3. f.server \in Server /\ NeedKind(f) \in Kinds /\ NeedOf(f) \in Of(NeedKind(f))
    BY <2>1, NeedIsAspect
  <2> QED
    BY <1>1, <2>1, <2>2, <2>3 DEF CacheInv, Effective
<1> QED
  BY <1>2, <1>3

(* An event on its thread, or a removal, is applied.                       *)
LEMMA ApplyKeeps ==
  ASSUME CacheInv, NEW e \in threads \cup erasing,
         cached' \in Caches!State,
         (Asks(e) => In(cached, e.server, NeedKind(e), NeedOf(e)) # {})
            => Effect(cached, cached', e),
         Asks(e) /\ In(cached, e.server, NeedKind(e), NeedOf(e)) = {} => cached' = cached,
         threads' \subseteq threads, erasing' \subseteq erasing,
         threads' \cup erasing' = (threads \cup erasing) \ {e},
         late' = late \cup Caches!Overtaken(e), disordered' = disordered \cup Caches!Overtaken(e),
         UNCHANGED <<platform, connected, stream, told, missed>>
  PROVE  CacheInv'
<1>1. Waiting' = Waiting /\ Pending' = Pending \ {e} /\ e \in Pending /\ e \notin Waiting
  <2>1. e \notin Waiting
    BY EventsInOrder DEF Pending
  <2> QED
    BY <2>1 DEF Waiting, Pending
<1>2. e.type # "Ready" /\ e.n \in Nat /\ IsEvent(e)
  BY <1>1, EventsInOrder DEF CacheInv, EventsOK
<1>3. Caches!TypeOK'
  <2>1. Caches!Overtaken(e) \subseteq Server
    BY EventsInOrder DEF Caches!Overtaken, Pending, IsEvent, CacheInv, EventsOK
  <2> QED
    BY <2>1 DEF CacheInv, Caches!TypeOK
<1>4. EventsOK' /\ InOrder'
  BY <1>1 DEF CacheInv, EventsOK, InOrder
<1>5. ASSUME NEW s \in Server, NEW k \in Kinds, NEW x \in Of(k), NEW n \in Nat,
             Trusted(s, k, x, n)', Asked(s, k, x, n)'
      PROVE  /\ Trusted(s, k, x, n)
             /\ \/ \E h \in Pending : e.n < h.n /\ h.n < n /\ Writes(h, s, k, x)
                \/ /\ In(cached', s, k, x)
                        = IF Writes(e, s, k, x) THEN Written(e, s, k, x) ELSE In(cached, s, k, x)
                   /\ Writes(e, s, k, x) => e.n < n
                   /\ Writes(e, s, k, x) => \A g \in Pending : Writes(g, s, k, x) => e.n <= g.n
  <2>1. CASE \E h \in Waiting : h.n < n /\ Writes(h, s, k, x)
    <3>1. PICK h \in Waiting : h.n < n /\ Writes(h, s, k, x)
      BY <2>1
    <3>2. e.n < h.n /\ h \in Pending
      BY EventsInOrder DEF Pending
    <3> QED
      BY <3>1, <3>2 DEF Trusted
  <2>2. CASE ~\E h \in Waiting : h.n < n /\ Writes(h, s, k, x)
    <3>1. s \notin Doubt(k)'
      BY <1>1, <1>5, <2>2 DEF Trusted
    <3>2. s \notin Doubt(k) /\ s \notin Caches!Overtaken(e)
      BY <3>1 DEF Doubt
    <3>3. Trusted(s, k, x, n)
      BY <3>2 DEF Trusted
    <3>4. ASSUME NEW g \in Pending, Caches!Conflict(e, g), g.server = s
          PROVE  e.n <= g.n
      <4>1. g.n \in Nat
        BY EventsInOrder
      <4>2. CASE g \in Waiting
        BY <1>2, <4>1, <4>2, EventsInOrder
      <4>3. CASE g \in threads \cup erasing
        <5>1. ~(g.n < e.n)
          BY <3>2, <3>4, <4>3 DEF Caches!Overtaken
        <5> QED
          BY <1>2, <4>1, <5>1
      <4> QED
        BY <4>2, <4>3 DEF Pending
    <3>5. ASSUME Writes(e, s, k, x)
          PROVE  e.n < n
      <4>1. CASE n = told + 1
        BY <1>1, <4>1, EventsInOrder
      <4>2. CASE n # told + 1
        <5>1. PICK f \in Pending' : /\ Asks(f) /\ f.n = n /\ f.server = s
                                    /\ k = NeedKind(f) /\ x = NeedOf(f)
          BY <1>5, <4>2 DEF Asked
        <5>2. Caches!Conflict(e, f)
          BY <1>2, <3>5, <5>1, NeedConflicts
        <5>3. e.n <= f.n
          BY <1>1, <3>4, <5>1, <5>2
        <5>4. f.n # e.n /\ f.n \in Nat
          BY <1>1, <5>1, EventsInOrder
        <5> QED
          BY <1>2, <5>1, <5>3, <5>4
      <4> QED
        BY <4>1, <4>2
    <3>6. ASSUME Writes(e, s, k, x), NEW g \in Pending, Writes(g, s, k, x)
          PROVE  e.n <= g.n
      <4>1. CASE g \in Waiting
        BY <1>2, <4>1, EventsInOrder DEF Pending
      <4>2. CASE g \in threads \cup erasing
        <5>1. g.type # "Ready"
          BY <4>2 DEF CacheInv, EventsOK
        <5> QED
          BY <1>2, <3>4, <3>6, <5>1, WritersConflict
      <4> QED
        BY <4>1, <4>2 DEF Pending
    <3>7. In(cached', s, k, x)
            = IF Writes(e, s, k, x) THEN Written(e, s, k, x) ELSE In(cached, s, k, x)
      <4>1. CASE Effect(cached, cached', e)
        BY <4>1 DEF Effect
      <4>2. CASE ~Effect(cached, cached', e)
        <5>1. Asks(e) /\ In(cached, e.server, NeedKind(e), NeedOf(e)) = {} /\ cached' = cached
          BY <4>2
        <5>2. ASSUME Writes(e, s, k, x)
              PROVE  FALSE
          <6>1. e.server = s /\ k \in ServerKinds
            BY <1>2, <5>1, <5>2 DEF Writes, TellsOf, Asks, ServerKinds
          <6>2. NeedKind(e) \in ServerKinds /\ NeedKind(e) \in Kinds /\ NeedOf(e) \in Of(NeedKind(e))
            BY <1>2, <5>1, NeedIsAspect
          <6>3. Trusted(e.server, NeedKind(e), NeedOf(e), e.n)
            BY <3>2, <6>1, <6>2 DEF Trusted, Doubt
          <6>4. ~Before(e.server, NeedKind(e), NeedOf(e), e.n, {})
            BY <1>1, <5>1, <6>3 DEF CacheInv, Effective
          <6>5. PICK g \in Pending : g.n < e.n /\ Writes(g, e.server, NeedKind(e), NeedOf(e))
            BY <5>1, <6>4 DEF Before, After
          <6>6. g \in threads \cup erasing
            BY <1>2, <6>5, EventsInOrder DEF Pending
          <6>7. g.type # "Ready"
            BY <6>6 DEF CacheInv, EventsOK
          <6>8. Caches!Conflict(g, e) /\ g.server = e.server
            BY <5>1, <6>5, <6>7, NeedConflicts DEF Writes
          <6>9. Caches!Conflict(e, g)
            BY <6>8 DEF Caches!Conflict
          <6>10. e.n <= g.n
            BY <3>4, <6>1, <6>8, <6>9
          <6> QED
            BY <1>2, <6>5, <6>10, EventsInOrder
        <5> QED
          BY <5>1, <5>2
      <4> QED
        BY <4>1, <4>2
    <3> QED
      BY <3>3, <3>5, <3>6, <3>7
  <2> QED
    BY <2>1, <2>2
<1>6. Current' /\ Effective'
  BY <1>1, <1>5, LeaveKeeps
<1> QED
  BY <1>3, <1>4, <1>6 DEF CacheInv

(* The worker applies a Ready: older events of a server that are still on  *)
(* their way, or an older one that came late, put it in doubt.             *)
LEMMA TakesHead ==
  ASSUME CacheInv, stream # <<>>, stream' = Tail(stream)
  PROVE  /\ Head(stream) \in Waiting /\ Waiting = Waiting' \cup {Head(stream)}
         /\ \A f \in Waiting' : Head(stream).n < f.n
         /\ stream' \in Seq(Waiting')
         /\ \A i, j \in DOMAIN stream' : i < j => stream'[i].n < stream'[j].n
<1>1. stream \in Seq(Waiting)
  BY DEF CacheInv, EventsOK
<1>2. /\ {stream[i] : i \in DOMAIN stream}
           = {Tail(stream)[i] : i \in DOMAIN Tail(stream)} \cup {Head(stream)}
      /\ Tail(stream) \in Seq(Waiting) /\ Head(stream) = stream[1] /\ 1 \in DOMAIN stream
      /\ \A i \in DOMAIN Tail(stream) :
           i + 1 \in DOMAIN stream /\ i \in Nat /\ 1 < i + 1 /\ Tail(stream)[i] = stream[i + 1]
  BY <1>1, StreamTail
<1>3. \A i, j \in DOMAIN stream : i < j => stream[i].n < stream[j].n
  BY DEF CacheInv, InOrder
<1>4. Head(stream) \in Waiting /\ Waiting = Waiting' \cup {Head(stream)}
  BY <1>2 DEF Waiting
<1>5. \A f \in Waiting' : Head(stream).n < f.n
  BY <1>2, <1>3 DEF Waiting
<1>6. \A i, j \in DOMAIN stream' : i < j => stream'[i].n < stream'[j].n
  <2> SUFFICES ASSUME NEW i \in DOMAIN stream', NEW j \in DOMAIN stream', i < j
               PROVE  stream'[i].n < stream'[j].n
    OBVIOUS
  <2>1. i + 1 \in DOMAIN stream /\ j + 1 \in DOMAIN stream /\ i + 1 < j + 1
    BY <1>2
  <2> QED
    BY <1>2, <1>3, <2>1
<1>7. stream' \in Seq(Waiting')
  <2>1. \A i \in DOMAIN stream' : stream'[i] \in Waiting'
    BY DEF Waiting
  <2>2. Len(stream') \in Nat /\ DOMAIN stream' = 1..Len(stream') /\ stream' \in Seq(Waiting)
    BY <1>2
  <2> QED
    BY <2>1, <2>2, StreamItems
<1> QED
  BY <1>4, <1>5, <1>6, <1>7

LEMMA HandleKeeps ==
  ASSUME CacheInv, stream # <<>>, Caches!Handle(Head(stream)), stream' = Tail(stream),
         UNCHANGED <<platform, connected, told, missed>>
  PROVE  CacheInv'
<1> DEFINE e == Head(stream)
           slow == {f.server : f \in threads \cup erasing}
<1>1. /\ e \in Waiting /\ Waiting = Waiting' \cup {e} /\ \A f \in Waiting' : e.n < f.n
      /\ stream' \in Seq(Waiting')
      /\ \A i, j \in DOMAIN stream' : i < j => stream'[i].n < stream'[j].n
  BY TakesHead
<1>2. /\ e.type = "Ready" /\ cached' = Caches!OnReady(cached, e)
      /\ late' = {s \in late \cup slow : s \in slow \/ e.state.servers[s] = Absent}
      /\ disordered' = disordered \cup slow
      /\ threads' = threads /\ erasing' = erasing
  BY DEF Caches!Handle
<1> HIDE DEF e
<1>3. e \in Pending /\ e.n \in Nat /\ IsEvent(e) /\ \A f \in threads \cup erasing : f.n < e.n
  BY <1>1, EventsInOrder DEF Pending
<1>4. Pending' = Pending \ {e} /\ \A f \in Waiting' : f.n \in Nat
  <2>1. e \notin threads \cup erasing
    BY <1>3
  <2>2. e \notin Waiting'
    BY <1>1, <1>3
  <2>3. \A f \in Waiting' : f.n \in Nat
    BY <1>1, EventsInOrder DEF Pending
  <2> QED
    BY <1>1, <1>2, <2>1, <2>2, <2>3 DEF Pending
<1>5. cached' \in Caches!State /\ Effect(cached, cached', e)
  BY <1>2, <1>3, ReadyEffect DEF CacheInv, Caches!TypeOK
<1>6. Caches!TypeOK'
  <2>1. slow \subseteq Server
    BY EventsInOrder DEF Pending, IsEvent, CacheInv, EventsOK
  <2>2. late \subseteq disordered /\ disordered \subseteq Server
    BY DEF CacheInv, Caches!TypeOK
  <2>3. late' \subseteq disordered' /\ disordered' \subseteq Server
    BY <1>2, <2>1, <2>2
  <2> QED
    BY <1>2, <1>5, <2>3 DEF CacheInv, Caches!TypeOK
<1>7. EventsOK' /\ InOrder'
  BY <1>1, <1>2, <1>4 DEF CacheInv, EventsOK, InOrder
<1>8. ASSUME NEW s \in Server, NEW k \in Kinds, NEW x \in Of(k), NEW n \in Nat,
             Trusted(s, k, x, n)', Asked(s, k, x, n)'
      PROVE  /\ Trusted(s, k, x, n)
             /\ \/ \E h \in Pending : e.n < h.n /\ h.n < n /\ Writes(h, s, k, x)
                \/ /\ In(cached', s, k, x)
                        = IF Writes(e, s, k, x) THEN Written(e, s, k, x) ELSE In(cached, s, k, x)
                   /\ Writes(e, s, k, x) => e.n < n
                   /\ Writes(e, s, k, x) => \A g \in Pending : Writes(g, s, k, x) => e.n <= g.n
  <2>1. CASE \E h \in Waiting' : h.n < n /\ Writes(h, s, k, x)
    <3>1. PICK h \in Waiting' : h.n < n /\ Writes(h, s, k, x)
      BY <2>1
    <3>2. e.n < h.n /\ h \in Pending /\ h \in Waiting
      BY <1>1, <3>1 DEF Pending
    <3> QED
      BY <3>1, <3>2 DEF Trusted
  <2>2. CASE ~\E h \in Waiting' : h.n < n /\ Writes(h, s, k, x)
    <3>1. s \notin Doubt(k)'
      BY <1>8, <2>2 DEF Trusted
    <3>2. s \notin slow
      BY <1>2, <3>1 DEF Doubt
    <3>3. ASSUME NEW f \in Pending', f.server = s
          PROVE  e.n < f.n
      <4>1. f \in Waiting'
        BY <1>2, <3>2, <3>3 DEF Pending
      <4> QED
        BY <1>1, <4>1
    <3>4. e.n < n
      <4>1. CASE n = told + 1
        BY <1>3, <4>1, EventsInOrder
      <4>2. CASE n # told + 1
        BY <1>8, <3>3, <4>2 DEF Asked
      <4> QED
        BY <4>1, <4>2
    <3>5. ASSUME NEW g \in Pending, Writes(g, s, k, x)
          PROVE  e.n <= g.n
      <4>1. CASE g \in Waiting
        BY <1>1, <1>3, <1>4, <4>1
      <4>2. CASE g \in threads \cup erasing
        <5>1. g.server = s
          BY <3>5, <4>2 DEF CacheInv, EventsOK, Writes
        <5> QED
          BY <3>2, <4>2, <5>1
      <4> QED
        BY <4>1, <4>2 DEF Pending
    <3>6. Trusted(s, k, x, n)
      <4>1. CASE s \notin Doubt(k)
        BY <4>1 DEF Trusted
      <4>2. CASE s \in Doubt(k)
        <5>1. k \in ServerKinds /\ s \in late /\ s \notin late'
          BY <1>2, <3>1, <4>2 DEF Doubt
        <5>2. e.state.servers[s] # Absent
          BY <1>2, <3>2, <5>1
        <5>3. Writes(e, s, k, x)
          BY <1>2, <5>1, <5>2 DEF Writes, ReadyWrites, ServerKinds
        <5> QED
          BY <1>1, <3>4, <5>3 DEF Trusted
      <4> QED
        BY <4>1, <4>2
    <3> QED
      BY <1>5, <3>4, <3>5, <3>6 DEF Effect
  <2> QED
    BY <2>1, <2>2
<1>9. Current' /\ Effective'
  BY <1>3, <1>4, <1>8, LeaveKeeps
<1> QED
  BY <1>6, <1>7, <1>9 DEF CacheInv

(* An event gets its thread, a removal goes to sleep: nothing is applied.  *)
LEMMA MoveKeeps ==
  ASSUME CacheInv, Pending' = Pending, Waiting' \subseteq Waiting,
         UNCHANGED <<platform, cached, connected, told, late, disordered, missed>>
  PROVE  Current' /\ Effective'
<1>1. \A s, k, x, n, v : Before(s, k, x, n, v)' <=> Before(s, k, x, n, v)
  BY DEF Before
<1>2. \A s, k, x, n : Trusted(s, k, x, n)' => Trusted(s, k, x, n)
  BY DEF Trusted, Doubt
<1>3. \A s, k, x : Told(s, k, x)' <=> Told(s, k, x)
  BY DEF Told
<1>4. Current'
  BY <1>1, <1>2, <1>3 DEF Current, CacheInv
<1>5. Effective'
  BY <1>1, <1>2 DEF Effective, CacheInv
<1> QED
  BY <1>4, <1>5

LEMMA SpreadKeeps ==
  ASSUME CacheInv, stream # <<>>, Caches!Spread(Head(stream)), stream' = Tail(stream),
         UNCHANGED <<platform, connected, told, missed>>
  PROVE  CacheInv'
<1> DEFINE e == Head(stream)
<1>1. /\ e \in Waiting /\ Waiting = Waiting' \cup {e} /\ \A f \in Waiting' : e.n < f.n
      /\ stream' \in Seq(Waiting')
      /\ \A i, j \in DOMAIN stream' : i < j => stream'[i].n < stream'[j].n
  BY TakesHead
<1>2. /\ e.type # "Ready" /\ threads' = threads \cup {e}
      /\ UNCHANGED <<cached, erasing, late, disordered>>
  BY DEF Caches!Spread
<1> HIDE DEF e
<1>3. Pending' = Pending /\ e \in Pending
  BY <1>1, <1>2 DEF Pending
<1>4. Current' /\ Effective'
  BY <1>1, <1>2, <1>3, MoveKeeps
<1>5. e.n \in 1..told
  BY <1>3 DEF CacheInv, InOrder
<1>6. Caches!TypeOK'
  BY <1>2, <1>5 DEF CacheInv, Caches!TypeOK
<1>7. EventsOK'
  <2>1. e \notin erasing
    BY <1>1, <1>3, EventsInOrder
  <2> QED
    BY <1>1, <1>2, <1>3, <2>1 DEF CacheInv, EventsOK
<1>8. InOrder'
  BY <1>1, <1>2, <1>3 DEF CacheInv, InOrder
<1> QED
  BY <1>4, <1>6, <1>7, <1>8 DEF CacheInv

LEMMA StartErasingKeeps ==
  ASSUME CacheInv, NEW e \in threads, Caches!StartErasing(e)
  PROVE  CacheInv'
<1>1. /\ e.type = "ServerDelete" /\ threads' = threads \ {e} /\ erasing' = erasing \cup {e}
      /\ UNCHANGED <<platform, cached, connected, stream, told, late, disordered, missed>>
  BY DEF Caches!StartErasing
<1>2. Waiting' = Waiting /\ Pending' = Pending /\ threads' \cup erasing' = threads \cup erasing
  BY <1>1 DEF Waiting, Pending
<1>3. Current' /\ Effective'
  BY <1>1, <1>2, MoveKeeps
<1>4. Caches!TypeOK'
  BY <1>1 DEF CacheInv, Caches!TypeOK
<1>5. EventsOK' /\ InOrder'
  BY <1>1, <1>2 DEF CacheInv, EventsOK, InOrder
<1> QED
  BY <1>3, <1>4, <1>5 DEF CacheInv

LEMMA RunListenerKeeps ==
  ASSUME CacheInv, NEW e \in threads, Caches!RunListener(e)
  PROVE  CacheInv'
<1>1. /\ e.type # "ServerDelete" /\ cached' = Caches!Listener(cached, e)
      /\ late' = late \cup Caches!Overtaken(e) /\ disordered' = disordered \cup Caches!Overtaken(e)
      /\ threads' = threads \ {e}
      /\ UNCHANGED <<platform, connected, stream, erasing, told, missed>>
  BY DEF Caches!RunListener
<1>2. IsEvent(e) /\ e.type # "Ready" /\ e \notin erasing
  BY <1>1 DEF CacheInv, EventsOK, Pending, Caches!TypeOK
<1>3. /\ cached' \in Caches!State
      /\ (Asks(e) => In(cached, e.server, NeedKind(e), NeedOf(e)) # {})
            => Effect(cached, cached', e)
      /\ Asks(e) /\ In(cached, e.server, NeedKind(e), NeedOf(e)) = {} => cached' = cached
  <2>1. cached \in Caches!State
    BY DEF CacheInv, Caches!TypeOK
  <2> QED
    BY <1>1, <1>2, <2>1, ListenerEffect, ListenerDrops
<1>4. threads' \cup erasing' = (threads \cup erasing) \ {e}
  BY <1>1, <1>2
<1> QED
  BY <1>1, <1>3, <1>4, ApplyKeeps

LEMMA EraseKeeps ==
  ASSUME CacheInv, NEW e \in erasing, Caches!Erase(e)
  PROVE  CacheInv'
<1>1. /\ cached' = Caches!Put(cached, e.server, Absent)
      /\ late' = late \cup Caches!Overtaken(e) /\ disordered' = disordered \cup Caches!Overtaken(e)
      /\ erasing' = erasing \ {e}
      /\ UNCHANGED <<platform, connected, stream, threads, told, missed>>
  BY DEF Caches!Erase
<1>2. IsEvent(e) /\ e.type = "ServerDelete"
  BY DEF CacheInv, EventsOK, Pending, Caches!TypeOK
<1>3. cached' \in Caches!State /\ Effect(cached, cached', e) /\ ~Asks(e)
  <2>1. cached \in Caches!State
    BY DEF CacheInv, Caches!TypeOK
  <2> QED
    BY <1>1, <1>2, <2>1, EraseEffect DEF Asks
<1>4. threads' \cup erasing' = (threads \cup erasing) \ {e}
  BY <1>1 DEF CacheInv, EventsOK
<1> QED
  BY <1>1, <1>3, <1>4, ApplyKeeps
-----------------------------------------------------------------------------
(* The platform changes and tells of it, or a connection begins: the bot   *)
(* was told of what changed, or does not have to know.                     *)
LEMMA TellKeeps ==
  ASSUME CacheInv, NEW e, IsEvent(e), e.n = told + 1,
         platform' \in Caches!State, connected' \in BOOLEAN, told < MaxEvents, told' = told + 1,
         stream' = IF connected' THEN Append(stream, e) ELSE stream,
         UNCHANGED <<cached, threads, erasing, late, disordered>>,
         \A s \in Server, k \in Kinds : \A x \in Of(k) :
           /\ connected' /\ Writes(e, s, k, x) => In(platform', s, k, x) = Written(e, s, k, x)
           /\ Told(s, k, x)' /\ ~(connected' /\ Writes(e, s, k, x))
                => Told(s, k, x) /\ In(platform', s, k, x) = In(platform, s, k, x),
         connected' /\ Asks(e) =>
           /\ Told(e.server, NeedKind(e), NeedOf(e))
           /\ In(platform, e.server, NeedKind(e), NeedOf(e)) # {}
  PROVE  CacheInv'
<1>1. stream \in Seq(Waiting) /\ told \in Nat /\ MaxEvents \in Nat
  BY EventsInOrder, CacheConstants, SMTT(20) DEF CacheInv, EventsOK, Caches!ConstantsAssumption
<1>2. /\ Waiting' = IF connected' THEN Waiting \cup {e} ELSE Waiting
      /\ \A i \in DOMAIN stream' : (i \in DOMAIN stream /\ i <= Len(stream) /\ stream'[i] = stream[i])
                                   \/ (i = Len(stream) + 1 /\ stream'[i] = e /\ connected')
      /\ Len(stream) \in Nat /\ DOMAIN stream = 1..Len(stream)
  <2>1. CASE ~connected'
    BY <1>1, <2>1 DEF Waiting
  <2>2. CASE connected'
    <3>1. stream' = Append(stream, e)
      BY <2>2
    <3>2. Waiting' = Waiting \cup {e}
      BY <1>1, <3>1, StreamAppend, SMTT(30) DEF Waiting
    <3>3. /\ \A i \in DOMAIN stream : i \in DOMAIN stream' /\ stream'[i] = stream[i]
          /\ \A i \in DOMAIN stream' :
              (i \in DOMAIN stream /\ i <= Len(stream)) \/ (i = Len(stream) + 1 /\ stream'[i] = e)
          /\ Len(stream) \in Nat /\ DOMAIN stream = 1..Len(stream)
      BY <1>1, <3>1, StreamAppend
    <3> QED
      BY <2>2, <3>2, <3>3
  <2> QED
    BY <2>1, <2>2
<1>3. Pending' = IF connected' THEN Pending \cup {e} ELSE Pending
  BY <1>2 DEF Pending
<1>4. /\ \A f \in Pending : f.n \in Nat /\ f.n < e.n /\ f.n \in 1..told'
      /\ e.n \in Nat /\ e.n \in 1..told' /\ told' \in Nat /\ e.n < told' + 1
  BY <1>1, EventsInOrder DEF CacheInv, InOrder
<1>5. stream' \in Seq(Waiting')
  <2>1. stream \in Seq(Waiting \cup {e})
    BY <1>1
  <2>2. stream' \in Seq(Waiting \cup {e})
    BY <2>1
  <2> QED
    BY <1>1, <1>2, <2>2
<1>6. Caches!TypeOK'
  <2>1. told' \in 0..MaxEvents
    BY <1>1
  <2>2. \A f \in threads \cup erasing : f.n \in 1..told'
    BY <1>4 DEF Pending
  <2> QED
    BY <2>1, <2>2 DEF CacheInv, Caches!TypeOK
<1>7. EventsOK'
  BY <1>3, <1>5 DEF CacheInv, EventsOK
<1>8. InOrder'
  <2>1. \A f \in Pending' : f.n \in 1..told'
    BY <1>3, <1>4
  <2>2. \A f, g \in Pending' : f.n = g.n => f = g
    BY <1>3, <1>4, EventsInOrder
  <2>3. \A f \in threads' \cup erasing', g \in Waiting' : f.n < g.n
    BY <1>2, <1>4, EventsInOrder DEF Pending
  <2>4. \A i, j \in DOMAIN stream' : i < j => stream'[i].n < stream'[j].n
    <3> SUFFICES ASSUME NEW i \in DOMAIN stream', NEW j \in DOMAIN stream', i < j
                 PROVE  stream'[i].n < stream'[j].n
      OBVIOUS
    <3>1. i \in DOMAIN stream /\ stream'[i] = stream[i] /\ stream[i] \in Pending
      BY <1>2 DEF Pending, Waiting
    <3> QED
      BY <1>2, <1>4, <3>1 DEF CacheInv, InOrder
  <2> QED
    BY <2>1, <2>2, <2>3, <2>4 DEF InOrder
<1>9. ASSUME NEW s \in Server, NEW k \in Kinds, NEW x \in Of(k), NEW n \in Nat, n <= e.n, NEW v
      PROVE  /\ Before(s, k, x, n, v)' <=> Before(s, k, x, n, v)
             /\ Trusted(s, k, x, n)' => Trusted(s, k, x, n)
  <2>1. Trusted(s, k, x, n)' => Trusted(s, k, x, n)
    BY <1>2, <1>4, <1>9 DEF Trusted, Doubt
  <2>2. After(Pending \cup {e}, cached, s, k, x, n, v) <=> After(Pending, cached, s, k, x, n, v)
    BY <1>4, <1>9, AfterOlder
  <2> QED
    BY <1>3, <2>1, <2>2 DEF Before
<1>10. Current'
  <2> SUFFICES ASSUME NEW s \in Server, NEW k \in Kinds, NEW x \in Of(k),
                      Told(s, k, x)', Trusted(s, k, x, told + 1)'
               PROVE  Before(s, k, x, told + 1, In(platform, s, k, x))'
    BY DEF Current
  <2> DEFINE v == In(platform', s, k, x)
  <2>1. /\ Writes(e, s, k, x) =>
             After(Pending \cup {e}, cached, s, k, x, told' + 1, Written(e, s, k, x))
        /\ ~Writes(e, s, k, x) =>
             (After(Pending \cup {e}, cached, s, k, x, told' + 1, v)
                <=> After(Pending, cached, s, k, x, e.n, v))
    <3>1. /\ \A f \in Pending : f.n \in Nat /\ f.n < e.n
          /\ e.n \in Nat /\ told' + 1 \in Nat /\ e.n < told' + 1
      BY <1>4
    <3> QED
      BY <3>1, AfterNewer
  <2>2. CASE connected' /\ Writes(e, s, k, x)
    BY <1>3, <2>1, <2>2 DEF Before
  <2>3. CASE ~(connected' /\ Writes(e, s, k, x))
    <3>1. Told(s, k, x) /\ v = In(platform, s, k, x)
      BY <2>3
    <3>2. Trusted(s, k, x, told + 1)
      BY <1>2, <1>4, <2>3, EventsInOrder DEF Trusted, Doubt, Pending
    <3>3. After(Pending, cached, s, k, x, e.n, v)
      BY <3>1, <3>2 DEF CacheInv, Current, Before
    <3>4. CASE connected'
      BY <1>3, <2>1, <2>3, <3>3, <3>4 DEF Before
    <3>5. CASE ~connected'
      <4>1. \A g \in Pending : g.n < told' + 1 <=> g.n < e.n
        BY <1>4
      <4>2. After(Pending, cached, s, k, x, told' + 1, v)
        BY <3>3, <4>1 DEF After, LastWrite
      <4> QED
        BY <1>3, <3>5, <4>2 DEF Before
    <3> QED
      BY <3>4, <3>5
  <2> QED
    BY <2>2, <2>3
<1>11. Effective'
  <2> SUFFICES ASSUME NEW f \in Pending', Asks(f),
                      Trusted(f.server, NeedKind(f), NeedOf(f), f.n)'
               PROVE  ~Before(f.server, NeedKind(f), NeedOf(f), f.n, {})'
    BY DEF Effective
  <2>1. f.n \in Nat /\ f.n <= e.n /\ IsEvent(f)
    BY <1>3, <1>4, EventsInOrder
  <2>2. f.server \in Server /\ NeedKind(f) \in Kinds /\ NeedOf(f) \in Of(NeedKind(f))
    BY <2>1, NeedIsAspect
  <2>3. /\ Before(f.server, NeedKind(f), NeedOf(f), f.n, {})'
             <=> Before(f.server, NeedKind(f), NeedOf(f), f.n, {})
        /\ Trusted(f.server, NeedKind(f), NeedOf(f), f.n)
    BY <1>9, <2>1, <2>2
  <2>4. CASE f \in Pending
    BY <2>3, <2>4 DEF CacheInv, Effective
  <2>5. CASE f = e /\ connected'
    <3>1. /\ Told(e.server, NeedKind(e), NeedOf(e))
          /\ In(platform, e.server, NeedKind(e), NeedOf(e)) # {}
      BY <2>5
    <3>2. Before(e.server, NeedKind(e), NeedOf(e), told + 1,
                 In(platform, e.server, NeedKind(e), NeedOf(e)))
      BY <2>2, <2>3, <2>5, <3>1 DEF CacheInv, Current
    <3>3. /\ \A g \in Pending : g.n \in Nat
          /\ \A g, h \in Pending : g.n = h.n => g = h
      BY EventsInOrder
    <3>4. ~Before(e.server, NeedKind(e), NeedOf(e), told + 1, {})
      BY <3>1, <3>2, <3>3, AfterIsOne DEF Before
    <3> QED
      BY <2>3, <2>5, <3>4
  <2> QED
    BY <1>3, <2>4, <2>5
<1> QED
  BY <1>6, <1>7, <1>8, <1>10, <1>11 DEF CacheInv

LEMMA TellFields ==
  ASSUME NEW e, Caches!Tell(e)
  PROVE  /\ told < MaxEvents /\ told' = told + 1 /\ connected' = connected
         /\ stream' = IF connected' THEN Append(stream, e) ELSE stream
         /\ UNCHANGED <<cached, threads, erasing, late, disordered>>
  BY DEF Caches!Tell

(* A server that stays changes its name or a role.                         *)
LEMMA ChangeKeeps ==
  ASSUME CacheInv, NEW e, IsEvent(e), e.n = told + 1, Caches!Tell(e), UNCHANGED missed,
         e.type \in {"ServerUpdate", "RoleCreate", "RoleUpdate", "RoleDelete"},
         Caches!Has(e.server), platform' \in Caches!State, Effect(platform, platform', e),
         Asks(e) => In(platform, e.server, NeedKind(e), NeedOf(e)) # {}
  PROVE  CacheInv'
<1>1. e.server \in Server /\ connected \in BOOLEAN
  BY DEF IsEvent, CacheInv, Caches!TypeOK
<1>2. \A s \in Server : platform'.servers[s] = Absent <=> platform.servers[s] = Absent
  <2> SUFFICES ASSUME NEW s \in Server
               PROVE  platform'.servers[s] = Absent <=> platform.servers[s] = Absent
    OBVIOUS
  <2>1. "here" \in Kinds /\ Absent \in Of("here") /\ ~Writes(e, s, "here", Absent)
    BY DEF Kinds, Of, Writes, TellsOf
  <2>2. In(platform', s, "here", Absent) = In(platform, s, "here", Absent)
    BY <2>1 DEF Effect
  <2> QED
    BY <2>2 DEF In, InServer
<1>3. ASSUME NEW s \in Server, NEW k \in Kinds, NEW x \in Of(k)
      PROVE  /\ Writes(e, s, k, x) => /\ In(platform', s, k, x) = Written(e, s, k, x)
                                      /\ s = e.server /\ k \in ServerKinds
             /\ ~Writes(e, s, k, x) => In(platform', s, k, x) = In(platform, s, k, x)
  <2>1. Writes(e, s, k, x) => s = e.server /\ k \in ServerKinds
    BY DEF Writes, TellsOf, ServerKinds
  <2> QED
    BY <2>1 DEF Effect
<1>4. ASSUME NEW s \in Server, NEW k \in Kinds, NEW x \in Of(k)
      PROVE  Told(s, k, x)' <=> Told(s, k, x)
  <2>1. CASE k = "channel"
    <3>1. In(platform', s, k, x) = In(platform, s, k, x)
      BY <1>3, <2>1 DEF ServerKinds
    <3>2. <<s, x>> \in platform'.channels <=> <<s, x>> \in platform.channels
      BY <2>1, <3>1 DEF In
    <3> QED
      BY <2>1, <3>2, TellFields DEF Told
  <2>2. CASE k = "member"
    <3>1. In(platform', s, k, x) = In(platform, s, k, x)
      BY <1>3, <2>2 DEF ServerKinds
    <3>2. <<s, x>> \in platform'.members <=> <<s, x>> \in platform.members
      BY <2>2, <3>1 DEF In
    <3> QED
      BY <2>2, <3>2, TellFields DEF Told
  <2>3. CASE k # "channel" /\ k # "member"
    BY <1>2, <2>3, TellFields DEF Told
  <2> QED
    BY <2>1, <2>2, <2>3
<1>5. ASSUME NEW s \in Server, NEW k \in Kinds, NEW x \in Of(k)
      PROVE  /\ connected' /\ Writes(e, s, k, x) => In(platform', s, k, x) = Written(e, s, k, x)
             /\ Told(s, k, x)' /\ ~(connected' /\ Writes(e, s, k, x))
                  => Told(s, k, x) /\ In(platform', s, k, x) = In(platform, s, k, x)
  <2>1. ASSUME Told(s, k, x), Writes(e, s, k, x)
        PROVE  connected
    <3>1. s = e.server /\ k \in ServerKinds
      BY <1>3, <2>1
    <3> QED
      BY <2>1, <3>1 DEF Told, Caches!Has, ServerKinds
  <2> QED
    BY <1>3, <1>4, <2>1, TellFields
<1>6. connected' /\ Asks(e) =>
        /\ Told(e.server, NeedKind(e), NeedOf(e))
        /\ In(platform, e.server, NeedKind(e), NeedOf(e)) # {}
  BY TellFields DEF Told, Caches!Has, NeedKind
<1> QED
  BY <1>1, <1>5, <1>6, TellFields, TellKeeps

LEMMA RenameServerKeeps ==
  ASSUME CacheInv, NEW s0 \in Server, Caches!RenameServer(s0)
  PROVE  CacheInv'
<1>1. PICK nm \in Name \cup {Absent} :
        LET e == [type |-> "ServerUpdate", n |-> told + 1, server |-> s0, name |-> nm]
        IN platform' = Caches!OnServerUpdate(platform, e) /\ Caches!Tell(e)
  BY DEF Caches!RenameServer
<1> DEFINE e == [type |-> "ServerUpdate", n |-> told + 1, server |-> s0, name |-> nm]
<1>2. /\ platform' = Caches!OnServerUpdate(platform, e) /\ Caches!Tell(e)
      /\ missed' = missed /\ platform.servers[s0] # Absent
  BY <1>1 DEF Caches!RenameServer, Caches!Has
<1>3. /\ e.type = "ServerUpdate" /\ e.n = told + 1 /\ e.server = s0
      /\ e.name \in Name \cup {Absent} /\ told + 1 \in Nat
  BY EventsInOrder
<1> HIDE DEF e
<1>4. IsEvent(e) /\ platform \in Caches!State
  BY <1>3 DEF IsEvent, CacheInv, Caches!TypeOK
<1>5. platform' \in Caches!State /\ Effect(platform, platform', e)
  BY <1>2, <1>3, <1>4, ServerUpdateEffect
<1>6. Asks(e) => In(platform, e.server, NeedKind(e), NeedOf(e)) # {}
  BY <1>2, <1>3 DEF In, InServer, NeedKind
<1> QED
  BY <1>2, <1>3, <1>4, <1>5, <1>6, ChangeKeeps DEF Caches!Has

LEMMA ChangeRoleKeeps ==
  ASSUME CacheInv, NEW s0 \in Server, NEW r \in CachedRole, Caches!ChangeRole(s0, r)
  PROVE  CacheInv'
<1>1. PICK t \in IF r \in DOMAIN platform.servers[s0].roles
                 THEN {"RoleUpdate", "RoleDelete"} ELSE {"RoleCreate"}, nm \in Name :
        LET e == [type |-> t, n |-> told + 1, server |-> s0, role |-> r, name |-> nm] IN
        /\ platform' = CASE t = "RoleCreate" -> Caches!OnRoleCreate(platform, e)
                         [] t = "RoleUpdate" -> Caches!OnRoleUpdate(platform, e)
                         [] t = "RoleDelete" -> Caches!OnRoleDelete(platform, e)
        /\ Caches!Tell(e)
  BY DEF Caches!ChangeRole
<1> DEFINE e == [type |-> t, n |-> told + 1, server |-> s0, role |-> r, name |-> nm]
<1>2. /\ t = "RoleCreate" => platform' = Caches!OnRoleCreate(platform, e)
      /\ t = "RoleUpdate" => platform' = Caches!OnRoleUpdate(platform, e)
      /\ t = "RoleDelete" => platform' = Caches!OnRoleDelete(platform, e)
      /\ Caches!Tell(e)
      /\ missed' = missed /\ platform.servers[s0] # Absent
  BY <1>1 DEF Caches!ChangeRole, Caches!Has
<1>3. /\ e.type = t /\ e.n = told + 1 /\ e.server = s0 /\ e.role = r /\ e.name = nm
      /\ told + 1 \in Nat
      /\ t \in {"RoleCreate", "RoleUpdate", "RoleDelete"}
      /\ t = "RoleUpdate" => r \in DOMAIN platform.servers[s0].roles
  BY <1>1, EventsInOrder
<1> HIDE DEF e
<1>4. IsEvent(e) /\ platform \in Caches!State
  BY <1>3 DEF IsEvent, CacheInv, Caches!TypeOK
<1>5. platform' \in Caches!State /\ Effect(platform, platform', e)
  <2>1. CASE t = "RoleCreate"
    BY <1>2, <1>3, <1>4, <2>1, RoleCreateEffect
  <2>2. CASE t = "RoleUpdate"
    BY <1>2, <1>3, <1>4, <2>2, RoleUpdateEffect
  <2>3. CASE t = "RoleDelete"
    BY <1>2, <1>3, <1>4, <2>3, RoleDeleteEffect
  <2> QED
    BY <1>3, <2>1, <2>2, <2>3
<1>6. Asks(e) => In(platform, e.server, NeedKind(e), NeedOf(e)) # {}
  BY <1>2, <1>3 DEF In, InServer, NeedKind, NeedOf, Asks
<1> QED
  BY <1>2, <1>3, <1>4, <1>5, <1>6, ChangeKeeps DEF Caches!Has

(* What went unseen: a server, a channel and a member are not the same.    *)
LEMMA NamesDiffer ==
  ASSUME NEW s \in Server, NEW t \in Server, NEW c \in Channel, NEW u \in User
  PROVE  <<s, c>> # <<t, u>> /\ <<s, c>> # t /\ <<s, u>> # t
<1>1. Channel \cap User = {} /\ Server \cap (Server \X (Channel \cup User)) = {}
  BY CacheConstants DEF Caches!ConstantsAssumption
<1>2. <<s, c>> \in Server \X (Channel \cup User) /\ <<s, u>> \in Server \X (Channel \cup User)
  OBVIOUS
<1> QED
  BY <1>1, <1>2

LEMMA SetChannels ==
  ASSUME NEW c \in Caches!State, NEW cs \in SUBSET (Server \X Channel)
  PROVE  /\ [c EXCEPT !.channels = cs] \in Caches!State
         /\ [c EXCEPT !.channels = cs].channels = cs
         /\ [c EXCEPT !.channels = cs].servers = c.servers
         /\ [c EXCEPT !.channels = cs].members = c.members
  BY DEF Caches!State

LEMMA SetMembers ==
  ASSUME NEW c \in Caches!State, NEW ms \in SUBSET (Server \X User)
  PROVE  /\ [c EXCEPT !.members = ms] \in Caches!State
         /\ [c EXCEPT !.members = ms].members = ms
         /\ [c EXCEPT !.members = ms].servers = c.servers
         /\ [c EXCEPT !.members = ms].channels = c.channels
  BY DEF Caches!State

LEMMA ToggleChannelKeeps ==
  ASSUME CacheInv, NEW s0 \in Server, NEW c \in Channel, Caches!ToggleChannel(s0, c)
  PROVE  CacheInv'
<1> DEFINE p == <<s0, c>>
           e == [type |-> IF p \in platform.channels THEN "ChannelDelete" ELSE "ChannelCreate",
                 n |-> told + 1, server |-> s0, channel |-> c]
<1>1. /\ Caches!Tell(e)
      /\ p \in platform.channels =>
           /\ platform' = [platform EXCEPT !.channels = @ \ {p}]
           /\ missed' = IF connected THEN missed \ {p} ELSE missed \cup {p}
      /\ p \notin platform.channels =>
           /\ platform' = [platform EXCEPT !.channels = @ \cup {p}]
           /\ missed' = missed \ {p}
  BY DEF Caches!ToggleChannel, Caches!Goes, Caches!Comes
<1>2. /\ e.type = IF p \in platform.channels THEN "ChannelDelete" ELSE "ChannelCreate"
      /\ e.n = told + 1 /\ e.server = s0 /\ e.channel = c /\ told + 1 \in Nat
  BY EventsInOrder
<1> HIDE DEF e
<1>3. /\ IsEvent(e) /\ ~Asks(e) /\ platform \in Caches!State /\ connected \in BOOLEAN
      /\ connected' = connected
  BY <1>1, <1>2, TellFields DEF IsEvent, Asks, CacheInv, Caches!TypeOK
<1>4. /\ platform' \in Caches!State
      /\ platform'.servers = platform.servers /\ platform'.members = platform.members
      /\ platform'.channels = IF p \in platform.channels THEN platform.channels \ {p}
                              ELSE platform.channels \cup {p}
  <2>1. /\ platform.channels \subseteq Server \X Channel /\ platform.members \subseteq Server \X User
        /\ p \in Server \X Channel
    BY <1>3, StateFields
  <2> DEFINE out == platform.channels \ {p}
             in == platform.channels \cup {p}
  <2>2. out \in SUBSET (Server \X Channel) /\ in \in SUBSET (Server \X Channel)
    BY <2>1
  <2>3. CASE p \in platform.channels
    <3>1. platform' = [platform EXCEPT !.channels = out]
      BY <1>1, <2>3
    <3> HIDE DEF out
    <3>2. /\ platform' \in Caches!State /\ platform'.servers = platform.servers
          /\ platform'.members = platform.members /\ platform'.channels = out
      BY <1>3, <2>2, <3>1, SetChannels
    <3> QED
      BY <2>3, <3>2 DEF out
  <2>4. CASE p \notin platform.channels
    <3>1. platform' = [platform EXCEPT !.channels = in]
      BY <1>1, <2>4
    <3> HIDE DEF in
    <3>2. /\ platform' \in Caches!State /\ platform'.servers = platform.servers
          /\ platform'.members = platform.members /\ platform'.channels = in
      BY <1>3, <2>2, <3>1, SetChannels
    <3> QED
      BY <2>4, <3>2 DEF in
  <2> QED
    BY <2>3, <2>4
<1>5. ASSUME NEW s \in Server, NEW k \in Kinds, NEW x \in Of(k)
      PROVE  /\ connected' /\ Writes(e, s, k, x) => In(platform', s, k, x) = Written(e, s, k, x)
             /\ Told(s, k, x)' /\ ~(connected' /\ Writes(e, s, k, x))
                  => Told(s, k, x) /\ In(platform', s, k, x) = In(platform, s, k, x)
  <2>1. CASE k = "channel" /\ <<s, x>> = p
    <3>1. Writes(e, s, k, x)
      BY <1>2, <2>1 DEF Writes, TellsOf
    <3>2. In(platform', s, k, x) = Written(e, s, k, x)
      BY <1>2, <1>4, <2>1 DEF In, Written, ServerKinds
    <3>3. Told(s, k, x)' => connected'
      BY <1>1, <1>3, <1>4, <2>1 DEF Told
    <3> QED
      BY <3>1, <3>2, <3>3
  <2>2. CASE k = "channel" /\ <<s, x>> # p
    <3>1. ~Writes(e, s, k, x)
      BY <1>2, <2>2 DEF Writes, TellsOf, ServerKinds
    <3>2. <<s, x>> \in platform'.channels <=> <<s, x>> \in platform.channels
      BY <1>4, <2>2
    <3>3. <<s, x>> \in missed' <=> <<s, x>> \in missed
      BY <1>1, <2>2
    <3>4. Told(s, k, x)' => Told(s, k, x)
      BY <1>3, <2>2, <3>1, <3>2, <3>3 DEF Told
    <3>5. In(platform', s, k, x) = In(platform, s, k, x)
      BY <2>2, <3>1, <3>2, <3>3 DEF In
    <3> QED
      BY <3>1, <3>4, <3>5
  <2>3. CASE k = "member"
    <3>1. ~Writes(e, s, k, x)
      BY <1>2, <2>3 DEF Writes, TellsOf, ServerKinds
    <3>2. <<s, x>> # p
      BY <2>3, NamesDiffer DEF Of
    <3>3. <<s, x>> \in missed' <=> <<s, x>> \in missed
      BY <1>1, <3>2
    <3>4. Told(s, k, x)' => Told(s, k, x)
      BY <1>3, <1>4, <2>3, <3>1, <3>3 DEF Told
    <3>5. In(platform', s, k, x) = In(platform, s, k, x)
      BY <1>4, <2>3, <3>1, <3>3 DEF In
    <3> QED
      BY <3>1, <3>4, <3>5
  <2>4. CASE k \in ServerKinds
    <3>1. ~Writes(e, s, k, x)
      BY <1>2, <2>4 DEF Writes, TellsOf, ServerKinds
    <3>2. s # p
      BY CacheConstants DEF Caches!ConstantsAssumption
    <3>3. s \in missed' <=> s \in missed
      BY <1>1, <3>2
    <3>4. Told(s, k, x)' => Told(s, k, x)
      BY <1>3, <1>4, <2>4, <3>1, <3>3 DEF Told, ServerKinds
    <3>5. In(platform', s, k, x) = In(platform, s, k, x)
      BY <1>4, <2>4, <3>1, <3>3 DEF In, ServerKinds
    <3> QED
      BY <3>1, <3>4, <3>5
  <2> QED
    BY <2>1, <2>2, <2>3, <2>4 DEF Kinds, ServerKinds
<1> HIDE DEF p
<1> QED
  BY <1>1, <1>2, <1>3, <1>4, <1>5, TellFields, TellKeeps

LEMMA ToggleMemberKeeps ==
  ASSUME CacheInv, NEW s0 \in Server, NEW u \in User, Caches!ToggleMember(s0, u)
  PROVE  CacheInv'
<1> DEFINE p == <<s0, u>>
           e == [type |-> IF p \in platform.members THEN "MemberLeave" ELSE "MemberJoin",
                 n |-> told + 1, server |-> s0, user |-> u]
<1>1. /\ Caches!Tell(e)
      /\ p \in platform.members =>
           /\ platform' = [platform EXCEPT !.members = @ \ {p}]
           /\ missed' = IF connected THEN missed \ {p} ELSE missed \cup {p}
      /\ p \notin platform.members =>
           /\ platform' = [platform EXCEPT !.members = @ \cup {p}]
           /\ missed' = missed \ {p}
  BY DEF Caches!ToggleMember, Caches!Goes, Caches!Comes
<1>2. /\ e.type = IF p \in platform.members THEN "MemberLeave" ELSE "MemberJoin"
      /\ e.n = told + 1 /\ e.server = s0 /\ e.user = u /\ told + 1 \in Nat
  BY EventsInOrder
<1> HIDE DEF e
<1>3. /\ IsEvent(e) /\ ~Asks(e) /\ platform \in Caches!State /\ connected \in BOOLEAN
      /\ connected' = connected
  BY <1>1, <1>2, TellFields DEF IsEvent, Asks, CacheInv, Caches!TypeOK
<1>4. /\ platform' \in Caches!State
      /\ platform'.servers = platform.servers /\ platform'.channels = platform.channels
      /\ platform'.members = IF p \in platform.members THEN platform.members \ {p}
                             ELSE platform.members \cup {p}
  <2>1. /\ platform.channels \subseteq Server \X Channel /\ platform.members \subseteq Server \X User
        /\ p \in Server \X User
    BY <1>3, StateFields
  <2> DEFINE out == platform.members \ {p}
             in == platform.members \cup {p}
  <2>2. out \in SUBSET (Server \X User) /\ in \in SUBSET (Server \X User)
    BY <2>1
  <2>3. CASE p \in platform.members
    <3>1. platform' = [platform EXCEPT !.members = out]
      BY <1>1, <2>3
    <3> HIDE DEF out
    <3>2. /\ platform' \in Caches!State /\ platform'.servers = platform.servers
          /\ platform'.channels = platform.channels /\ platform'.members = out
      BY <1>3, <2>2, <3>1, SetMembers
    <3> QED
      BY <2>3, <3>2 DEF out
  <2>4. CASE p \notin platform.members
    <3>1. platform' = [platform EXCEPT !.members = in]
      BY <1>1, <2>4
    <3> HIDE DEF in
    <3>2. /\ platform' \in Caches!State /\ platform'.servers = platform.servers
          /\ platform'.channels = platform.channels /\ platform'.members = in
      BY <1>3, <2>2, <3>1, SetMembers
    <3> QED
      BY <2>4, <3>2 DEF in
  <2> QED
    BY <2>3, <2>4
<1>5. ASSUME NEW s \in Server, NEW k \in Kinds, NEW x \in Of(k)
      PROVE  /\ connected' /\ Writes(e, s, k, x) => In(platform', s, k, x) = Written(e, s, k, x)
             /\ Told(s, k, x)' /\ ~(connected' /\ Writes(e, s, k, x))
                  => Told(s, k, x) /\ In(platform', s, k, x) = In(platform, s, k, x)
  <2>1. CASE k = "member" /\ <<s, x>> = p
    <3>1. Writes(e, s, k, x)
      BY <1>2, <2>1 DEF Writes, TellsOf
    <3>2. In(platform', s, k, x) = Written(e, s, k, x)
      BY <1>2, <1>4, <2>1 DEF In, Written, ServerKinds
    <3>3. Told(s, k, x)' => connected'
      BY <1>1, <1>3, <1>4, <2>1 DEF Told
    <3> QED
      BY <3>1, <3>2, <3>3
  <2>2. CASE k = "member" /\ <<s, x>> # p
    <3>1. ~Writes(e, s, k, x)
      BY <1>2, <2>2 DEF Writes, TellsOf, ServerKinds
    <3>2. <<s, x>> \in platform'.members <=> <<s, x>> \in platform.members
      BY <1>4, <2>2
    <3>3. <<s, x>> \in missed' <=> <<s, x>> \in missed
      BY <1>1, <2>2
    <3>4. Told(s, k, x)' => Told(s, k, x)
      BY <1>3, <2>2, <3>1, <3>2, <3>3 DEF Told
    <3>5. In(platform', s, k, x) = In(platform, s, k, x)
      BY <2>2, <3>1, <3>2, <3>3 DEF In
    <3> QED
      BY <3>1, <3>4, <3>5
  <2>3. CASE k = "channel"
    <3>1. ~Writes(e, s, k, x)
      BY <1>2, <2>3 DEF Writes, TellsOf, ServerKinds
    <3>2. <<s, x>> # p
      BY <2>3, NamesDiffer DEF Of
    <3>3. <<s, x>> \in missed' <=> <<s, x>> \in missed
      BY <1>1, <3>2
    <3>4. Told(s, k, x)' => Told(s, k, x)
      BY <1>3, <1>4, <2>3, <3>1, <3>3 DEF Told
    <3>5. In(platform', s, k, x) = In(platform, s, k, x)
      BY <1>4, <2>3, <3>1, <3>3 DEF In
    <3> QED
      BY <3>1, <3>4, <3>5
  <2>4. CASE k \in ServerKinds
    <3>1. ~Writes(e, s, k, x)
      BY <1>2, <2>4 DEF Writes, TellsOf, ServerKinds
    <3>2. s # p
      BY CacheConstants DEF Caches!ConstantsAssumption
    <3>3. s \in missed' <=> s \in missed
      BY <1>1, <3>2
    <3>4. Told(s, k, x)' => Told(s, k, x)
      BY <1>3, <1>4, <2>4, <3>1, <3>3 DEF Told, ServerKinds
    <3>5. In(platform', s, k, x) = In(platform, s, k, x)
      BY <1>4, <2>4, <3>1, <3>3 DEF In, ServerKinds
    <3> QED
      BY <3>1, <3>4, <3>5
  <2> QED
    BY <2>1, <2>2, <2>3, <2>4 DEF Kinds, ServerKinds
<1> HIDE DEF p
<1> QED
  BY <1>1, <1>2, <1>3, <1>4, <1>5, TellFields, TellKeeps

LEMMA AddServerKeeps ==
  ASSUME CacheInv, NEW s0 \in Server, Caches!AddServer(s0)
  PROVE  CacheInv'
<1>1. PICK nm \in Name, cs \in SUBSET Channel, us \in SUBSET User :
        LET v == [name |-> nm, roles |-> <<>>] IN
        /\ platform' = [Caches!Put(platform, s0, v) EXCEPT !.channels = @ \cup ({s0} \X cs),
                                                           !.members = @ \cup ({s0} \X us)]
        /\ missed' = (missed \ {s0}) \ (({s0} \X cs) \cup ({s0} \X us))
        /\ Caches!Tell([type |-> "ServerCreate", n |-> told + 1, server |-> s0, value |-> v,
                        channels |-> cs])
  BY DEF Caches!AddServer
<1> DEFINE v == [name |-> nm, roles |-> <<>>]
           e == [type |-> "ServerCreate", n |-> told + 1, server |-> s0, value |-> v,
                 channels |-> cs]
           q == Caches!Put(platform, s0, v)
           new == [q EXCEPT !.channels = @ \cup ({s0} \X cs), !.members = @ \cup ({s0} \X us)]
<1>2. /\ platform' = new /\ Caches!Tell(e)
      /\ missed' = (missed \ {s0}) \ (({s0} \X cs) \cup ({s0} \X us))
      /\ platform.servers[s0] = Absent
  BY <1>1 DEF Caches!AddServer, Caches!Has
<1>3. v \in Caches!ServerValue /\ v # Absent
  <2>1. <<>> \in [{} -> Name] /\ {} \in SUBSET CachedRole
    BY EmptySeq
  <2>2. v \in Caches!ServerValue
    BY <2>1, MakeValue
  <2> QED
    BY <2>2, CacheConstants DEF Caches!ConstantsAssumption
<1> HIDE DEF v
<1>4. /\ e.type = "ServerCreate" /\ e.n = told + 1 /\ e.server = s0 /\ e.value = v
      /\ e.channels = cs /\ told + 1 \in Nat
  BY EventsInOrder
<1> HIDE DEF e
<1>5. /\ IsEvent(e) /\ ~Asks(e) /\ platform \in Caches!State /\ connected \in BOOLEAN
      /\ connected' = connected
  BY <1>2, <1>3, <1>4, TellFields DEF IsEvent, Asks, CacheInv, Caches!TypeOK
<1>6. /\ q \in Caches!State /\ q.servers[s0] = v
      /\ \A t \in Server : t # s0 => q.servers[t] = platform.servers[t]
      /\ q.channels = platform.channels /\ q.members = platform.members
  BY <1>3, <1>5, PutFields
<1> HIDE DEF q
<1>7. /\ new \in Caches!State /\ new.servers = q.servers
      /\ new.channels = platform.channels \cup ({s0} \X cs)
      /\ new.members = platform.members \cup ({s0} \X us)
  <2>1. /\ platform.channels \cup ({s0} \X cs) \in SUBSET (Server \X Channel)
        /\ platform.members \cup ({s0} \X us) \in SUBSET (Server \X User)
    BY <1>5, StateFields
  <2> DEFINE chans == platform.channels \cup ({s0} \X cs)
             mems == platform.members \cup ({s0} \X us)
             mid == [q EXCEPT !.channels = chans]
  <2>2. new = [mid EXCEPT !.members = mems]
    BY <1>6 DEF Caches!State
  <2> HIDE DEF chans, mems, new
  <2>3. /\ mid \in Caches!State /\ mid.channels = chans /\ mid.servers = q.servers
    BY <1>6, <2>1, SetChannels DEF chans
  <2> HIDE DEF mid
  <2>4. /\ new \in Caches!State /\ new.members = mems /\ new.servers = mid.servers
        /\ new.channels = mid.channels
    BY <2>1, <2>2, <2>3, SetMembers DEF mems
  <2> QED
    BY <2>3, <2>4 DEF chans, mems
<1> HIDE DEF new
<1>8. /\ \A x : \A s \in Server : <<s, x>> \in platform'.channels
                               <=> <<s, x>> \in platform.channels \/ (s = s0 /\ x \in cs)
      /\ \A x : \A s \in Server : <<s, x>> \in platform'.members
                               <=> <<s, x>> \in platform.members \/ (s = s0 /\ x \in us)
      /\ platform'.servers = q.servers
  BY <1>2, <1>7
<1>9. /\ \A s \in Server : s # s0 /\ s \in missed => s \in missed'
      /\ \A s \in Server, x \in Channel :
           <<s, x>> \in missed /\ ~(s = s0 /\ x \in cs) => <<s, x>> \in missed'
      /\ \A s \in Server, x \in User :
           <<s, x>> \in missed /\ ~(s = s0 /\ x \in us) => <<s, x>> \in missed'
  <2>1. Channel \cap User = {} /\ Server \cap (Server \X (Channel \cup User)) = {}
    BY CacheConstants DEF Caches!ConstantsAssumption
  <2>2. \A s \in Server : s \notin ({s0} \X cs) \cup ({s0} \X us)
    BY <2>1
  <2>3. \A s \in Server, x \in Channel \cup User : <<s, x>> # s0
    BY <2>1
  <2> QED
    BY <1>2, <2>1, <2>2, <2>3
<1>10. ASSUME NEW s \in Server, NEW k \in Kinds, NEW x \in Of(k)
       PROVE  /\ connected' /\ Writes(e, s, k, x) => In(platform', s, k, x) = Written(e, s, k, x)
              /\ Told(s, k, x)' /\ ~(connected' /\ Writes(e, s, k, x))
                   => Told(s, k, x) /\ In(platform', s, k, x) = In(platform, s, k, x)
  <2>1. CASE k = "channel"
    <3>0. x \in Channel
      BY <2>1 DEF Of
    <3>1. Writes(e, s, k, x) <=> s = s0 /\ x \in cs
      BY <1>4, <2>1 DEF Writes, TellsOf, ServerKinds
    <3>2. Writes(e, s, k, x) => In(platform', s, k, x) = Written(e, s, k, x)
      BY <1>4, <1>8, <2>1, <3>1 DEF In, Written, ServerKinds
    <3>3. Told(s, k, x)' /\ ~(connected' /\ Writes(e, s, k, x)) => ~Writes(e, s, k, x)
      BY <1>8, <2>1, <3>1 DEF Told
    <3>4. Told(s, k, x)' /\ ~Writes(e, s, k, x) => Told(s, k, x)
      BY <1>5, <1>8, <1>9, <2>1, <3>0, <3>1 DEF Told
    <3>5. ~Writes(e, s, k, x) => In(platform', s, k, x) = In(platform, s, k, x)
      BY <1>8, <2>1, <3>1 DEF In
    <3> QED
      BY <3>2, <3>3, <3>4, <3>5
  <2>2. CASE k = "member"
    <3>0. x \in User
      BY <2>2 DEF Of
    <3>1. ~Writes(e, s, k, x)
      BY <1>4, <2>2 DEF Writes, TellsOf, ServerKinds
    <3>2. Told(s, k, x)' => Told(s, k, x)
      BY <1>8, <1>9, <2>2, <3>0 DEF Told
    <3>3. Told(s, k, x)' => In(platform', s, k, x) = In(platform, s, k, x)
      BY <1>8, <2>2 DEF In, Told
    <3> QED
      BY <3>1, <3>2, <3>3
  <2>3. CASE k \in ServerKinds
    <3>1. Writes(e, s, k, x) <=> s = s0
      BY <1>4, <2>3 DEF Writes, TellsOf, ServerKinds
    <3>2. CASE s = s0
      <4>1. In(platform', s, k, x) = Written(e, s, k, x)
        BY <1>4, <1>6, <1>8, <2>3, <3>2 DEF In, Written, ServerKinds
      <4>2. Told(s, k, x)' => connected'
        BY <1>3, <1>6, <1>8, <2>3, <3>2 DEF Told, ServerKinds
      <4> QED
        BY <3>1, <3>2, <4>1, <4>2
    <3>3. CASE s # s0
      <4>1. platform'.servers[s] = platform.servers[s]
        BY <1>6, <1>8, <3>3
      <4>2. Told(s, k, x)' => Told(s, k, x)
        BY <1>5, <1>9, <2>3, <3>3, <4>1 DEF Told, ServerKinds
      <4>3. In(platform', s, k, x) = In(platform, s, k, x)
        BY <2>3, <4>1 DEF In, ServerKinds
      <4> QED
        BY <3>1, <3>3, <4>2, <4>3
    <3> QED
      BY <3>2, <3>3
  <2> QED
    BY <2>1, <2>2, <2>3 DEF Kinds, ServerKinds
<1> QED
  BY <1>2, <1>4, <1>5, <1>7, <1>10, TellFields, TellKeeps

LEMMA RemoveServerKeeps ==
  ASSUME CacheInv, NEW s0 \in Server, Caches!RemoveServer(s0)
  PROVE  CacheInv'
<1> DEFINE gone == {p \in platform.channels \cup platform.members : p[1] = s0}
           e == [type |-> "ServerDelete", n |-> told + 1, server |-> s0]
           q == Caches!Put(platform, s0, Absent)
           new == [q EXCEPT !.channels = @ \ gone, !.members = @ \ gone]
<1>1. /\ platform' = new /\ Caches!Tell(e)
      /\ missed' = missed \cup gone \cup (IF connected THEN {} ELSE {s0})
  BY DEF Caches!RemoveServer
<1>2. e.type = "ServerDelete" /\ e.n = told + 1 /\ e.server = s0 /\ told + 1 \in Nat
  BY EventsInOrder
<1> HIDE DEF e
<1>3. /\ IsEvent(e) /\ ~Asks(e) /\ platform \in Caches!State /\ connected \in BOOLEAN
      /\ connected' = connected
  BY <1>1, <1>2, TellFields DEF IsEvent, Asks, CacheInv, Caches!TypeOK
<1>4. /\ q \in Caches!State /\ q.servers[s0] = Absent
      /\ \A t \in Server : t # s0 => q.servers[t] = platform.servers[t]
      /\ q.channels = platform.channels /\ q.members = platform.members
  BY <1>3, PutFields
<1> HIDE DEF q
<1>5. /\ platform.channels \subseteq Server \X Channel
      /\ platform.members \subseteq Server \X User
  BY <1>3, StateFields
<1>6. /\ new \in Caches!State /\ new.servers = q.servers
      /\ new.channels = platform.channels \ gone
      /\ new.members = platform.members \ gone
  <2> DEFINE chans == platform.channels \ gone
             mems == platform.members \ gone
             mid == [q EXCEPT !.channels = chans]
  <2>1. chans \in SUBSET (Server \X Channel) /\ mems \in SUBSET (Server \X User)
    BY <1>5
  <2> HIDE DEF gone
  <2>2. new = [mid EXCEPT !.members = mems]
    BY <1>4 DEF Caches!State
  <2> HIDE DEF chans, mems, new
  <2>3. /\ mid \in Caches!State /\ mid.channels = chans /\ mid.servers = q.servers
    BY <1>4, <2>1, SetChannels
  <2> HIDE DEF mid
  <2>4. /\ new \in Caches!State /\ new.members = mems /\ new.servers = mid.servers
        /\ new.channels = mid.channels
    BY <2>1, <2>2, <2>3, SetMembers
  <2> QED
    BY <2>3, <2>4 DEF chans, mems
<1> HIDE DEF new
<1>7. /\ \A x : \A s \in Server : <<s, x>> \in platform'.channels
                               <=> <<s, x>> \in platform.channels /\ s # s0
      /\ \A x : \A s \in Server : <<s, x>> \in platform'.members
                               <=> <<s, x>> \in platform.members /\ s # s0
      /\ platform'.servers = q.servers
      /\ \A x : <<s0, x>> \in platform.channels \cup platform.members => <<s0, x>> \in missed'
      /\ missed \subseteq missed'
      /\ ~connected => s0 \in missed'
  BY <1>1, <1>6
<1>8. ASSUME NEW s \in Server, NEW k \in Kinds, NEW x \in Of(k)
      PROVE  /\ connected' /\ Writes(e, s, k, x) => In(platform', s, k, x) = Written(e, s, k, x)
             /\ Told(s, k, x)' /\ ~(connected' /\ Writes(e, s, k, x))
                  => Told(s, k, x) /\ In(platform', s, k, x) = In(platform, s, k, x)
  <2>1. CASE k = "channel"
    <3>1. ~Writes(e, s, k, x)
      BY <1>2, <2>1 DEF Writes, TellsOf, ServerKinds
    <3>2. Told(s, k, x)' => Told(s, k, x)
      BY <1>3, <1>7, <2>1 DEF Told
    <3>3. Told(s, k, x)' => In(platform', s, k, x) = In(platform, s, k, x)
      BY <1>7, <2>1 DEF In, Told
    <3> QED
      BY <3>1, <3>2, <3>3
  <2>2. CASE k = "member"
    <3>1. ~Writes(e, s, k, x)
      BY <1>2, <2>2 DEF Writes, TellsOf, ServerKinds
    <3>2. Told(s, k, x)' => Told(s, k, x)
      BY <1>3, <1>7, <2>2 DEF Told
    <3>3. Told(s, k, x)' => In(platform', s, k, x) = In(platform, s, k, x)
      BY <1>7, <2>2 DEF In, Told
    <3> QED
      BY <3>1, <3>2, <3>3
  <2>3. CASE k \in ServerKinds
    <3>1. Writes(e, s, k, x) <=> s = s0
      BY <1>2, <2>3 DEF Writes, TellsOf, ServerKinds
    <3>2. CASE s = s0
      <4>1. In(platform', s, k, x) = Written(e, s, k, x)
        BY <1>2, <1>4, <1>7, <2>3, <3>2 DEF In, InServer, Written, ServerKinds
      <4>2. Told(s, k, x)' => connected'
        BY <1>3, <1>4, <1>7, <2>3, <3>2 DEF Told, ServerKinds
      <4> QED
        BY <3>1, <3>2, <4>1, <4>2
    <3>3. CASE s # s0
      <4>1. platform'.servers[s] = platform.servers[s]
        BY <1>4, <1>7, <3>3
      <4>2. Told(s, k, x)' => Told(s, k, x)
        BY <1>3, <1>7, <2>3, <3>3, <4>1 DEF Told, ServerKinds
      <4>3. In(platform', s, k, x) = In(platform, s, k, x)
        BY <2>3, <4>1 DEF In, ServerKinds
      <4> QED
        BY <3>1, <3>3, <4>2, <4>3
    <3> QED
      BY <3>2, <3>3
  <2> QED
    BY <2>1, <2>2, <2>3 DEF Kinds, ServerKinds
<1> HIDE DEF gone
<1> QED
  BY <1>1, <1>2, <1>3, <1>6, <1>8, TellFields, TellKeeps

(* The connection ends, and begins with all that the platform has.         *)
LEMMA DisconnectKeeps == CacheInv /\ Caches!Disconnect => CacheInv'
<1> SUFFICES ASSUME CacheInv, Caches!Disconnect
             PROVE  CacheInv'
  OBVIOUS
<1>1. /\ connected' = FALSE
      /\ UNCHANGED <<platform, cached, stream, threads, erasing, told, late, disordered, missed>>
  BY DEF Caches!Disconnect
<1>2. Waiting' = Waiting /\ Pending' = Pending
  BY <1>1 DEF Waiting, Pending
<1>3. \A s, k, x, n, v : Before(s, k, x, n, v)' <=> Before(s, k, x, n, v)
  BY <1>1, <1>2 DEF Before
<1>4. \A s, k, x, n : Trusted(s, k, x, n)' <=> Trusted(s, k, x, n)
  BY <1>1, <1>2 DEF Trusted, Doubt
<1>5. \A s, k, x : Told(s, k, x)' => Told(s, k, x)
  BY <1>1 DEF Told
<1>6. Current' /\ Effective'
  <2>1. Current'
    BY <1>1, <1>3, <1>4, <1>5 DEF CacheInv, Current
  <2>2. Effective'
    BY <1>2, <1>3, <1>4 DEF CacheInv, Effective
  <2> QED
    BY <2>1, <2>2
<1>7. Caches!TypeOK'
  BY <1>1 DEF CacheInv, Caches!TypeOK
<1>8. EventsOK' /\ InOrder'
  BY <1>1, <1>2 DEF CacheInv, EventsOK, InOrder
<1> QED
  BY <1>6, <1>7, <1>8 DEF CacheInv

LEMMA ReconnectKeeps == CacheInv /\ Caches!Reconnect => CacheInv'
<1> SUFFICES ASSUME CacheInv, Caches!Reconnect
             PROVE  CacheInv'
  OBVIOUS
<1> DEFINE e == [type |-> "Ready", n |-> told + 1, state |-> platform]
<1>1. /\ connected' = TRUE /\ told < MaxEvents /\ told' = told + 1
      /\ stream' = Append(stream, e)
      /\ UNCHANGED <<platform, cached, threads, erasing, late, disordered, missed>>
  BY DEF Caches!Reconnect
<1>2. e.type = "Ready" /\ e.n = told + 1 /\ e.state = platform /\ told + 1 \in Nat
  BY EventsInOrder
<1> HIDE DEF e
<1>3. IsEvent(e) /\ ~Asks(e) /\ platform' \in Caches!State
  BY <1>1, <1>2 DEF IsEvent, Asks, CacheInv, Caches!TypeOK
<1>4. ASSUME NEW s \in Server, NEW k \in Kinds, NEW x \in Of(k)
      PROVE  /\ connected' /\ Writes(e, s, k, x) => In(platform', s, k, x) = Written(e, s, k, x)
             /\ Told(s, k, x)' /\ ~(connected' /\ Writes(e, s, k, x))
                  => Told(s, k, x) /\ In(platform', s, k, x) = In(platform, s, k, x)
  <2>1. In(platform', s, k, x) = In(platform, s, k, x)
    BY <1>1
  <2>2. Writes(e, s, k, x) => In(platform', s, k, x) = Written(e, s, k, x)
    BY <1>2, <2>1 DEF Written
  <2>3. Told(s, k, x)' /\ ~Writes(e, s, k, x) => Told(s, k, x)
    BY <1>1, <1>2 DEF Told, Writes, ReadyWrites
  <2> QED
    BY <1>1, <2>1, <2>2, <2>3
<1>5. stream' = IF connected' THEN Append(stream, e) ELSE stream
  BY <1>1
<1> QED
  BY <1>1, <1>2, <1>3, <1>4, <1>5, TellKeeps
-----------------------------------------------------------------------------
LEMMA CacheInit == Caches!Init => CacheInv
<1> SUFFICES ASSUME Caches!Init
             PROVE  CacheInv
  OBVIOUS
<1>1. /\ platform = Caches!Nothing /\ cached = Caches!Nothing /\ connected = TRUE
      /\ stream = <<>> /\ threads = {} /\ erasing = {}
      /\ told = 0 /\ late = {} /\ disordered = {} /\ missed = {}
  BY DEF Caches!Init
<1>2. Caches!Nothing \in Caches!State
  BY DEF Caches!Nothing, Caches!State
<1>3. Waiting = {} /\ Pending = {} /\ stream \in Seq(Waiting) /\ DOMAIN stream = {}
  <2>1. stream \in Seq({}) /\ DOMAIN stream = {}
    BY <1>1
  <2>2. Waiting = {}
    BY <2>1 DEF Waiting
  <2> QED
    BY <1>1, <2>1, <2>2 DEF Pending
<1>4. Caches!TypeOK
  BY <1>1, <1>2, CacheConstants DEF Caches!TypeOK, Caches!ConstantsAssumption
<1>5. EventsOK /\ InOrder /\ Effective
  BY <1>1, <1>3 DEF EventsOK, InOrder, Effective
<1>6. Current
  BY <1>1, <1>3 DEF Current, Before, After
<1> QED
  BY <1>4, <1>5, <1>6 DEF CacheInv

LEMMA CacheStep == CacheInv /\ Caches!Next => CacheInv'
<1> SUFFICES ASSUME CacheInv, Caches!Next
             PROVE  CacheInv'
  OBVIOUS
<1>1. CASE Caches!Work
  <2>1. CASE Caches!Handle(Head(stream))
    BY <1>1, <2>1, HandleKeeps DEF Caches!Work
  <2>2. CASE Caches!Spread(Head(stream))
    BY <1>1, <2>2, SpreadKeeps DEF Caches!Work
  <2> QED
    BY <1>1, <2>1, <2>2 DEF Caches!Work
<1>2. CASE \E e \in threads : Caches!RunListener(e) \/ Caches!StartErasing(e)
  BY <1>2, RunListenerKeeps, StartErasingKeeps
<1>3. CASE \E e \in erasing : Caches!Erase(e)
  BY <1>3, EraseKeeps
<1>4. CASE Caches!PlatformStep
  <2>1. PICK s \in Server :
          \/ Caches!AddServer(s) \/ Caches!RemoveServer(s) \/ Caches!RenameServer(s)
          \/ \E r \in CachedRole : Caches!ChangeRole(s, r)
          \/ \E c \in Channel : Caches!ToggleChannel(s, c)
          \/ \E u \in User : Caches!ToggleMember(s, u)
    BY <1>4 DEF Caches!PlatformStep
  <2> QED
    BY <2>1, AddServerKeeps, RemoveServerKeeps, RenameServerKeeps, ChangeRoleKeeps,
       ToggleChannelKeeps, ToggleMemberKeeps
<1>5. CASE Caches!Disconnect \/ Caches!Reconnect
  BY <1>5, DisconnectKeeps, ReconnectKeeps
<1> QED
  BY <1>1, <1>2, <1>3, <1>4, <1>5 DEF Caches!Next

LEMMA CacheStutter == CacheInv /\ UNCHANGED cacheVars => CacheInv'
<1> SUFFICES ASSUME CacheInv, UNCHANGED cacheVars
             PROVE  CacheInv'
  OBVIOUS
<1>1. UNCHANGED <<platform, cached, connected, stream, threads, erasing, told, late,
                  disordered, missed>>
  BY DEF cacheVars
<1>2. Waiting' = Waiting /\ Pending' = Pending
  BY <1>1 DEF Waiting, Pending
<1>3. Current' /\ Effective'
  BY <1>1, <1>2, MoveKeeps
<1>4. Caches!TypeOK'
  BY <1>1 DEF CacheInv, Caches!TypeOK
<1>5. EventsOK' /\ InOrder'
  BY <1>1, <1>2 DEF CacheInv, EventsOK, InOrder
<1> QED
  BY <1>3, <1>4, <1>5 DEF CacheInv

LEMMA AlwaysCacheInv == MCSpec => []CacheInv
<1>1. MCInit => CacheInv
  BY CacheInit DEF MCInit
<1>2. CacheInv /\ [MCNext]_allVars => CacheInv'
  <2>1. MCNext => Caches!Next \/ UNCHANGED cacheVars
    BY DEF MCNext
  <2>2. UNCHANGED allVars => UNCHANGED cacheVars
    BY DEF allVars
  <2> QED
    BY <2>1, <2>2, CacheStep, CacheStutter
<1> QED
  BY <1>1, <1>2, PTL DEF MCSpec

(* Nothing on its way: what the bot was told of is cached, where no order  *)
(* of events puts it in doubt.                                             *)
LEMMA SettledAgrees ==
  ASSUME CacheInv, Caches!Settled, NEW s \in Server, NEW k \in Kinds, NEW x \in Of(k),
         Told(s, k, x), s \notin Doubt(k)
  PROVE  In(cached, s, k, x) = In(platform, s, k, x)
<1>1. Pending = {}
  <2>1. DOMAIN stream = {}
    BY DEF Caches!Settled
  <2> QED
    BY <2>1 DEF Caches!Settled, Pending, Waiting
<1>2. Before(s, k, x, told + 1, In(platform, s, k, x))
  BY DEF CacheInv, Current, Trusted
<1> QED
  BY <1>1, <1>2 DEF Before, After

(* Values of a server that agree in every aspect are the same.             *)
LEMMA SameServer ==
  ASSUME NEW v \in Caches!ServerValue, NEW w \in Caches!ServerValue, v.name = w.name,
         \A x \in CachedRole : x \in DOMAIN v.roles <=> x \in DOMAIN w.roles,
         \A x \in DOMAIN v.roles : v.roles[x] = w.roles[x]
  PROVE  v = w
<1>1. /\ v = [name |-> v.name, roles |-> v.roles] /\ w = [name |-> w.name, roles |-> w.roles]
      /\ v.roles = [q \in DOMAIN v.roles |-> v.roles[q]]
      /\ w.roles = [q \in DOMAIN w.roles |-> w.roles[q]]
      /\ DOMAIN v.roles \subseteq CachedRole /\ DOMAIN w.roles \subseteq CachedRole
  BY ValueFields
<1>2. DOMAIN v.roles = DOMAIN w.roles
  BY <1>1
<1>3. v.roles = w.roles
  BY <1>1, <1>2
<1> QED
  BY <1>1, <1>3

LEMMA SettledServers == CacheInv => Caches!SettledIsExact
<1> SUFFICES ASSUME CacheInv, Caches!Settled, NEW s \in Server,
                    s \notin late, ~(s \in missed /\ ~Caches!Has(s))
             PROVE  cached.servers[s] = platform.servers[s]
  BY DEF Caches!SettledIsExact
<1> DEFINE v == cached.servers[s]
           w == platform.servers[s]
<1>1. v \in Caches!ServerValue \cup {Absent} /\ w \in Caches!ServerValue \cup {Absent}
  BY StateFields DEF CacheInv, Caches!TypeOK
<1>2. ASSUME NEW k \in ServerKinds, NEW x \in Of(k)
      PROVE  InServer(v, s, k, x) = InServer(w, s, k, x)
  <2>1. k \in Kinds /\ Told(s, k, x) /\ s \notin Doubt(k)
    BY <1>2 DEF Kinds, ServerKinds, Told, Doubt, Caches!Settled, Caches!Has
  <2>2. In(cached, s, k, x) = In(platform, s, k, x)
    BY <2>1, SettledAgrees
  <2> QED
    BY <1>2, <2>2 DEF In, ServerKinds
<1> HIDE DEF v, w
<1>3. v = Absent <=> w = Absent
  <2>1. InServer(v, s, "here", Absent) = InServer(w, s, "here", Absent)
    BY <1>2 DEF ServerKinds, Of
  <2> QED
    BY <2>1 DEF InServer
<1>4. CASE v # Absent
  <2>1. v \in Caches!ServerValue /\ w \in Caches!ServerValue /\ w # Absent
    BY <1>1, <1>3, <1>4
  <2>2. v.name = w.name
    <3>1. InServer(v, s, "name", Absent) = InServer(w, s, "name", Absent)
      BY <1>2 DEF ServerKinds, Of
    <3> QED
      BY <1>4, <2>1, <3>1 DEF InServer
  <2>3. ASSUME NEW x \in CachedRole
        PROVE  /\ x \in DOMAIN v.roles <=> x \in DOMAIN w.roles
               /\ x \in DOMAIN v.roles => v.roles[x] = w.roles[x]
    <3>1. InServer(v, s, "role", x) = InServer(w, s, "role", x)
      BY <1>2 DEF ServerKinds, Of
    <3> QED
      BY <1>4, <2>1, <3>1 DEF InServer
  <2>4. DOMAIN v.roles \subseteq CachedRole
    BY <2>1, ValueFields
  <2> QED
    BY <2>1, <2>2, <2>3, <2>4, SameServer DEF v, w
<1> QED
  BY <1>3, <1>4 DEF v, w

LEMMA SettledChannels == CacheInv => Caches!ChannelsAreKnown
<1> SUFFICES ASSUME CacheInv, Caches!Settled, NEW s \in Server, NEW c \in Channel,
                    s \notin disordered
             PROVE  /\ <<s, c>> \in platform.channels => <<s, c>> \in cached.channels
                    /\ <<s, c>> \in cached.channels \ platform.channels => <<s, c>> \in missed
  BY DEF Caches!ChannelsAreKnown
<1>1. "channel" \in Kinds /\ c \in Of("channel") /\ s \notin Doubt("channel")
  BY DEF Kinds, Of, Doubt, ServerKinds
<1>2. Told(s, "channel", c) => In(cached, s, "channel", c) = In(platform, s, "channel", c)
  BY <1>1, SettledAgrees
<1>3. In(cached, s, "channel", c) = In(platform, s, "channel", c)
        => (<<s, c>> \in cached.channels <=> <<s, c>> \in platform.channels)
  BY DEF In
<1>4. /\ <<s, c>> \in platform.channels => Told(s, "channel", c)
      /\ <<s, c>> \notin platform.channels /\ <<s, c>> \notin missed => Told(s, "channel", c)
  BY DEF Told, Caches!Settled
<1> QED
  BY <1>2, <1>3, <1>4

LEMMA SettledMembers == CacheInv => Caches!LeftIsNotCounted
<1> SUFFICES ASSUME CacheInv, Caches!Settled, NEW s \in Server, NEW u \in User,
                    <<s, u>> \in cached.members \ platform.members,
                    s \notin disordered, <<s, u>> \notin missed, u \notin Ignored
             PROVE  FALSE
  BY DEF Caches!LeftIsNotCounted
<1>1. /\ "member" \in Kinds /\ u \in Of("member") /\ s \notin Doubt("member")
      /\ Told(s, "member", u)
  BY DEF Kinds, Of, Doubt, ServerKinds, Told
<1>2. In(cached, s, "member", u) = In(platform, s, "member", u)
  BY <1>1, SettledAgrees
<1> QED
  BY <1>2 DEF In

(* Once every event is handled, the cache has each server as the platform  *)
(* has it, its channels, and no member who left, but for those an older    *)
(* event of which came after a newer one, or which went unseen.            *)
THEOREM CacheStaysCurrent == MCSpec => []CacheFollows
<1>1. CacheInv => CacheFollows
  BY SettledServers, SettledChannels, SettledMembers
  DEF CacheInv, CacheFollows, Caches!CacheFollows
<1> QED
  BY <1>1, AlwaysCacheInv, PTL
-----------------------------------------------------------------------------
(* The categories of a server.  Every list that the server has, or that a  *)
(* call may still write, is sound: it was sound when it was read, and      *)
(* moving one channel keeps it so.  What a call writes is a move of the    *)
(* list it replaces unless another list was written since its GET, which   *)
(* overtaken says.                                                         *)
Category == Moves!Category

(* What a move makes of a list: its channel is in the category at n, which *)
(* may be new, and in no other; nothing else of the list changed.          *)
Placed(list, new, ch, n) ==
  /\ n \in DOMAIN new /\ DOMAIN list \subseteq DOMAIN new
  /\ \A i \in DOMAIN new : i # n => i \in DOMAIN list
  /\ \A i \in DOMAIN list :
       /\ new[i].id = list[i].id
       /\ new[i].title = list[i].title
       /\ new[i].channels \ {ch} = list[i].channels \ {ch}
  /\ \A i \in DOMAIN new : ch \in new[i].channels <=> i = n
  /\ n \notin DOMAIN list => new[n].channels = {ch}

Named(list, target) == {i \in DOMAIN list : Moves!IsTarget(list[i], target)}

LEMMA FirstIsIn ==
  ASSUME NEW S \in SUBSET Nat, S # {}
  PROVE  Moves!FirstOf(S) \in S
<1>1. PICK i \in S : \A j \in S : <<j, i>> \notin OpToRel(<, Nat)
  BY WFMin, NatLessThanWellFounded, Zenon
<1>2. \A j \in S : ~(j < i)
  BY <1>1, Zenon DEF OpToRel
<1>3. \A j \in S : i <= j
  BY <1>2
<1> QED
  BY <1>3 DEF Moves!FirstOf, Moves!Min

LEMMA FirstOfOne ==
  ASSUME NEW n \in Nat
  PROVE  Moves!FirstOf({n}) = n
  BY FirstIsIn

LEMMA CategoryFields ==
  ASSUME NEW c \in Category
  PROVE  /\ c.id \in Moves!Ids /\ c.title \in Title /\ c.channels \in SUBSET Channel
         /\ c = [id |-> c.id, title |-> c.title, channels |-> c.channels]
  BY DEF Category, Moves!Category

WithChannels(c, X) == [c EXCEPT !.channels = X]

LEMMA WithFields ==
  ASSUME NEW c \in Category, NEW X \in SUBSET Channel
  PROVE  /\ WithChannels(c, X) \in Category
         /\ WithChannels(c, X).id = c.id /\ WithChannels(c, X).title = c.title /\ WithChannels(c, X).channels = X
  BY DEF WithChannels, Category, Moves!Category

LEMMA RestIs ==
  ASSUME NEW list \in Seq(Category), NEW ch
  PROVE  /\ Moves!Without(list, ch) \in Seq(Category)
         /\ DOMAIN Moves!Without(list, ch) = DOMAIN list
         /\ Len(Moves!Without(list, ch)) = Len(list)
         /\ \A i \in DOMAIN list :
              /\ Moves!Without(list, ch)[i].id = list[i].id
              /\ Moves!Without(list, ch)[i].title = list[i].title
              /\ Moves!Without(list, ch)[i].channels = list[i].channels \ {ch}
<1> DEFINE rest == Moves!Without(list, ch)
<1>1. rest = [i \in DOMAIN list |-> [list[i] EXCEPT !.channels = list[i].channels \ {ch}]]
  BY DEF Moves!Without
<1>2. DOMAIN list = 1..Len(list) /\ Len(list) \in Nat /\ \A i \in DOMAIN list : list[i] \in Category
  OBVIOUS
<1>3. ASSUME NEW i \in DOMAIN list
      PROVE  /\ rest[i] \in Category /\ rest[i].id = list[i].id /\ rest[i].title = list[i].title
             /\ rest[i].channels = list[i].channels \ {ch}
  <2>1. list[i].channels \ {ch} \in SUBSET Channel
    BY <1>2, CategoryFields
  <2>2. rest[i] = WithChannels(list[i], list[i].channels \ {ch})
    BY <1>1 DEF WithChannels
  <2> QED
    BY <1>2, <2>1, <2>2, WithFields
<1>4. rest \in [1..Len(list) -> Category]
  BY <1>1, <1>2, <1>3
<1>5. rest \in Seq(Category)
  BY <1>2, <1>4, SeqDef
<1> QED
  BY <1>1, <1>2, <1>3, <1>4, <1>5

LEMMA IntoPlaces ==
  ASSUME NEW list \in Seq(Category), NEW ch \in Channel, NEW n \in DOMAIN list
  PROVE  LET new == Moves!Into(Moves!Without(list, ch), n, ch)
         IN  new \in Seq(Category) /\ DOMAIN new = DOMAIN list /\ Placed(list, new, ch, n)
<1> DEFINE rest == Moves!Without(list, ch)
           new == Moves!Into(rest, n, ch)
<1>1. /\ rest \in Seq(Category) /\ DOMAIN rest = DOMAIN list
      /\ \A i \in DOMAIN list : /\ rest[i].id = list[i].id /\ rest[i].title = list[i].title
                                /\ rest[i].channels = list[i].channels \ {ch}
  BY RestIs
<1>2. new = [rest EXCEPT ![n].channels = rest[n].channels \cup {ch}]
  BY DEF Moves!Into
<1> HIDE DEF rest, new
<1>3. rest[n] \in Category /\ rest[n].channels \cup {ch} \in SUBSET Channel
  BY <1>1, CategoryFields
<1> DEFINE c == WithChannels(rest[n], rest[n].channels \cup {ch})
<1>4. /\ c \in Category /\ c.id = list[n].id /\ c.title = list[n].title
      /\ c.channels = rest[n].channels \cup {ch}
  BY <1>1, <1>3, WithFields
<1>5. new = [rest EXCEPT ![n] = c]
  BY <1>2 DEF WithChannels
<1> HIDE DEF c
<1>6. new \in Seq(Category) /\ DOMAIN new = DOMAIN list
  BY <1>1, <1>4, <1>5
<1>7. \A i \in DOMAIN list : new[i] = IF i = n THEN c ELSE rest[i]
  BY <1>1, <1>5
<1>8. \A i \in DOMAIN list : /\ new[i].id = list[i].id /\ new[i].title = list[i].title
  BY <1>1, <1>4, <1>7
<1>9. \A i \in DOMAIN list : new[i].channels \ {ch} = list[i].channels \ {ch}
  BY <1>1, <1>4, <1>7
<1>10. \A i \in DOMAIN list : ch \in new[i].channels <=> i = n
  BY <1>1, <1>4, <1>7
<1>11. Placed(list, new, ch, n)
  BY <1>6, <1>8, <1>9, <1>10 DEF Placed
<1> QED
  BY <1>6, <1>11 DEF new, rest

LEMMA AppendPlaces ==
  ASSUME NEW list \in Seq(Category), NEW ch \in Channel, NEW c \in Category, c.channels = {ch}
  PROVE  LET new == Append(Moves!Without(list, ch), c)
             n == Len(list) + 1
         IN  /\ new \in Seq(Category) /\ DOMAIN new = DOMAIN list \cup {n} /\ n \notin DOMAIN list
             /\ new[n] = c /\ Placed(list, new, ch, n)
<1> DEFINE rest == Moves!Without(list, ch)
           new == Append(rest, c)
           n == Len(list) + 1
<1>1. /\ rest \in Seq(Category) /\ DOMAIN rest = DOMAIN list /\ Len(rest) = Len(list)
      /\ \A i \in DOMAIN list : /\ rest[i].id = list[i].id /\ rest[i].title = list[i].title
                                /\ rest[i].channels = list[i].channels \ {ch}
  BY RestIs
<1> HIDE DEF rest
<1>2. /\ new \in Seq(Category) /\ DOMAIN new = 1..n /\ DOMAIN list = 1..(n - 1) /\ n \in Nat \ {0}
      /\ new[n] = c /\ \A i \in DOMAIN list : new[i] = rest[i]
  BY <1>1
<1> HIDE DEF new, n
<1>3. DOMAIN new = DOMAIN list \cup {n} /\ n \notin DOMAIN list
  BY <1>2
<1>4. \A i \in DOMAIN new : ch \in new[i].channels <=> i = n
  BY <1>1, <1>2, <1>3
<1>5. \A i \in DOMAIN list : new[i].channels \ {ch} = list[i].channels \ {ch}
  BY <1>1, <1>2
<1>6. Placed(list, new, ch, n)
  BY <1>1, <1>2, <1>3, <1>4, <1>5 DEF Placed
<1> QED
  BY <1>2, <1>3, <1>6 DEF new, n, rest

(* The four ways a move goes.                                              *)
LEMMA MoveIs ==
  ASSUME NEW list \in Seq(Category), NEW ch \in Channel, NEW target \in Title,
         NEW id \in Moves!Ids
  PROVE  LET new == Moves!Moved(list, ch, target, id)
         IN  /\ new \in Seq(Category)
             /\ \E n \in DOMAIN new :
                  /\ Placed(list, new, ch, n)
                  /\ Named(new, target) # {} => n = Moves!FirstOf(Named(new, target))
                  /\ \/ n \in DOMAIN list
                     \/ new[n].id = "default" /\ \A i \in DOMAIN list : list[i].id # "default"
                     \/ new[n].id = id /\ Moves!Draws(list, target)
<1> DEFINE rest == Moves!Without(list, ch)
           found == {i \in DOMAIN rest : Moves!IsTarget(rest[i], target)}
           default == {i \in DOMAIN rest : rest[i].id = "default"}
           new == Moves!Moved(list, ch, target, id)
<1>1. /\ DOMAIN rest = DOMAIN list
      /\ \A i \in DOMAIN list : rest[i].id = list[i].id /\ rest[i].title = list[i].title
  BY RestIs
<1>2. \A i \in DOMAIN list : Moves!IsTarget(rest[i], target) <=> Moves!IsTarget(list[i], target)
  BY <1>1 DEF Moves!IsTarget
<1>3. found = Named(list, target) /\ found \subseteq DOMAIN list
  BY <1>1, <1>2 DEF Named
<1>4. default = {i \in DOMAIN list : list[i].id = "default"} /\ default \subseteq DOMAIN list
  BY <1>1
<1>5. DOMAIN list \subseteq Nat
  OBVIOUS
<1>6. /\ found # {} => new = Moves!Into(rest, Moves!FirstOf(found), ch)
      /\ found = {} /\ Moves!IsDefault(target) /\ default # {} =>
           new = Moves!Into(rest, Moves!FirstOf(default), ch)
      /\ found = {} /\ Moves!IsDefault(target) /\ default = {} =>
           new = Append(rest, Moves!New("default", "Default", ch))
      /\ found = {} /\ ~Moves!IsDefault(target) =>
           new = Append(rest, Moves!New(id, target, ch))
  BY DEF Moves!Moved
<1> HIDE DEF found, default, new, rest
<1>7. ASSUME NEW L, NEW n \in DOMAIN list, Placed(list, L, ch, n), DOMAIN L = DOMAIN list
      PROVE  Named(L, target) = found
  <2>1. \A i \in DOMAIN list : L[i].id = list[i].id /\ L[i].title = list[i].title
    BY <1>7 DEF Placed
  <2>2. \A i \in DOMAIN list : Moves!IsTarget(L[i], target) <=> Moves!IsTarget(list[i], target)
    BY <2>1 DEF Moves!IsTarget
  <2> QED
    BY <1>3, <1>7, <2>2 DEF Named
<1>8. ASSUME NEW L, Placed(list, L, ch, Len(list) + 1), DOMAIN L = DOMAIN list \cup {Len(list) + 1},
             found = {}
      PROVE  Named(L, target) \subseteq {Len(list) + 1}
  <2>1. \A i \in DOMAIN list : L[i].id = list[i].id /\ L[i].title = list[i].title
    BY <1>8 DEF Placed
  <2>2. \A i \in DOMAIN list : Moves!IsTarget(L[i], target) <=> Moves!IsTarget(list[i], target)
    BY <2>1 DEF Moves!IsTarget
  <2> QED
    BY <1>3, <1>8, <2>2 DEF Named
<1>9. CASE found # {}
  <2>1. Moves!FirstOf(found) \in found
    BY <1>3, <1>5, <1>9, FirstIsIn
  <2>2. Moves!FirstOf(found) \in DOMAIN list
    BY <1>3, <2>1
  <2>3. /\ new \in Seq(Category) /\ DOMAIN new = DOMAIN list
        /\ Placed(list, new, ch, Moves!FirstOf(found))
    BY <1>6, <1>9, <2>2, IntoPlaces DEF rest
  <2>4. Named(new, target) = found
    BY <1>7, <2>2, <2>3
  <2> QED
    BY <2>2, <2>3, <2>4 DEF new
<1>10. CASE found = {} /\ Moves!IsDefault(target) /\ default # {}
  <2>1. Moves!FirstOf(default) \in default
    BY <1>4, <1>5, <1>10, FirstIsIn
  <2>2. Moves!FirstOf(default) \in DOMAIN list
    BY <1>4, <2>1
  <2>3. /\ new \in Seq(Category) /\ DOMAIN new = DOMAIN list
        /\ Placed(list, new, ch, Moves!FirstOf(default))
    BY <1>6, <1>10, <2>2, IntoPlaces DEF rest
  <2>4. Named(new, target) = {}
    BY <1>7, <1>10, <2>2, <2>3
  <2> QED
    BY <2>2, <2>3, <2>4 DEF new
<1> DEFINE last == Len(list) + 1
<1>11. last \in Nat
  OBVIOUS
<1>12. CASE found = {} /\ Moves!IsDefault(target) /\ default = {}
  <2> DEFINE c == Moves!New("default", "Default", ch)
  <2>1. c \in Category /\ c.channels = {ch} /\ c.id = "default"
    BY MovesConstants DEF Moves!CategoryConstants, Moves!New, Category, Moves!Category, Moves!Ids
  <2>2. new = Append(rest, c)
    BY <1>6, <1>12
  <2> HIDE DEF c
  <2>3. /\ new \in Seq(Category) /\ DOMAIN new = DOMAIN list \cup {last} /\ new[last] = c
        /\ Placed(list, new, ch, last)
    BY <2>1, <2>2, AppendPlaces DEF rest
  <2>4. Named(new, target) \subseteq {last}
    BY <1>8, <1>12, <2>3
  <2>5. Named(new, target) # {} => last = Moves!FirstOf(Named(new, target))
    <3> SUFFICES ASSUME Named(new, target) # {} PROVE last = Moves!FirstOf(Named(new, target))
      OBVIOUS
    <3>1. Named(new, target) = {last}
      BY <2>4
    <3> QED
      BY <1>11, <3>1, FirstOfOne
  <2>6. \A i \in DOMAIN list : list[i].id # "default"
    BY <1>4, <1>12
  <2> HIDE DEF last
  <2> QED
    BY <2>1, <2>3, <2>5, <2>6 DEF new
<1>13. CASE found = {} /\ ~Moves!IsDefault(target)
  <2> DEFINE c == Moves!New(id, target, ch)
  <2>1. c \in Category /\ c.channels = {ch} /\ c.id = id
    BY DEF Moves!New, Category, Moves!Category
  <2>2. new = Append(rest, c)
    BY <1>6, <1>13
  <2> HIDE DEF c
  <2>3. /\ new \in Seq(Category) /\ DOMAIN new = DOMAIN list \cup {last} /\ new[last] = c
        /\ Placed(list, new, ch, last)
    BY <2>1, <2>2, AppendPlaces DEF rest
  <2>4. Named(new, target) \subseteq {last}
    BY <1>8, <1>13, <2>3
  <2>5. Named(new, target) # {} => last = Moves!FirstOf(Named(new, target))
    <3> SUFFICES ASSUME Named(new, target) # {} PROVE last = Moves!FirstOf(Named(new, target))
      OBVIOUS
    <3>1. Named(new, target) = {last}
      BY <2>4
    <3> QED
      BY <1>11, <3>1, FirstOfOne
  <2>6. Moves!Draws(list, target)
    BY <1>3, <1>13 DEF Moves!Draws, Named
  <2> HIDE DEF last
  <2> QED
    BY <2>1, <2>3, <2>5, <2>6 DEF new
<1> QED
  BY <1>9, <1>10, <1>12, <1>13
-----------------------------------------------------------------------------
KnownIds(list, n) ==
  \A i \in DOMAIN list : list[i].id \in Title \cup {RandomIds[m] : m \in 1..n}

(* A list that is sound after so many restarts and random ids. *)
SoundList(list, r, n) ==
  /\ Moves!OncePerChannel(list)
  /\ r = 0 => Moves!Distinct(list) /\ KnownIds(list, n)

(* What a call would write is a move of the list that the server has,      *)
(* unless the call was overtaken or its list is written already.           *)
Prepared(k) ==
  \/ categories = move[k].list
  \/ \E id \in Moves!Ids :
       move[k].list = Moves!Moved(categories, move[k].channel, move[k].target, id)

MovesInv ==
  /\ Moves!TypeOK
  /\ SoundList(categories, restarts, drawn)
  /\ \A k \in Moving : Moves!Writing(k) => SoundList(move[k].list, restarts, drawn)
  /\ \A k \in Moving : Moves!Writing(k) /\ ~overtaken[k] => Prepared(k)

MovePlaces == {"idle", "getting", "patching", "gaveUp", "done"}

LEMMA MoveFields ==
  ASSUME Moves!TypeOK, NEW k \in Moving
  PROVE  /\ move[k].pc \in MovePlaces /\ move[k].channel \in Channel /\ move[k].target \in Title
         /\ move[k].list \in Seq(Category)
  BY DEF Moves!TypeOK, MovePlaces, Category

LEMMA RandomOnes ==
  /\ DOMAIN RandomIds = 1..Len(RandomIds) /\ Len(RandomIds) \in Nat
  /\ \A m \in DOMAIN RandomIds : RandomIds[m] \in Moves!Ids /\ RandomIds[m] \notin Title
  /\ \A m, n \in DOMAIN RandomIds : m # n => RandomIds[m] # RandomIds[n]
  BY MovesConstants DEF Moves!CategoryConstants, Moves!Ids

LEMMA MovesInit == Moves!Init => MovesInv
<1> SUFFICES ASSUME Moves!Init PROVE MovesInv
  OBVIOUS
<1> DEFINE Idle == [pc : {"idle"}, channel : Channel, target : Title, list : {<<>>}]
<1>1. /\ categories \in Lists /\ move \in [Moving -> Idle] /\ drawn = 0 /\ restarts = 0
      /\ overtaken = [k \in Moving |-> FALSE]
  BY DEF Moves!Init
<1>2. /\ categories \in Seq(Category) /\ Moves!OncePerChannel(categories)
      /\ Moves!Distinct(categories)
      /\ \A i \in DOMAIN categories : categories[i].id \in Title
  BY <1>1, MovesConstants DEF Moves!CategoryConstants, Category
<1>3. ASSUME NEW j \in Idle
      PROVE  j \in [pc : MovePlaces, channel : Channel, target : Title, list : Seq(Category)]
  <2>1. /\ j = [pc |-> j.pc, channel |-> j.channel, target |-> j.target, list |-> j.list]
        /\ j.pc = "idle" /\ j.channel \in Channel /\ j.target \in Title /\ j.list = <<>>
    OBVIOUS
  <2>2. j.pc \in MovePlaces /\ j.list \in Seq(Category)
    BY <2>1 DEF MovePlaces
  <2> QED
    BY <2>1, <2>2
<1>4. 0 \in 0..Len(RandomIds)
  BY RandomOnes
<1>5. MaxRestarts \in Nat
  BY MovesConstants DEF Moves!CategoryConstants
<1>6. Moves!TypeOK
  BY <1>1, <1>2, <1>3, <1>4, <1>5 DEF Moves!TypeOK, MovePlaces, Category
<1>7. SoundList(categories, restarts, drawn)
  BY <1>2 DEF SoundList, KnownIds
<1>8. \A k \in Moving : ~Moves!Writing(k)
  BY <1>1 DEF Moves!Writing
<1> QED
  BY <1>6, <1>7, <1>8 DEF MovesInv

(* A move keeps a list sound. *)
LEMMA MoveIsOnce ==
  ASSUME NEW list, NEW new, NEW ch, NEW n, Placed(list, new, ch, n), Moves!OncePerChannel(list)
  PROVE  Moves!OncePerChannel(new)
<1> SUFFICES ASSUME NEW c \in Channel, NEW i \in DOMAIN new, NEW j \in DOMAIN new,
                    c \in new[i].channels, c \in new[j].channels
             PROVE  i = j
  BY DEF Moves!OncePerChannel, Moves!In
<1>1. CASE c = ch
  BY <1>1 DEF Placed
<1>2. CASE c # ch
  <2>1. \A m \in DOMAIN new : c \in new[m].channels => m \in DOMAIN list /\ c \in list[m].channels
    BY <1>2 DEF Placed
  <2> QED
    BY <2>1 DEF Moves!OncePerChannel, Moves!In
<1> QED
  BY <1>1, <1>2

LEMMA MoveIsDistinct ==
  ASSUME NEW list, NEW new, NEW ch, NEW n, Placed(list, new, ch, n), Moves!Distinct(list),
         n \in DOMAIN list \/ \A i \in DOMAIN list : list[i].id # new[n].id
  PROVE  Moves!Distinct(new)
<1> SUFFICES ASSUME NEW i \in DOMAIN new, NEW j \in DOMAIN new, i # j
             PROVE  new[i].id # new[j].id
  BY DEF Moves!Distinct
<1>1. \A m \in DOMAIN new : m # n => m \in DOMAIN list /\ new[m].id = list[m].id
  BY DEF Placed
<1>2. n \in DOMAIN list => new[n].id = list[n].id
  BY DEF Placed
<1> QED
  BY <1>1, <1>2 DEF Moves!Distinct

LEMMA AnsweredStep ==
  ASSUME MovesInv, NEW k \in Moving, Moves!GetAnswered(k)
  PROVE  MovesInv'
<1> DEFINE draws == Moves!Draws(categories, move[k].target)
           m == drawn + 1
           id == IF draws THEN RandomIds[m] ELSE "default"
           new == Moves!Moved(categories, move[k].channel, move[k].target, id)
<1>1. /\ move[k].pc = "getting" /\ (draws => m \in DOMAIN RandomIds)
      /\ drawn' = IF draws THEN m ELSE drawn
      /\ move' = [move EXCEPT ![k].pc = "patching", ![k].list = new]
      /\ categories' = categories /\ overtaken' = overtaken /\ restarts' = restarts
  BY DEF Moves!GetAnswered
<1>2. /\ categories \in Seq(Category) /\ drawn \in 0..Len(RandomIds)
      /\ move[k].channel \in Channel /\ move[k].target \in Title
      /\ SoundList(categories, restarts, drawn)
  BY MoveFields DEF MovesInv, Moves!TypeOK, Category
<1>3. drawn' \in 0..Len(RandomIds) /\ 1..drawn \subseteq 1..drawn'
  BY <1>1, <1>2, RandomOnes
<1>4. id \in Moves!Ids
  BY <1>1, RandomOnes, MovesConstants DEF Moves!CategoryConstants, Moves!Ids
<1>5. draws => id = RandomIds[m]
  OBVIOUS
<1> HIDE DEF id
<1>6. new \in Seq(Category)
  BY <1>2, <1>4, MoveIs
<1>7. PICK n \in DOMAIN new :
        /\ Placed(categories, new, move[k].channel, n)
        /\ \/ n \in DOMAIN categories
           \/ new[n].id = "default" /\ \A i \in DOMAIN categories : categories[i].id # "default"
           \/ new[n].id = id /\ draws
  BY <1>2, <1>4, MoveIs
<1> HIDE DEF new, draws
<1>8. Moves!OncePerChannel(new)
  BY <1>2, <1>7, MoveIsOnce DEF SoundList
<1>9. ASSUME restarts = 0 PROVE Moves!Distinct(new) /\ KnownIds(new, drawn')
  <2>1. Moves!Distinct(categories) /\ KnownIds(categories, drawn)
    BY <1>2, <1>9 DEF SoundList
  <2>2. draws => \A i \in DOMAIN categories : categories[i].id # RandomIds[m]
    <3> SUFFICES ASSUME draws, NEW i \in DOMAIN categories PROVE categories[i].id # RandomIds[m]
      OBVIOUS
    <3>1. categories[i].id \in Title \/ \E j \in 1..drawn : categories[i].id = RandomIds[j]
      BY <2>1 DEF KnownIds
    <3>2. \A j \in 1..drawn : j \in DOMAIN RandomIds /\ j # m
      BY <1>2, RandomOnes
    <3> QED
      BY <1>1, <3>1, <3>2, RandomOnes
  <2>3. n \in DOMAIN categories \/ \A i \in DOMAIN categories : categories[i].id # new[n].id
    BY <1>5, <1>7, <2>2
  <2>4. Moves!Distinct(new)
    BY <1>7, <2>1, <2>3, MoveIsDistinct
  <2> DEFINE known == Title \cup {RandomIds[j] : j \in 1..drawn'}
  <2>5. \A i \in DOMAIN categories : categories[i].id \in known
    BY <1>3, <2>1 DEF KnownIds
  <2>6. draws => RandomIds[m] \in known
    BY <1>1, <1>2
  <2>7. "default" \in known
    BY MovesConstants DEF Moves!CategoryConstants
  <2> HIDE DEF known
  <2>8. ASSUME NEW i \in DOMAIN new PROVE new[i].id \in known
    <3>1. i \in DOMAIN categories => new[i].id = categories[i].id
      BY <1>7 DEF Placed
    <3>2. i # n => i \in DOMAIN categories
      BY <1>7 DEF Placed
    <3>3. CASE i \in DOMAIN categories
      BY <2>5, <3>1, <3>3
    <3>4. CASE i = n /\ i \notin DOMAIN categories
      BY <1>5, <1>7, <2>6, <2>7, <3>4
    <3> QED
      BY <3>2, <3>3, <3>4
  <2>9. \A i \in DOMAIN new : new[i].id \in Title \cup {RandomIds[j] : j \in 1..drawn'}
    BY <2>8 DEF known
  <2> QED
    BY <2>4, <2>9 DEF KnownIds
<1>10. \A j \in Moving : j # k => move'[j] = move[j]
  BY <1>1 DEF MovesInv, Moves!TypeOK
<1>11. /\ move'[k].pc = "patching" /\ move'[k].channel = move[k].channel
       /\ move'[k].target = move[k].target /\ move'[k].list = new
  BY <1>1 DEF MovesInv, Moves!TypeOK
<1>12. Moves!TypeOK'
  <2>1. move' \in [Moving -> [pc : MovePlaces, channel : Channel, target : Title, list : Seq(Category)]]
    BY <1>1, <1>6 DEF MovesInv, Moves!TypeOK, MovePlaces, Category
  <2> QED
    BY <1>1, <1>3, <2>1 DEF MovesInv, Moves!TypeOK, MovePlaces, Category
<1>13. SoundList(new, restarts, drawn')
  BY <1>8, <1>9 DEF SoundList
<1>14. \A list : SoundList(list, restarts, drawn) => SoundList(list, restarts, drawn')
  BY <1>3 DEF SoundList, KnownIds
<1>15. ASSUME NEW j \in Moving, Moves!Writing(j)'
       PROVE  SoundList(move'[j].list, restarts', drawn')
  <2>1. CASE j = k
    BY <1>1, <1>11, <1>13, <2>1
  <2>2. CASE j # k
    <3>1. move'[j] = move[j] /\ Moves!Writing(j)
      BY <1>10, <1>15, <2>2 DEF Moves!Writing
    <3>2. SoundList(move[j].list, restarts, drawn)
      BY <3>1 DEF MovesInv
    <3> QED
      BY <1>1, <1>14, <3>1, <3>2
  <2> QED
    BY <2>1, <2>2
<1>16. ASSUME NEW j \in Moving, Moves!Writing(j)', ~overtaken'[j] PROVE Prepared(j)'
  <2>1. CASE j = k
    <3>1. new = Moves!Moved(categories', move'[k].channel, move'[k].target, id)
      BY <1>1, <1>11 DEF new
    <3> QED
      BY <1>4, <1>11, <2>1, <3>1 DEF Prepared
  <2>2. CASE j # k
    <3>1. move'[j] = move[j] /\ Moves!Writing(j)
      BY <1>10, <1>16, <2>2 DEF Moves!Writing
    <3>2. Prepared(j)
      BY <1>1, <1>16, <3>1 DEF MovesInv
    <3> QED
      BY <1>1, <3>1, <3>2 DEF Prepared
  <2> QED
    BY <2>1, <2>2
<1>17. SoundList(categories', restarts', drawn')
  BY <1>1, <1>2, <1>14
<1> QED
  BY <1>12, <1>15, <1>16, <1>17 DEF MovesInv

(* Steps that neither make a list nor write one. *)
LEMMA PlaceStep ==
  ASSUME MovesInv, Moves!TypeOK', categories' = categories, overtaken' = overtaken,
         restarts' = restarts \/ restarts' # 0, drawn' = drawn \/ restarts' # 0,
         \A k \in Moving :
           /\ move'[k].channel = move[k].channel /\ move'[k].target = move[k].target
           /\ move'[k].list = move[k].list
           /\ Moves!Writing(k)' => Moves!Writing(k)
  PROVE  MovesInv'
<1>1. \A list : SoundList(list, restarts, drawn) => SoundList(list, restarts', drawn')
  BY DEF SoundList
<1>2. SoundList(categories', restarts', drawn')
  BY <1>1 DEF MovesInv
<1>3. ASSUME NEW k \in Moving, Moves!Writing(k)' PROVE SoundList(move'[k].list, restarts', drawn')
  <2>1. SoundList(move[k].list, restarts, drawn)
    BY <1>3 DEF MovesInv
  <2> QED
    BY <1>1, <2>1
<1>4. ASSUME NEW k \in Moving, Moves!Writing(k)', ~overtaken'[k] PROVE Prepared(k)'
  <2>1. Prepared(k)
    BY <1>4 DEF MovesInv
  <2> QED
    BY <2>1 DEF Prepared
<1> QED
  BY <1>2, <1>3, <1>4 DEF MovesInv

LEMMA CallPlaceStep ==
  ASSUME MovesInv, NEW k \in Moving, NEW p \in MovePlaces,
         move' = [move EXCEPT ![k].pc = p], p \in {"patching", "gaveUp"} => Moves!Writing(k),
         UNCHANGED <<categories, drawn, overtaken, restarts>>
  PROVE  MovesInv'
<1>1. /\ move'[k].pc = p /\ move'[k].channel = move[k].channel
      /\ move'[k].target = move[k].target /\ move'[k].list = move[k].list
      /\ \A j \in Moving : j # k => move'[j] = move[j]
  BY DEF MovesInv, Moves!TypeOK
<1>2. move' \in [Moving -> [pc : MovePlaces, channel : Channel, target : Title, list : Seq(Category)]]
  BY DEF MovesInv, Moves!TypeOK, MovePlaces, Category
<1>3. Moves!TypeOK'
  BY <1>2 DEF MovesInv, Moves!TypeOK, MovePlaces, Category
<1>4. \A j \in Moving : Moves!Writing(j)' => Moves!Writing(j)
  BY <1>1 DEF Moves!Writing
<1> QED
  BY <1>1, <1>3, <1>4, PlaceStep

LEMMA WriteStep ==
  ASSUME MovesInv, NEW k \in Moving, Moves!Write(k)
  PROVE  MovesInv'
<1>1. /\ Moves!Writing(k) /\ categories' = move[k].list /\ move' = move /\ drawn' = drawn
      /\ restarts' = restarts
      /\ overtaken' = [j \in Moving |->
            overtaken[j] \/ (j # k /\ Moves!Writing(j) /\ move[k].list # categories)]
  BY DEF Moves!Write
<1>2. categories' \in Seq(Category)
  BY <1>1, MoveFields DEF MovesInv
<1>3. overtaken' \in [Moving -> BOOLEAN]
  BY <1>1
<1>4. Moves!TypeOK'
  BY <1>1, <1>2, <1>3 DEF MovesInv, Moves!TypeOK, Category
<1>5. \A j \in Moving : Moves!Writing(j)' <=> Moves!Writing(j)
  BY <1>1 DEF Moves!Writing
<1>6. SoundList(categories', restarts', drawn')
  BY <1>1 DEF MovesInv
<1>7. \A j \in Moving : Moves!Writing(j)' => SoundList(move'[j].list, restarts', drawn')
  BY <1>1, <1>5 DEF MovesInv
<1>8. ASSUME NEW j \in Moving, Moves!Writing(j)', ~overtaken'[j] PROVE Prepared(j)'
  <2>1. Moves!Writing(j) /\ ~overtaken[j] /\ (j = k \/ move[k].list = categories)
    BY <1>1, <1>5, <1>8
  <2>2. CASE j = k
    BY <1>1, <2>2 DEF Prepared
  <2>3. CASE move[k].list = categories
    <3>1. Prepared(j)
      BY <2>1 DEF MovesInv
    <3> QED
      BY <1>1, <2>3, <3>1 DEF Prepared
  <2> QED
    BY <2>1, <2>2, <2>3
<1> QED
  BY <1>4, <1>6, <1>7, <1>8 DEF MovesInv

LEMMA RestartStep == MovesInv /\ Moves!Restart => MovesInv'
<1> SUFFICES ASSUME MovesInv, Moves!Restart PROVE MovesInv'
  OBVIOUS
<1> DEFINE Broken(pc) == CASE pc = "getting" -> "done" [] pc = "patching" -> "gaveUp" [] OTHER -> pc
<1>1. /\ restarts < MaxRestarts /\ restarts' = restarts + 1 /\ drawn' = 0
      /\ move' = [k \in Moving |-> [move[k] EXCEPT !.pc = Broken(move[k].pc)]]
      /\ categories' = categories /\ overtaken' = overtaken
  BY DEF Moves!Restart
<1>2. /\ \A pc \in MovePlaces : Broken(pc) \in MovePlaces
      /\ \A pc \in MovePlaces : Broken(pc) \in {"patching", "gaveUp"} => pc \in {"patching", "gaveUp"}
  BY DEF MovePlaces
<1> HIDE DEF Broken
<1>3. ASSUME NEW k \in Moving
      PROVE  /\ move'[k].channel = move[k].channel /\ move'[k].target = move[k].target
             /\ move'[k].list = move[k].list /\ move'[k].pc = Broken(move[k].pc)
             /\ move'[k] \in [pc : MovePlaces, channel : Channel, target : Title, list : Seq(Category)]
  <2>1. move[k] \in [pc : MovePlaces, channel : Channel, target : Title, list : Seq(Category)]
    BY DEF MovesInv, Moves!TypeOK, MovePlaces, Category
  <2>2. Broken(move[k].pc) \in MovePlaces
    BY <1>2, <2>1
  <2>3. move'[k] = [move[k] EXCEPT !.pc = Broken(move[k].pc)]
    BY <1>1
  <2> QED
    BY <2>1, <2>2, <2>3
<1>4. move' \in [Moving -> [pc : MovePlaces, channel : Channel, target : Title, list : Seq(Category)]]
  <2>1. DOMAIN move' = Moving /\ move' = [k \in Moving |-> move'[k]]
    BY <1>1
  <2> QED
    BY <1>3, <2>1
<1>5. restarts' \in 0..MaxRestarts /\ restarts' # 0 /\ drawn' \in 0..Len(RandomIds)
  <2>1. MaxRestarts \in Nat /\ restarts \in 0..MaxRestarts
    BY MovesConstants DEF Moves!CategoryConstants, MovesInv, Moves!TypeOK
  <2> QED
    BY <1>1, <2>1, RandomOnes
<1>6. Moves!TypeOK'
  BY <1>1, <1>4, <1>5 DEF MovesInv, Moves!TypeOK, MovePlaces, Category
<1>7. \A k \in Moving : Moves!Writing(k)' => Moves!Writing(k)
  BY <1>2, <1>3, MoveFields DEF Moves!Writing, MovesInv
<1> QED
  BY <1>1, <1>3, <1>5, <1>6, <1>7, PlaceStep

LEMMA MovesStep == MovesInv /\ Moves!Next => MovesInv'
<1> SUFFICES ASSUME MovesInv, Moves!Next PROVE MovesInv'
  OBVIOUS
<1>1. CASE Moves!Restart
  BY <1>1, RestartStep
<1>2. ASSUME NEW k \in Moving, Moves!Start(k) PROVE MovesInv'
  BY <1>2, CallPlaceStep DEF Moves!Start, MovePlaces
<1>3. ASSUME NEW k \in Moving, Moves!GetFails(k) PROVE MovesInv'
  BY <1>3, CallPlaceStep DEF Moves!GetFails, MovePlaces
<1>4. ASSUME NEW k \in Moving, Moves!PatchEnds(k) PROVE MovesInv'
  <2>1. PICK p \in {"done", "gaveUp"} : move' = [move EXCEPT ![k].pc = p]
    BY <1>4 DEF Moves!PatchEnds
  <2>2. Moves!Writing(k) /\ p \in MovePlaces /\ UNCHANGED <<categories, drawn, overtaken, restarts>>
    BY <1>4 DEF Moves!PatchEnds, Moves!Writing, MovePlaces
  <2> QED
    BY <2>1, <2>2, CallPlaceStep
<1> QED
  BY <1>1, <1>2, <1>3, <1>4, AnsweredStep, WriteStep DEF Moves!Next

LEMMA MovesStutter == MovesInv /\ UNCHANGED categoryVars => MovesInv'
<1> SUFFICES ASSUME MovesInv, UNCHANGED categoryVars PROVE MovesInv'
  OBVIOUS
<1>1. UNCHANGED <<categories, move, drawn, overtaken, restarts>>
  BY DEF categoryVars
<1>2. Moves!TypeOK'
  BY <1>1 DEF MovesInv, Moves!TypeOK
<1>3. \A k \in Moving : Moves!Writing(k)' => Moves!Writing(k)
  BY <1>1 DEF Moves!Writing
<1> QED
  BY <1>1, <1>2, <1>3, PlaceStep

(* A write that is a move of the list it replaces changes what it should.  *)
LEMMA WrittenMove ==
  ASSUME MovesInv, NEW k \in Moving, Moves!Writing(k), ~overtaken[k],
         categories' = move[k].list, categories' # categories
  PROVE  LET t == move[k].target
             named == {i \in DOMAIN categories' : Moves!IsTarget(categories'[i], t)}
         IN  /\ \A i \in Moves!In(categories', move[k].channel) :
                  named # {} => i = Moves!Min(named)
             /\ Moves!In(categories', move[k].channel) # {}
             /\ \A i \in DOMAIN categories :
                  /\ categories'[i].id = categories[i].id
                  /\ categories'[i].channels \ {move[k].channel} =
                       categories[i].channels \ {move[k].channel}
<1> DEFINE t == move[k].target
           ch == move[k].channel
<1>1. PICK id \in Moves!Ids : categories' = Moves!Moved(categories, ch, t, id)
  BY DEF MovesInv, Prepared
<1>2. categories \in Seq(Category) /\ ch \in Channel /\ t \in Title
  BY MoveFields DEF MovesInv, Moves!TypeOK, Category
<1> HIDE DEF t, ch
<1>3. PICK n \in DOMAIN categories' :
        /\ Placed(categories, categories', ch, n)
        /\ Named(categories', t) # {} => n = Moves!FirstOf(Named(categories', t))
  BY <1>1, <1>2, MoveIs
<1>4. Moves!In(categories', ch) = {n}
  BY <1>3 DEF Placed, Moves!In
<1>5. \A i \in DOMAIN categories :
        /\ categories'[i].id = categories[i].id
        /\ categories'[i].channels \ {ch} = categories[i].channels \ {ch}
  BY <1>3 DEF Placed
<1>6. Named(categories', t) # {} => n = Moves!Min(Named(categories', t))
  BY <1>3 DEF Moves!FirstOf
<1> QED
  BY <1>4, <1>5, <1>6 DEF t, ch, Named

(* However moves of channels overlap and the bot restarts, no channel is   *)
(* in two categories; the categories' ids differ within a run of the bot;  *)
(* and a write that nothing overtook moves the one channel, into the first *)
(* category that its target names.                                         *)
THEOREM MovesStaySound == MCSpec => MovesAreSound
<1>1. MCInit => MovesInv
  BY MovesInit DEF MCInit, MovesIdle
<1>2. MovesInv /\ [MCNext]_allVars => MovesInv'
  <2>1. MCNext => Moves!Next \/ UNCHANGED categoryVars
    BY DEF MCNext
  <2>2. UNCHANGED allVars => UNCHANGED categoryVars
    BY DEF allVars
  <2> QED
    BY <2>1, <2>2, MovesStep, MovesStutter
<1>3. MovesInv => Moves!TypeOK /\ Moves!NoChannelTwice /\ Moves!IdsDifferWithinRun
  BY DEF MovesInv, SoundList, Moves!NoChannelTwice, Moves!IdsDifferWithinRun
<1>4. MovesInv =>
        [\A k \in Moving :
           Moves!Writing(k) /\ ~overtaken[k] /\ categories' = move[k].list
             /\ categories' # categories =>
             LET t == move[k].target
                 named == {i \in DOMAIN categories' : Moves!IsTarget(categories'[i], t)}
             IN  /\ \A i \in Moves!In(categories', move[k].channel) :
                      named # {} => i = Moves!Min(named)
                 /\ Moves!In(categories', move[k].channel) # {}
                 /\ \A i \in DOMAIN categories :
                      /\ categories'[i].id = categories[i].id
                      /\ categories'[i].channels \ {move[k].channel} =
                           categories[i].channels \ {move[k].channel}]_(Moves!vars)
  BY WrittenMove
<1> QED
  BY <1>1, <1>2, <1>3, <1>4, PTL
  DEF MCSpec, MovesAreSound, Moves!MovesAreSound, Moves!MovesOneChannel
=============================================================================
