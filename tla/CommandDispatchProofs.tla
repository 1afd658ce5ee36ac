------------------------ MODULE CommandDispatchProofs ------------------------
(***************************************************************************)
(* Proofs about CommandDispatch, for any commands, servers and threads.    *)
(* DispatchInv is inductive; its parts follow in this order: the types,    *)
(* StageInv (where a thread stands says what it has looked up and          *)
(* decided), CooldownInv (the recorded uses are the latest ones),          *)
(* HistoryInv and OutcomeInv.                                              *)
(***************************************************************************)
EXTENDS CommandDispatch, SequenceTheorems, WellFoundedInduction, TLAPS

LEMMA NatHasMinimum ==
  ASSUME NEW S \in SUBSET Nat, S # {}
  PROVE  \E i \in S : \A j \in S : i <= j
<1>1. PICK i \in S : \A j \in S : <<j, i>> \notin OpToRel(<, Nat)
  BY WFMin, NatLessThanWellFounded, Zenon
<1>2. \A j \in S : ~(j < i)
  BY <1>1, Zenon DEF OpToRel
<1> QED
  BY <1>2

(* The lookup of a known word finds a registered command. *)
LEMMA FoundIsRegistered ==
  ASSUME NEW w, Known(w)
  PROVE  /\ FindCommand(w) \in Commands
         /\ \E i \in DOMAIN Registered : FindCommand(w) = Registered[i]
<1> DEFINE S == IF NameMatches(w) # {} THEN NameMatches(w) ELSE AliasMatches(w)
<1>1. S \in SUBSET (DOMAIN Registered) /\ S # {}
  BY DEF Known, NameMatches, AliasMatches
<1>2. DOMAIN Registered \subseteq Nat /\ \A i \in DOMAIN Registered : Registered[i] \in Commands
  BY DispatchConstants
<1>3. \E i \in S : \A j \in S : i <= j
  BY <1>1, <1>2, NatHasMinimum
<1>4. First(S) \in S
  BY <1>3 DEF First
<1>5. FindCommand(w) = Registered[First(S)]
  BY DEF FindCommand
<1> QED
  BY <1>1, <1>2, <1>4, <1>5

(* What the actions of a thread need to know of its command. *)
LEMMA CommandType ==
  ASSUME NEW t \in Thread, content[t] \in Contents, Known(content[t].word)
  PROVE  /\ Command(t).name \in Word
         /\ Command(t).cooldown \in Nat
         /\ Command(t).required \in SUBSET Permission
         /\ Author(t) \in User
         /\ Entry(t) \in Word \X User
<1>1. Command(t) \in Commands
  BY FoundIsRegistered DEF Command
<1>2. Command(t).name \in Word /\ Command(t).cooldown \in Nat
      /\ Command(t).required \in SUBSET Permission
  BY <1>1 DEF Commands
<1>3. Author(t) \in User
  BY DEF Author, Contents
<1> QED
  BY <1>2, <1>3 DEF Entry

LEMMA AfterLookupType ==
  ASSUME NEW c \in Contents
  PROVE  /\ AfterLookup(c) \in {"ignored", "unknown", "limiting", "fetching", "deciding"}
         /\ AfterLookup(c) \notin {"ignored", "unknown"} => Known(c.word)
         /\ AfterLookup(c) = "deciding" => ~c.inServer
         /\ AfterCooldown(c) \in {"fetching", "deciding"}
         /\ AfterCooldown(c) = "deciding" => ~c.inServer
BY DEF AfterLookup, AfterCooldown
-----------------------------------------------------------------------------
(* The types, by what writes the variables.                                *)
WorldType ==
  /\ clock \in Nat \ {0} /\ roles \in [User -> SUBSET Role]
  /\ server \in ServerVersion \cup {NoServer}

LimiterType ==
  /\ last \in [Word \X User -> Nat]
  /\ verdict \in [Thread -> {"none", "granted", "refused"}]
  /\ stamp \in [Thread -> Nat]
  /\ remaining \in [Thread -> Nat]

PlaceType == pc \in [Thread -> PcState] /\ content \in [Thread -> Contents \cup {Unset}]

ThreadType ==
  /\ member \in [Thread -> SUBSET Role]
  /\ bypass \in [Thread -> BOOLEAN]
  /\ caught \in [Thread -> BOOLEAN]
  /\ terminated \in BOOLEAN

OutcomeType ==
  runs \in [Thread -> Nat] /\ reports \in [Thread -> Seq(Reasons)] /\ executed \in Nat

HistoryType ==
  /\ held \in [Thread -> SUBSET SUBSET Role]
  /\ known \in [Thread -> SUBSET (ServerVersion \cup {NoServer})]

LEMMA TypeParts ==
  TypeOK <=> /\ WorldType /\ LimiterType /\ PlaceType
             /\ ThreadType /\ OutcomeType /\ HistoryType
BY DEF TypeOK, WorldType, LimiterType, PlaceType, ThreadType, OutcomeType, HistoryType

(* The steps of a thread, by what they do besides moving it on.            *)
Begins(t) == \E c \in Contents : Receive(t, c) \/ UpdateFetched(t, c)
Limits(t) == PassCooldown(t) \/ RefuseCooldown(t)
Reports(t) == \E reason \in Reasons : Report(t, reason)

(* Steps that change pc alone.                                             *)
Moves(t) ==
  \/ MessageUpdated(t) \/ UpdateLost(t) \/ Deny(t) \/ AllowInServer(t) \/ Return(t)

(* Steps of the bot's handlers and of the permission check.                *)
Decides(t) ==
  \/ Bypass(t) \/ AllowUnrestricted(t) \/ AllowOutsideServer(t) \/ CheckPermission(t)

Fails(t) ==
  (\E threw \in BOOLEAN : FetchFails(t, threw)) \/ \E standard \in BOOLEAN : Throw(t, standard)

Environment ==
  \/ Tick
  \/ \E u \in User, R \in SUBSET Role : ChangeRoles(u, R)
  \/ \E s \in ServerVersion \cup {NoServer} : CacheServer(s)

LEMMA StepCases ==
  ASSUME [Next]_vars
  PROVE  \/ \E t \in Thread : \/ Begins(t) \/ Limits(t) \/ Moves(t)
                              \/ FetchMember(t) \/ Decides(t) \/ Fails(t)
         \/ Environment \/ UNCHANGED vars
BY DEF Next, Advance, Begins, Limits, Moves, Decides, Fails, Environment

(* Who leaves what alone.                                                  *)
LEMMA Untouched ==
  ASSUME NEW t \in Thread
  PROVE  /\ Begins(t) => UNCHANGED <<world, limiter, outcome, member, bypass, caught, terminated>>
         /\ Limits(t) => UNCHANGED <<world, history, outcome, content, member, bypass,
                                     caught, terminated>>
         /\ Moves(t) => UNCHANGED <<world, limiter, history, outcome, content, member,
                                    bypass, caught, terminated>>
         /\ FetchMember(t) => UNCHANGED <<world, limiter, history, outcome, content,
                                          bypass, caught, terminated>>
         /\ Decides(t) => UNCHANGED <<world, limiter, history, content, member,
                                      caught, terminated>>
         /\ Fails(t) => UNCHANGED <<world, limiter, history, content, member, bypass>>
         /\ Environment => UNCHANGED <<limiter, outcome, pc, content, member, bypass,
                                       caught, terminated>>
<1>1. Begins(t) => UNCHANGED <<world, limiter, outcome, member, bypass, caught, terminated>>
  BY DEF Begins, Receive, UpdateFetched
<1>2. Limits(t) => UNCHANGED <<world, history, outcome, content, member, bypass,
                               caught, terminated>>
  BY DEF Limits, PassCooldown, RefuseCooldown
<1>3. Moves(t) => UNCHANGED <<world, limiter, history, outcome, content, member,
                              bypass, caught, terminated>>
  BY DEF Moves, MessageUpdated, UpdateLost, Deny, AllowInServer, Return
<1>4. FetchMember(t) => UNCHANGED <<world, limiter, history, outcome, content,
                                    bypass, caught, terminated>>
  BY DEF FetchMember
<1>5. Decides(t) => UNCHANGED <<world, limiter, history, content, member, caught, terminated>>
  BY DEF Decides, Bypass, AllowUnrestricted, AllowOutsideServer, CheckPermission
<1>6. Fails(t) => UNCHANGED <<world, limiter, history, content, member, bypass>>
  BY DEF Fails, FetchFails, Throw
<1>7. Environment => UNCHANGED <<limiter, outcome, pc, content, member, bypass,
                                 caught, terminated>>
  BY DEF Environment, Tick, ChangeRoles, CacheServer, history
<1> QED
  BY <1>1, <1>2, <1>3, <1>4, <1>5, <1>6, <1>7

(* Where the steps take a thread.                                          *)
LEMMA Places ==
  ASSUME PlaceType, StageInv, NEW t \in Thread
  PROVE  /\ Begins(t) => \E c \in Contents :
              /\ pc[t] \in {"idle", "updating"}
              /\ content' = [content EXCEPT ![t] = c]
              /\ pc' = [pc EXCEPT ![t] = AfterLookup(c)]
         /\ Limits(t) => /\ pc[t] = "limiting"
                         /\ \E p \in {"fetching", "deciding", "cooling"} :
                              pc' = [pc EXCEPT ![t] = p]
         /\ Moves(t) =>
              \/ /\ pc[t] \in {"idle", "updating"}
                 /\ \E p \in {"updating", "lost"} : pc' = [pc EXCEPT ![t] = p]
              \/ /\ pc[t] \in {"deciding", "cooling", "running", "reporting"}
                 /\ \E p \in {"denied", "checking", "cooled", "ran", "reported"} :
                      pc' = [pc EXCEPT ![t] = p]
         /\ FetchMember(t) => pc[t] = "fetching" /\ pc' = [pc EXCEPT ![t] = "deciding"]
         /\ Decides(t) => /\ pc[t] \in {"deciding", "checking"}
                          /\ \E p \in {"running", "reporting"} : pc' = [pc EXCEPT ![t] = p]
         /\ Fails(t) =>
              /\ pc[t] \in {"fetching", "cooling", "deciding", "running", "reporting"}
              /\ \E p \in {"failed", "reporting"} : pc' = [pc EXCEPT ![t] = p]
<1> USE DEF PlaceType
<1>1. ASSUME Begins(t) PROVE \E c \in Contents :
              /\ pc[t] \in {"idle", "updating"}
              /\ content' = [content EXCEPT ![t] = c]
              /\ pc' = [pc EXCEPT ![t] = AfterLookup(c)]
  BY <1>1 DEF Begins, Receive, UpdateFetched, Begin
<1>2. ASSUME Limits(t)
      PROVE  /\ pc[t] = "limiting"
             /\ \E p \in {"fetching", "deciding", "cooling"} : pc' = [pc EXCEPT ![t] = p]
  BY <1>2 DEF Limits, PassCooldown, RefuseCooldown, AfterCooldown
<1>3. ASSUME Moves(t)
      PROVE  \/ /\ pc[t] \in {"idle", "updating"}
                /\ \E p \in {"updating", "lost"} : pc' = [pc EXCEPT ![t] = p]
             \/ /\ pc[t] \in {"deciding", "cooling", "running", "reporting"}
                /\ \E p \in {"denied", "checking", "cooled", "ran", "reported"} :
                     pc' = [pc EXCEPT ![t] = p]
  BY <1>3 DEF Moves, MessageUpdated, UpdateLost, Deny, AllowInServer, Return
<1>4. ASSUME FetchMember(t) PROVE pc[t] = "fetching" /\ pc' = [pc EXCEPT ![t] = "deciding"]
  BY <1>4 DEF FetchMember
<1>5. ASSUME Decides(t)
      PROVE  /\ pc[t] \in {"deciding", "checking"}
             /\ \E p \in {"running", "reporting"} : pc' = [pc EXCEPT ![t] = p]
  BY <1>5 DEF Decides, Bypass, AllowUnrestricted, AllowOutsideServer, CheckPermission,
              Run, Report
<1>6. ASSUME Fails(t)
      PROVE  /\ pc[t] \in {"fetching", "cooling", "deciding", "running", "reporting"}
             /\ \E p \in {"failed", "reporting"} : pc' = [pc EXCEPT ![t] = p]
  BY <1>6 DEF Fails, FetchFails, Throw, Report
<1> QED
  BY <1>1, <1>2, <1>3, <1>4, <1>5, <1>6
-----------------------------------------------------------------------------
(* Each part of the types is kept by every step.                           *)
LEMMA WorldTyped ==
  ASSUME WorldType, [Next]_vars
  PROVE  WorldType'
<1> USE DEF WorldType
<1>1. ASSUME UNCHANGED world PROVE WorldType'
  BY <1>1 DEF world
<1>2. ASSUME Environment PROVE WorldType'
  BY <1>2 DEF Environment, Tick, ChangeRoles, CacheServer
<1>3. ASSUME NEW t \in Thread,
             Begins(t) \/ Limits(t) \/ Moves(t) \/ FetchMember(t) \/ Decides(t) \/ Fails(t)
      PROVE  WorldType'
  BY <1>1, <1>3, Untouched
<1> QED
  BY <1>1, <1>2, <1>3, StepCases DEF vars

LEMMA PlaceTyped ==
  ASSUME PlaceType, StageInv, [Next]_vars
  PROVE  PlaceType'
<1> USE DEF PlaceType
<1>1. ASSUME NEW t \in Thread, NEW p \in PcState, pc' = [pc EXCEPT ![t] = p],
             content' \in [Thread -> Contents \cup {Unset}]
      PROVE  PlaceType'
  BY <1>1
<1>2. ASSUME NEW t \in Thread, Begins(t) PROVE PlaceType'
  <2>1. PICK c \in Contents : /\ content' = [content EXCEPT ![t] = c]
                              /\ pc' = [pc EXCEPT ![t] = AfterLookup(c)]
    BY <1>2, Places
  <2>2. AfterLookup(c) \in PcState
    BY AfterLookupType DEF PcState, Final
  <2> QED
    BY <2>1, <2>2
<1>3. ASSUME NEW t \in Thread,
             Limits(t) \/ Moves(t) \/ FetchMember(t) \/ Decides(t) \/ Fails(t)
      PROVE  PlaceType'
  <2>1. content' = content
    BY <1>3, Untouched
  <2>2. \E p \in PcState : pc' = [pc EXCEPT ![t] = p]
    BY <1>3, Places DEF PcState, Final
  <2> QED
    BY <1>1, <2>1, <2>2
<1>4. ASSUME Environment \/ UNCHANGED vars PROVE PlaceType'
  BY <1>4 DEF vars, Environment, Tick, ChangeRoles, CacheServer
<1> QED
  BY <1>2, <1>3, <1>4, StepCases

(* A thread that looked its command up has one. *)
LEMMA HasCommand ==
  ASSUME PlaceType, StageInv, NEW t \in Thread,
         pc[t] \notin {"idle", "updating", "lost", "ignored", "unknown"}
  PROVE  /\ content[t] \in Contents /\ Known(content[t].word)
         /\ Command(t).name \in Word
         /\ Command(t).cooldown \in Nat
         /\ Command(t).required \in SUBSET Permission
         /\ Author(t) \in User
         /\ Entry(t) \in Word \X User
<1>1. content[t] \in Contents /\ Known(content[t].word)
  BY DEF PlaceType, StageInv
<1> QED
  BY <1>1, CommandType

(* The seconds of a refusal. *)
LEMMA Seconds ==
  ASSUME NEW a \in Nat, NEW b \in Nat, b <= a
  PROVE  /\ (a - b) \div TicksPerSecond \in Nat
         /\ TicksPerSecond * ((a - b) \div TicksPerSecond) <= a - b
         /\ a - b < TicksPerSecond * ((a - b) \div TicksPerSecond) + TicksPerSecond
BY DispatchConstants

LEMMA LimiterTyped ==
  ASSUME WorldType, PlaceType, StageInv, CooldownInv, LimiterType, [Next]_vars
  PROVE  LimiterType'
<1> USE DEF LimiterType
<1>1. ASSUME UNCHANGED limiter PROVE LimiterType'
  BY <1>1 DEF limiter
<1>2. ASSUME NEW t \in Thread, PassCooldown(t) PROVE LimiterType'
  <2>1. Entry(t) \in Word \X User
    BY <1>2, HasCommand DEF PassCooldown
  <2> QED
    BY <1>2, <2>1 DEF PassCooldown, WorldType
<1>3. ASSUME NEW t \in Thread, RefuseCooldown(t) PROVE LimiterType'
  <2>1. Entry(t) \in Word \X User /\ Command(t).cooldown \in Nat
    BY <1>3, HasCommand DEF RefuseCooldown
  <2>2. Elapsed(t) \in Nat
    BY <2>1, Seconds DEF Elapsed, CooldownInv, WorldType
  <2>3. Command(t).cooldown - Elapsed(t) \in Nat
    BY <1>3, <2>1, <2>2 DEF RefuseCooldown, CoolingDown
  <2> QED
    BY <1>3, <2>3 DEF RefuseCooldown, WorldType
<1>4. ASSUME NEW t \in Thread,
             Begins(t) \/ Moves(t) \/ FetchMember(t) \/ Decides(t) \/ Fails(t)
      PROVE  LimiterType'
  BY <1>1, <1>4, Untouched
<1>5. ASSUME Environment \/ UNCHANGED vars PROVE LimiterType'
  BY <1>1, <1>5 DEF vars, Environment, Tick, ChangeRoles, CacheServer
<1> QED
  BY <1>2, <1>3, <1>4, <1>5, StepCases DEF Limits

LEMMA ThreadTyped ==
  ASSUME WorldType, PlaceType, StageInv, ThreadType, [Next]_vars
  PROVE  ThreadType'
<1> USE DEF ThreadType
<1>1. ASSUME UNCHANGED <<member, bypass, caught, terminated>> PROVE ThreadType'
  BY <1>1
<1>2. ASSUME NEW t \in Thread, FetchMember(t) PROVE ThreadType'
  <2>1. Author(t) \in User
    BY <1>2, HasCommand DEF FetchMember
  <2> QED
    BY <1>2, <2>1 DEF FetchMember, WorldType
<1>3. ASSUME NEW t \in Thread, Bypass(t) PROVE ThreadType'
  BY <1>3 DEF Bypass
<1>4. ASSUME NEW t \in Thread, AllowUnrestricted(t) \/ AllowOutsideServer(t) \/ CheckPermission(t)
      PROVE  ThreadType'
  BY <1>1, <1>4 DEF AllowUnrestricted, AllowOutsideServer, CheckPermission
<1>5. ASSUME NEW t \in Thread, NEW threw \in BOOLEAN, FetchFails(t, threw) PROVE ThreadType'
  BY <1>5 DEF FetchFails
<1>6. ASSUME NEW t \in Thread, NEW standard \in BOOLEAN, Throw(t, standard) PROVE ThreadType'
  <2>1. content[t].inServer \in BOOLEAN
    <3>1. content[t] \in Contents
      BY <1>6, HasCommand DEF Throw
    <3> QED
      BY <3>1, DispatchConstants DEF Contents
  <2> QED
    BY <1>6, <2>1 DEF Throw
<1>7. ASSUME NEW t \in Thread, Begins(t) \/ Limits(t) \/ Moves(t) PROVE ThreadType'
  BY <1>1, <1>7, Untouched
<1>8. ASSUME Environment \/ UNCHANGED vars PROVE ThreadType'
  BY <1>1, <1>8 DEF vars, Environment, Tick, ChangeRoles, CacheServer
<1> QED
  BY <1>2, <1>3, <1>4, <1>5, <1>6, <1>7, <1>8, StepCases DEF Decides, Fails

(* The steps that change the outcome of a thread run the command, report   *)
(* once, or end without either.                                            *)
LEMMA Outcomes ==
  ASSUME NEW t \in Thread, Decides(t) \/ Fails(t)
  PROVE  Run(t) \/ Reports(t) \/ UNCHANGED outcome
<1> USE DEF Reports, Reasons
<1>1. ASSUME Decides(t) PROVE Run(t) \/ Reports(t)
  BY <1>1 DEF Decides, Bypass, AllowUnrestricted, AllowOutsideServer, CheckPermission
<1>2. ASSUME Fails(t) PROVE Reports(t) \/ UNCHANGED outcome
  BY <1>2 DEF Fails, FetchFails, Throw
<1> QED
  BY <1>1, <1>2

LEMMA OutcomeTyped ==
  ASSUME OutcomeType, [Next]_vars
  PROVE  OutcomeType'
<1> USE DEF OutcomeType
<1>1. ASSUME UNCHANGED outcome PROVE OutcomeType'
  BY <1>1 DEF outcome
<1>2. ASSUME NEW t \in Thread, Run(t) PROVE OutcomeType'
  BY <1>2 DEF Run
<1>3. ASSUME NEW t \in Thread, Reports(t) PROVE OutcomeType'
  <2>1. PICK reason \in Reasons : Report(t, reason)
    BY <1>3 DEF Reports
  <2>2. Append(reports[t], reason) \in Seq(Reasons)
    OBVIOUS
  <2> QED
    BY <2>1, <2>2 DEF Report
<1>4. ASSUME NEW t \in Thread, Begins(t) \/ Limits(t) \/ Moves(t) \/ FetchMember(t)
      PROVE  OutcomeType'
  BY <1>1, <1>4, Untouched
<1>5. ASSUME Environment \/ UNCHANGED vars PROVE OutcomeType'
  BY <1>1, <1>5 DEF vars, Environment, Tick, ChangeRoles, CacheServer
<1> QED
  BY <1>1, <1>2, <1>3, <1>4, <1>5, StepCases, Outcomes

LEMMA HistoryTyped ==
  ASSUME WorldType, HistoryType, [Next]_vars
  PROVE  HistoryType'
<1> USE DEF HistoryType
<1>1. ASSUME UNCHANGED history PROVE HistoryType'
  BY <1>1 DEF history
<1>2. ASSUME NEW t \in Thread, NEW c \in Contents, Begin(t, c) PROVE HistoryType'
  <2>1. roles[c.author] \in SUBSET Role
    BY DEF WorldType, Contents
  <2> QED
    BY <1>2, <2>1 DEF Begin, WorldType
<1>3. ASSUME NEW u \in User, NEW R \in SUBSET Role, ChangeRoles(u, R) PROVE HistoryType'
  BY <1>3 DEF ChangeRoles
<1>4. ASSUME NEW x \in ServerVersion \cup {NoServer}, CacheServer(x) PROVE HistoryType'
  BY <1>4 DEF CacheServer
<1>5. ASSUME NEW t \in Thread, Begins(t) PROVE HistoryType'
  BY <1>2, <1>5 DEF Begins, Receive, UpdateFetched
<1>6. ASSUME NEW t \in Thread,
             Limits(t) \/ Moves(t) \/ FetchMember(t) \/ Decides(t) \/ Fails(t)
      PROVE  HistoryType'
  BY <1>1, <1>6, Untouched
<1>7. ASSUME Tick \/ UNCHANGED vars PROVE HistoryType'
  BY <1>1, <1>7 DEF vars, Tick
<1> QED
  BY <1>3, <1>4, <1>5, <1>6, <1>7, StepCases DEF Environment
-----------------------------------------------------------------------------
LEMMA StageKept ==
  ASSUME WorldType, PlaceType, LimiterType, StageInv, [Next]_vars
  PROVE  StageInv'
<1> USE DEF WorldType, PlaceType, LimiterType, Never
<1>1. ASSUME NEW t \in Thread, Begins(t) PROVE StageInv'
  <2>1. PICK c \in Contents : /\ pc[t] \in {"idle", "updating"}
                              /\ content' = [content EXCEPT ![t] = c]
                              /\ pc' = [pc EXCEPT ![t] = AfterLookup(c)]
    BY <1>1, Places
  <2>2. verdict' = verdict /\ stamp' = stamp
    BY <1>1, Untouched DEF limiter
  <2>3. c # Unset
    BY UnsetIsNew
  <2> QED
    BY <2>1, <2>2, <2>3, AfterLookupType DEF StageInv
<1>2. ASSUME NEW t \in Thread, Limits(t) PROVE StageInv'
  <2>1. content' = content
    BY <1>2, Untouched
  <2>2. PICK v \in {"granted", "refused"}, p \in {"fetching", "deciding", "cooling"} :
          /\ pc[t] = "limiting"
          /\ verdict' = [verdict EXCEPT ![t] = v]
          /\ stamp' = [stamp EXCEPT ![t] = clock]
          /\ pc' = [pc EXCEPT ![t] = p]
    BY <1>2 DEF Limits, PassCooldown, RefuseCooldown, AfterCooldown
  <2> QED
    BY <2>1, <2>2 DEF StageInv
<1>3. ASSUME NEW t \in Thread, Moves(t) \/ FetchMember(t) \/ Decides(t) \/ Fails(t)
      PROVE  StageInv'
  <2>1. content' = content /\ verdict' = verdict /\ stamp' = stamp
    BY <1>3, Untouched DEF limiter
  <2>2. \/ /\ pc[t] \in {"idle", "updating"}
           /\ \E p \in {"updating", "lost"} : pc' = [pc EXCEPT ![t] = p]
        \/ /\ pc[t] \in {"fetching", "deciding", "checking", "cooling", "running", "reporting"}
           /\ \E p \in {"denied", "checking", "cooled", "ran", "reported", "deciding",
                        "running", "reporting", "failed"} : pc' = [pc EXCEPT ![t] = p]
    BY <1>3, Places
  <2> QED
    BY <2>1, <2>2 DEF StageInv
<1>4. ASSUME Environment \/ UNCHANGED vars PROVE StageInv'
  <2>1. UNCHANGED <<content, verdict, stamp, pc>>
    BY <1>4, Untouched DEF vars, limiter, Environment, Tick, ChangeRoles, CacheServer
  <2> QED
    BY <2>1 DEF StageInv
<1> QED
  BY <1>1, <1>2, <1>3, <1>4, StepCases

(* The entry of a thread that was decided does not change any more. *)
LEMMA EntryKept ==
  ASSUME PlaceType, StageInv, [Next]_vars, NEW t \in Thread, verdict[t] # "none"
  PROVE  content'[t] = content[t] /\ Entry(t)' = Entry(t) /\ Command(t)' = Command(t)
<1>1. content'[t] = content[t]
  <2>1. ASSUME NEW u \in Thread, Begins(u) PROVE content'[t] = content[t]
    <3>1. u # t
      BY <2>1, Places DEF StageInv
    <3> QED
      BY <2>1, <3>1, Places DEF PlaceType
  <2>2. ASSUME NEW u \in Thread,
               Limits(u) \/ Moves(u) \/ FetchMember(u) \/ Decides(u) \/ Fails(u)
        PROVE  content'[t] = content[t]
    BY <2>2, Untouched
  <2>3. ASSUME Environment \/ UNCHANGED vars PROVE content'[t] = content[t]
    BY <2>3 DEF vars, Environment, Tick, ChangeRoles, CacheServer
  <2> QED
    BY <2>1, <2>2, <2>3, StepCases
<1> QED
  BY <1>1 DEF Entry, Command, Author

(* A decision stays, and so does its time. *)
LEMMA DecisionKept ==
  ASSUME LimiterType, StageInv, [Next]_vars, NEW t \in Thread, verdict[t] # "none"
  PROVE  verdict'[t] = verdict[t] /\ stamp'[t] = stamp[t] /\ remaining'[t] = remaining[t]
<1> USE DEF LimiterType
<1>1. ASSUME NEW u \in Thread, Limits(u)
      PROVE  verdict'[t] = verdict[t] /\ stamp'[t] = stamp[t] /\ remaining'[t] = remaining[t]
  <2>1. u # t
    BY <1>1 DEF Limits, PassCooldown, RefuseCooldown, StageInv
  <2> QED
    BY <1>1, <2>1 DEF Limits, PassCooldown, RefuseCooldown
<1>2. ASSUME NEW u \in Thread,
             Begins(u) \/ Moves(u) \/ FetchMember(u) \/ Decides(u) \/ Fails(u)
      PROVE  UNCHANGED limiter
  BY <1>2, Untouched
<1>3. ASSUME Environment \/ UNCHANGED vars PROVE UNCHANGED limiter
  BY <1>3 DEF vars, Environment, Tick, ChangeRoles, CacheServer
<1> QED
  BY <1>1, <1>2, <1>3, StepCases DEF limiter

LEMMA CooldownKept ==
  ASSUME WorldType, PlaceType, LimiterType, StageInv, CooldownInv, [Next]_vars
  PROVE  CooldownInv'
<1> USE DEF WorldType, LimiterType
<1>1. clock' \in Nat /\ clock <= clock'
  <2>1. ASSUME NEW t \in Thread,
               Begins(t) \/ Limits(t) \/ Moves(t) \/ FetchMember(t) \/ Decides(t) \/ Fails(t)
        PROVE  clock' = clock
    BY <2>1, Untouched DEF world
  <2> QED
    BY <2>1, StepCases DEF vars, world, Environment, Tick, ChangeRoles, CacheServer
<1>2. ASSUME NEW t \in Thread, PassCooldown(t) PROVE CooldownInv'
  <2>1. Entry(t) \in Word \X User /\ verdict[t] = "none"
    BY <1>2, HasCommand DEF PassCooldown, StageInv
  <2>2. /\ last' = [last EXCEPT ![Entry(t)] = clock] /\ clock' = clock
        /\ verdict' = [verdict EXCEPT ![t] = "granted"]
        /\ stamp' = [stamp EXCEPT ![t] = clock]
    BY <1>2 DEF PassCooldown, world
  <2>3. \A q \in Thread : Entry(q)' = Entry(q)
    BY <1>2 DEF PassCooldown, Entry, Command, Author
  <2>4. \A k \in Word \X User : last'[k] <= clock'
    BY <2>1, <2>2 DEF CooldownInv
  <2>5. \A q \in Thread : verdict'[q] = "granted" => stamp'[q] <= last'[Entry(q)]
    <3>1. TAKE q \in Thread
    <3>2. CASE q = t
      BY <2>1, <2>2, <3>2
    <3>3. ASSUME q # t, verdict[q] = "granted" PROVE stamp[q] <= last'[Entry(q)]
      <4>1. Entry(q) \in Word \X User
        BY <3>3, HasCommand DEF StageInv, PlaceType
      <4>2. stamp[q] <= last[Entry(q)] /\ last[Entry(q)] <= clock
        BY <3>3, <4>1 DEF CooldownInv
      <4> QED
        BY <2>1, <2>2, <4>1, <4>2
    <3> QED
      BY <2>2, <3>2, <3>3
  <2>6. ASSUME NEW k \in Word \X User, last'[k] # Never
        PROVE  \E q \in Thread : verdict'[q] = "granted" /\ Entry(q) = k /\ stamp'[q] = last'[k]
    <3>1. CASE k = Entry(t)
      BY <2>1, <2>2, <3>1
    <3>2. CASE k # Entry(t)
      <4>1. last'[k] = last[k]
        BY <2>1, <2>2, <3>2
      <4>2. PICK q \in Thread : verdict[q] = "granted" /\ Entry(q) = k /\ stamp[q] = last[k]
        BY <2>6, <4>1 DEF CooldownInv
      <4> QED
        BY <2>1, <2>2, <4>1, <4>2
    <3> QED
      BY <3>1, <3>2
  <2> QED
    BY <2>3, <2>4, <2>5, <2>6 DEF CooldownInv
<1>3. ASSUME last' = last, \A t \in Thread : verdict'[t] = "granted" <=> verdict[t] = "granted"
      PROVE  CooldownInv'
  <2>1. \A k \in Word \X User : last'[k] <= clock'
    BY <1>1, <1>3 DEF CooldownInv
  <2>2. \A t \in Thread : verdict[t] = "granted" => stamp'[t] = stamp[t] /\ Entry(t)' = Entry(t)
    BY DecisionKept, EntryKept
  <2> QED
    BY <1>3, <2>1, <2>2 DEF CooldownInv
<1>4. ASSUME NEW t \in Thread, RefuseCooldown(t) PROVE CooldownInv'
  <2>1. verdict[t] = "none"
    BY <1>4 DEF RefuseCooldown, StageInv
  <2> QED
    BY <1>3, <1>4, <2>1 DEF RefuseCooldown
<1>5. ASSUME NEW t \in Thread,
             Begins(t) \/ Moves(t) \/ FetchMember(t) \/ Decides(t) \/ Fails(t)
      PROVE  CooldownInv'
  BY <1>3, <1>5, Untouched DEF limiter
<1>6. ASSUME Environment \/ UNCHANGED vars PROVE CooldownInv'
  BY <1>3, <1>6 DEF vars, limiter, Environment, Tick, ChangeRoles, CacheServer
<1> QED
  BY <1>2, <1>4, <1>5, <1>6, StepCases DEF Limits
-----------------------------------------------------------------------------
LEMMA HistoryKept ==
  ASSUME WorldType, PlaceType, HistoryType, ThreadType, StageInv, HistoryInv, [Next]_vars
  PROVE  HistoryInv'
<1> USE DEF PlaceType, HistoryType, ThreadType
<1>1. ASSUME NEW t \in Thread, Begins(t) PROVE HistoryInv'
  <2>1. PICK c \in Contents : /\ content' = [content EXCEPT ![t] = c]
                              /\ pc' = [pc EXCEPT ![t] = AfterLookup(c)]
                              /\ held' = [held EXCEPT ![t] = {roles[c.author]}]
                              /\ known' = [known EXCEPT ![t] = {server}]
    BY <1>1 DEF Begins, Receive, UpdateFetched, Begin
  <2>2. roles' = roles /\ server' = server /\ member' = member
    BY <1>1, Untouched DEF world
  <2>3. AfterLookup(c) # "checking" /\ (AfterLookup(c) = "deciding" => ~c.inServer)
    BY AfterLookupType
  <2> QED
    BY <2>1, <2>2, <2>3 DEF HistoryInv, Active, Author
<1>2. ASSUME NEW t \in Thread, NEW p \in PcState \ {"deciding", "checking"},
             pc' = [pc EXCEPT ![t] = p], pc[t] \notin Final,
             UNCHANGED <<world, history, content, member>>
      PROVE  HistoryInv'
  BY <1>2 DEF HistoryInv, Active, Author, world, history
<1>3. ASSUME NEW t \in Thread, Limits(t) PROVE HistoryInv'
  <2>1. UNCHANGED <<world, history, content, member>>
    BY <1>3, Untouched
  <2>2. \E p \in {"fetching", "cooling"} : pc' = [pc EXCEPT ![t] = p]
        \/ (~content[t].inServer /\ pc' = [pc EXCEPT ![t] = "deciding"])
    BY <1>3 DEF Limits, PassCooldown, RefuseCooldown, AfterCooldown
  <2>3. pc[t] = "limiting"
    BY <1>3, Places
  <2> QED
    BY <2>1, <2>2, <2>3 DEF HistoryInv, Active, Author, world, history, Final
<1>4. ASSUME NEW t \in Thread, AllowInServer(t) PROVE HistoryInv'
  BY <1>4 DEF AllowInServer, HistoryInv, Active, Author, world, history, Final
<1>5. ASSUME NEW t \in Thread, MessageUpdated(t) \/ UpdateLost(t) \/ Deny(t) \/ Return(t)
      PROVE  HistoryInv'
  <2>1. UNCHANGED <<world, history, content, member>>
    BY <1>5 DEF MessageUpdated, UpdateLost, Deny, Return
  <2>2. /\ pc[t] \notin Final
        /\ \E p \in PcState \ {"deciding", "checking"} : pc' = [pc EXCEPT ![t] = p]
    BY <1>5 DEF MessageUpdated, UpdateLost, Deny, Return, Final, PcState
  <2> QED
    BY <1>2, <2>1, <2>2
<1>6. ASSUME NEW t \in Thread, FetchMember(t) PROVE HistoryInv'
  <2>1. content[t] # Unset
    BY <1>6 DEF FetchMember, StageInv
  <2>2. roles[Author(t)] \in held[t]
    BY <1>6, <2>1 DEF FetchMember, HistoryInv, Active, Final
  <2> QED
    BY <1>6, <2>1, <2>2 DEF FetchMember, HistoryInv, Active, Author, world, history, Final
<1>7. ASSUME NEW t \in Thread, Decides(t) \/ Fails(t) PROVE HistoryInv'
  <2>1. UNCHANGED <<world, history, content, member>>
    BY <1>7, Untouched
  <2>2. /\ pc[t] \notin Final
        /\ \E p \in PcState \ {"deciding", "checking"} : pc' = [pc EXCEPT ![t] = p]
    BY <1>7, Places DEF Final, PcState
  <2> QED
    BY <1>2, <2>1, <2>2
<1>8. ASSUME NEW u \in User, NEW R \in SUBSET Role, ChangeRoles(u, R) PROVE HistoryInv'
  <2>1. UNCHANGED <<pc, content, member, server, known>>
    BY <1>8 DEF ChangeRoles
  <2>2. \A t \in Thread :
          /\ held[t] \subseteq held'[t]
          /\ Active(t) /\ Author(t) = u => R \in held'[t]
    BY <1>8 DEF ChangeRoles
  <2>3. \A v \in User : v # u => roles'[v] = roles[v]
    BY <1>8 DEF ChangeRoles, WorldType
  <2>4. roles'[u] = R
    BY <1>8 DEF ChangeRoles, WorldType
  <2>5. \A t \in Thread : Active(t) => Author(t) \in User
    BY DEF Active, Author, Contents
  <2> QED
    BY <2>1, <2>2, <2>3, <2>4, <2>5 DEF HistoryInv, Active, Author
<1>9. ASSUME NEW x \in ServerVersion \cup {NoServer}, CacheServer(x) PROVE HistoryInv'
  BY <1>9 DEF CacheServer, HistoryInv, Active, Author
<1>10. ASSUME Tick \/ UNCHANGED vars PROVE HistoryInv'
  BY <1>10 DEF Tick, vars, world, history, HistoryInv, Active, Author
<1> QED
  BY <1>1, <1>3, <1>4, <1>5, <1>6, <1>7, <1>8, <1>9, <1>10, StepCases
  DEF Moves, Environment

LEMMA OutcomeKept ==
  ASSUME PlaceType, ThreadType, OutcomeType, StageInv, OutcomeInv, [Next]_vars
  PROVE  OutcomeInv'
<1> USE DEF PlaceType, ThreadType, OutcomeType
<1>1. ASSUME NEW t \in Thread, UNCHANGED <<outcome, caught>>,
             NEW p \in PcState \ {"running"}, pc' = [pc EXCEPT ![t] = p],
             \/ /\ pc[t] \notin {"running", "ran", "reporting", "reported", "failed"}
                /\ p # "reporting"
             \/ p \in {"ran", "reported", "failed"}
      PROVE  OutcomeInv'
  BY <1>1 DEF OutcomeInv, outcome
<1>2. ASSUME NEW t \in Thread, Begins(t) PROVE OutcomeInv'
  <2>1. PICK c \in Contents :
          pc[t] \in {"idle", "updating"} /\ pc' = [pc EXCEPT ![t] = AfterLookup(c)]
    BY <1>2, Places
  <2>2. AfterLookup(c) \in PcState \ {"running", "reporting"}
    BY AfterLookupType DEF PcState, Final
  <2> QED
    BY <1>1, <1>2, <2>1, <2>2, Untouched
<1>3. ASSUME NEW t \in Thread, Limits(t) PROVE OutcomeInv'
  <2>1. pc[t] = "limiting"
        /\ \E p \in PcState \ {"running", "reporting"} : pc' = [pc EXCEPT ![t] = p]
    BY <1>3, Places DEF PcState, Final
  <2> QED
    BY <1>1, <1>3, <2>1, Untouched
<1>4. ASSUME NEW t \in Thread, Moves(t) \/ FetchMember(t) PROVE OutcomeInv'
  <2>1. \/ /\ pc[t] \in {"idle", "updating", "fetching", "deciding"}
           /\ \E p \in PcState \ {"running", "reporting"} : pc' = [pc EXCEPT ![t] = p]
        \/ /\ pc[t] \in {"cooling", "running", "reporting"}
           /\ \E p \in {"cooled", "ran", "reported"} :
                /\ p = "cooled" => pc[t] = "cooling"
                /\ pc' = [pc EXCEPT ![t] = p]
    BY <1>4 DEF Moves, MessageUpdated, UpdateLost, Deny, AllowInServer, Return, FetchMember,
                PcState, Final
  <2>2. UNCHANGED <<outcome, caught>>
    BY <1>4, Untouched
  <2> QED
    BY <1>1, <2>1, <2>2 DEF PcState, Final
<1>5. ASSUME NEW t \in Thread, Decides(t) PROVE OutcomeInv'
  <2>1. caught' = caught
    BY <1>5, Untouched
  <2>2. runs[t] = 0 /\ reports[t] = <<>> /\ ~caught[t]
    BY <1>5, Places DEF OutcomeInv
  <2>3. Run(t) \/ Reports(t)
    BY <1>5 DEF Decides, Bypass, AllowUnrestricted, AllowOutsideServer, CheckPermission,
                Reports, Reasons
  <2> QED
    BY <2>1, <2>2, <2>3 DEF OutcomeInv, Run, Reports, Report
<1>6. ASSUME NEW t \in Thread, NEW threw \in BOOLEAN, FetchFails(t, threw) PROVE OutcomeInv'
  BY <1>6 DEF FetchFails, Report, OutcomeInv
<1>7. ASSUME NEW t \in Thread, NEW standard \in BOOLEAN, Throw(t, standard) PROVE OutcomeInv'
  <2>1. CASE pc[t] # "cooling" /\ content[t].inServer /\ ~caught[t]
    <3>1. caught' = [caught EXCEPT ![t] = TRUE] /\ Report(t, "member_fetch_failed")
      BY <1>7, <2>1 DEF Throw
    <3> QED
      BY <3>1 DEF Report, OutcomeInv
  <2>2. CASE ~(pc[t] # "cooling" /\ content[t].inServer /\ ~caught[t])
    <3>1. UNCHANGED <<outcome, caught>> /\ pc' = [pc EXCEPT ![t] = "failed"]
      BY <1>7, <2>2 DEF Throw
    <3> QED
      BY <1>1, <3>1 DEF PcState, Final
  <2> QED
    BY <2>1, <2>2
<1>8. ASSUME Environment \/ UNCHANGED vars PROVE OutcomeInv'
  <2>1. UNCHANGED <<pc, outcome, caught>>
    BY <1>8 DEF vars, Environment, Tick, ChangeRoles, CacheServer
  <2> QED
    BY <2>1 DEF OutcomeInv, outcome
<1> QED
  BY <1>2, <1>3, <1>4, <1>5, <1>6, <1>7, <1>8, StepCases DEF Fails

LEMMA Initially == Init => DispatchInv
<1> SUFFICES ASSUME Init PROVE DispatchInv
  OBVIOUS
<1> USE DEF Init, Never
<1>1. TypeOK
  <2>1. WorldType /\ PlaceType
    BY DEF WorldType, PlaceType, PcState
  <2>2. LimiterType /\ ThreadType
    BY DEF LimiterType, ThreadType
  <2>3. OutcomeType
    BY DEF OutcomeType
  <2>4. HistoryType
    BY DEF HistoryType
  <2> QED
    BY <2>1, <2>2, <2>3, <2>4, TypeParts
<1>2. StageInv
  BY DEF StageInv
<1>3. CooldownInv
  BY DEF CooldownInv
<1>4. HistoryInv
  BY DEF HistoryInv, Active
<1>5. OutcomeInv
  BY DEF OutcomeInv
<1> QED
  BY <1>1, <1>2, <1>3, <1>4, <1>5 DEF DispatchInv

(* The strengthening is inductive. *)
LEMMA Inductive == DispatchInv /\ [Next]_vars => DispatchInv'
<1> SUFFICES ASSUME DispatchInv, [Next]_vars PROVE DispatchInv'
  OBVIOUS
<1>1. /\ WorldType /\ LimiterType /\ PlaceType /\ ThreadType /\ OutcomeType /\ HistoryType
      /\ StageInv /\ CooldownInv /\ HistoryInv /\ OutcomeInv
  BY TypeParts DEF DispatchInv
<1>2. WorldType' /\ OutcomeType' /\ HistoryType'
  BY <1>1, WorldTyped, OutcomeTyped, HistoryTyped
<1>3. LimiterType' /\ PlaceType' /\ ThreadType'
  BY <1>1, LimiterTyped, PlaceTyped, ThreadTyped
<1>4. TypeOK'
  BY <1>2, <1>3 DEF TypeOK, WorldType, LimiterType, PlaceType, ThreadType, OutcomeType,
                    HistoryType
<1>5. StageInv' /\ CooldownInv' /\ HistoryInv' /\ OutcomeInv'
  BY <1>1, StageKept, CooldownKept, HistoryKept, OutcomeKept
<1> QED
  BY <1>4, <1>5 DEF DispatchInv

(* What a thread has found and checked goes with the stage it is at, as    *)
(* DispatchInv says, in every state of dispatch_command.                   *)
THEOREM AlwaysDispatchInv == Spec => []DispatchInv
BY Initially, Inductive, PTL DEF Spec

(* Every variable of the dispatch keeps its type; in particular the        *)
(* seconds a refusal reports are a natural number.                         *)
THEOREM DispatchTypeCorrect == Spec => []TypeOK
<1>1. DispatchInv => TypeOK
  BY DEF DispatchInv
<1> QED
  BY <1>1, AlwaysDispatchInv, PTL
-----------------------------------------------------------------------------
(* What a thread that ran keeps: its message, and the histories grow.      *)
LEMMA RunKept ==
  ASSUME PlaceType, HistoryType, StageInv, OutcomeInv, [Next]_vars,
         NEW t \in Thread, runs[t] > 0
  PROVE  /\ Author(t)' = Author(t) /\ Command(t)' = Command(t)
         /\ held[t] \subseteq held'[t] /\ known[t] \subseteq known'[t]
<1> USE DEF PlaceType, HistoryType
<1>1. ASSUME NEW u \in Thread, Begins(u)
      PROVE  /\ content'[t] = content[t]
             /\ held[t] \subseteq held'[t] /\ known[t] \subseteq known'[t]
  <2>1. u # t
    BY <1>1, Places DEF OutcomeInv
  <2> QED
    BY <1>1, <2>1 DEF Begins, Receive, UpdateFetched, Begin
<1>2. ASSUME NEW u \in Thread,
             Limits(u) \/ Moves(u) \/ FetchMember(u) \/ Decides(u) \/ Fails(u)
      PROVE  UNCHANGED <<content, history>>
  BY <1>2, Untouched
<1>3. ASSUME Environment
      PROVE  /\ content' = content
             /\ held[t] \subseteq held'[t] /\ known[t] \subseteq known'[t]
  BY <1>3 DEF Environment, Tick, ChangeRoles, CacheServer, history
<1>4. ASSUME UNCHANGED vars PROVE UNCHANGED <<content, history>>
  BY <1>4 DEF vars
<1>5. /\ content'[t] = content[t]
      /\ held[t] \subseteq held'[t] /\ known[t] \subseteq known'[t]
  BY <1>1, <1>2, <1>3, <1>4, StepCases DEF history
<1> QED
  BY <1>5 DEF Author, Command

LEMMA AuthorisedKept ==
  DispatchInv /\ RunIsAuthorised /\ [Next]_vars => RunIsAuthorised'
<1> SUFFICES ASSUME DispatchInv, RunIsAuthorised, [Next]_vars,
                    NEW t \in Thread, runs'[t] > 0, ~bypass'[t], Command(t)'.required # {}
             PROVE  \E s \in known'[t] \ {NoServer}, R \in held'[t] :
                      HasPermission(s, Author(t)', R, Command(t)'.required)
  BY DEF RunIsAuthorised
<1> USE DEF DispatchInv
<1>1. WorldType /\ PlaceType /\ ThreadType /\ OutcomeType /\ HistoryType
  BY TypeParts
<1>2. CASE runs[t] > 0 /\ ~bypass[t]
  <2>1. /\ Author(t)' = Author(t) /\ Command(t)' = Command(t)
        /\ held[t] \subseteq held'[t] /\ known[t] \subseteq known'[t]
    BY <1>1, <1>2, RunKept
  <2>2. PICK s \in known[t] \ {NoServer}, R \in held[t] :
          HasPermission(s, Author(t), R, Command(t).required)
    BY <1>2, <2>1 DEF RunIsAuthorised
  <2> QED
    BY <2>1, <2>2
<1>3. CASE ~(runs[t] > 0 /\ ~bypass[t])
  <2>1. ASSUME NEW u \in Thread, UNCHANGED outcome \/ Reports(u), UNCHANGED bypass PROVE FALSE
    BY <1>3, <2>1 DEF Reports, Report, outcome
  <2>2. ASSUME NEW u \in Thread,
               Begins(u) \/ Limits(u) \/ Moves(u) \/ FetchMember(u) \/ Fails(u)
        PROVE  FALSE
    <3>1. UNCHANGED bypass
      BY <2>2, Untouched
    <3>2. UNCHANGED outcome \/ Reports(u)
      BY <2>2, Untouched DEF Fails, FetchFails, Throw, Reports, Reasons
    <3> QED
      BY <2>1, <3>1, <3>2
  <2>3. ASSUME Environment \/ UNCHANGED vars PROVE FALSE
    BY <2>1, <2>3 DEF vars, Environment, Tick, ChangeRoles, CacheServer
  <2>4. PICK u \in Thread : Decides(u)
    BY <2>2, <2>3, StepCases
  <2>5. UNCHANGED <<content, history>>
    BY <2>4, Untouched
  <2>6. Author(t)' = Author(t) /\ Command(t)' = Command(t) /\ UNCHANGED <<held, known>>
    BY <2>5 DEF Author, Command, history
  <2>7. CASE Bypass(u)
    BY <1>1, <1>3, <2>7 DEF Bypass, Run, ThreadType, OutcomeType
  <2>8. CASE AllowOutsideServer(u)
    BY <2>1, <2>8 DEF AllowOutsideServer, Reports, Reasons
  <2>9. CASE AllowUnrestricted(u)
    BY <1>1, <1>3, <2>6, <2>9 DEF AllowUnrestricted, Run, OutcomeType
  <2>10. CASE CheckPermission(u)
    <3>1. u = t /\ Run(t)
      BY <1>1, <1>3, <2>10 DEF CheckPermission, Report, Run, OutcomeType
    <3>2. /\ pc[t] = "checking" /\ server # NoServer
          /\ HasPermission(server, Author(t), member[t], Command(t).required)
      BY <2>10, <3>1, <1>1, <1>3 DEF CheckPermission, Report, OutcomeType
    <3>3. content[t] # Unset
      BY <3>2 DEF StageInv
    <3>4. server \in known[t] /\ member[t] \in held[t]
      BY <3>2, <3>3 DEF HistoryInv, Active, Final
    <3> QED
      BY <2>6, <3>2, <3>4
  <2> QED
    BY <2>4, <2>7, <2>8, <2>9, <2>10 DEF Decides
<1> QED
  BY <1>2, <1>3

(* No restricted command runs unless the handler bypassed the check or     *)
(* its author had the permissions: for any commands, roles and servers,    *)
(* whatever changes or throws meanwhile.                                   *)
THEOREM NothingRunsUnauthorised == Spec => []RunIsAuthorised
<1>1. Init => RunIsAuthorised
  BY DEF Init, RunIsAuthorised
<1> QED
  BY <1>1, AuthorisedKept, AlwaysDispatchInv, PTL DEF Spec
-----------------------------------------------------------------------------
LEMMA OneOutcomeKept == DispatchInv /\ OneOutcome /\ [Next]_vars => OneOutcome'
<1> SUFFICES ASSUME DispatchInv, OneOutcome, [Next]_vars PROVE OneOutcome'
  OBVIOUS
<1> USE DEF DispatchInv
<1>1. WorldType /\ PlaceType /\ ThreadType /\ OutcomeType
  BY TypeParts
<1> USE <1>1 DEF ThreadType, OutcomeType
<1>2. ASSUME UNCHANGED <<outcome, caught>> PROVE OneOutcome'
  BY <1>2 DEF OneOutcome, SingleOutcome, outcome
<1>3. ASSUME NEW t \in Thread,
             Begins(t) \/ Limits(t) \/ Moves(t) \/ FetchMember(t)
      PROVE  OneOutcome'
  BY <1>2, <1>3, Untouched
<1>4. ASSUME Environment \/ UNCHANGED vars PROVE OneOutcome'
  BY <1>2, <1>4 DEF vars, Environment, Tick, ChangeRoles, CacheServer
(* It is enough to look at the thread that steps. *)
<1>5. ASSUME NEW t \in Thread,
             \A u \in Thread : u # t =>
               runs'[u] = runs[u] /\ reports'[u] = reports[u] /\ caught'[u] = caught[u],
             SingleOutcome(t)'
      PROVE  OneOutcome'
  BY <1>5 DEF OneOutcome, SingleOutcome
(* The first outcome of a thread. *)
<1>6. ASSUME NEW t \in Thread, runs[t] = 0, reports[t] = <<>>,
             caught' = caught \/ \E b \in BOOLEAN : caught' = [caught EXCEPT ![t] = b],
             Run(t) \/ Reports(t)
      PROVE  OneOutcome'
  <2>1. \A u \in Thread : u # t =>
          runs'[u] = runs[u] /\ reports'[u] = reports[u] /\ caught'[u] = caught[u]
    BY <1>6 DEF Run, Reports, Report
  <2>2. CASE Run(t)
    <3>1. runs'[t] = 1 /\ reports'[t] = <<>>
      BY <1>6, <2>2 DEF Run
    <3>2. Len(reports'[t]) = 0
      BY <3>1
    <3>3. SingleOutcome(t)'
      BY <3>1, <3>2 DEF SingleOutcome
    <3> QED
      BY <1>5, <2>1, <3>3
  <2>3. CASE Reports(t)
    <3>1. runs'[t] = 0 /\ \E reason \in Reasons : reports'[t] = Append(<<>>, reason)
      BY <1>6, <2>3 DEF Reports, Report
    <3>2. Len(reports'[t]) = 1
      BY <3>1
    <3>3. SingleOutcome(t)'
      BY <3>1, <3>2 DEF SingleOutcome
    <3> QED
      BY <1>5, <2>1, <3>3
  <2> QED
    BY <1>6, <2>2, <2>3
(* The only second outcome is the report from the catch of fetch_member. *)
<1>7. ASSUME NEW t \in Thread, ~caught[t], caught' = [caught EXCEPT ![t] = TRUE],
             Report(t, "member_fetch_failed")
      PROVE  OneOutcome'
  <2>1. runs[t] + Len(reports[t]) <= 1 /\ runs[t] <= 1 /\ Len(reports[t]) \in Nat
    <3>1. Len(reports[t]) \in Nat
      BY LenProperties
    <3> QED
      BY <1>7, <3>1 DEF OneOutcome, SingleOutcome
  <2>2. /\ Len(reports'[t]) = Len(reports[t]) + 1
        /\ reports'[t][Len(reports'[t])] = "member_fetch_failed"
    <3>1. reports'[t] = Append(reports[t], "member_fetch_failed")
      BY <1>7 DEF Report
    <3> QED
      BY <3>1, AppendProperties DEF Reasons
  <2>3. runs'[t] = runs[t] /\ caught'[t]
    BY <1>7 DEF Report
  <2>4. \A u \in Thread : u # t =>
          runs'[u] = runs[u] /\ reports'[u] = reports[u] /\ caught'[u] = caught[u]
    BY <1>7 DEF Report
  <2>5. SingleOutcome(t)'
    BY <2>1, <2>2, <2>3 DEF SingleOutcome
  <2> QED
    BY <1>5, <2>4, <2>5
<1>8. ASSUME NEW t \in Thread, Decides(t) PROVE OneOutcome'
  <2>1. runs[t] = 0 /\ reports[t] = <<>> /\ caught' = caught
    BY <1>8, Places, Untouched DEF OutcomeInv
  <2>2. Run(t) \/ Reports(t)
    BY <1>8 DEF Decides, Bypass, AllowUnrestricted, AllowOutsideServer, CheckPermission,
                Reports, Reasons
  <2> QED
    BY <1>6, <2>1, <2>2
<1>9. ASSUME NEW t \in Thread, NEW threw \in BOOLEAN, FetchFails(t, threw) PROVE OneOutcome'
  <2>1. runs[t] = 0 /\ reports[t] = <<>>
    BY <1>9 DEF FetchFails, OutcomeInv
  <2>2. caught' = [caught EXCEPT ![t] = threw] /\ Reports(t)
    BY <1>9 DEF FetchFails, Reports, Reasons
  <2> QED
    BY <1>6, <2>1, <2>2
<1>10. ASSUME NEW t \in Thread, NEW standard \in BOOLEAN, Throw(t, standard) PROVE OneOutcome'
  BY <1>2, <1>7, <1>10 DEF Throw
<1> QED
  BY <1>3, <1>4, <1>8, <1>9, <1>10, StepCases DEF Fails

(* A dispatch calls the command at most once and reports at most once,     *)
(* except that fetch_member's catch may report a failure of its own.       *)
THEOREM OneOutcomeEach == Spec => []OneOutcome
<1>1. Init => OneOutcome
  <2>1. Len(<<>>) = 0
    OBVIOUS
  <2>2. ASSUME Init, NEW t \in Thread PROVE SingleOutcome(t)
    <3>1. runs[t] = 0 /\ reports[t] = <<>>
      BY <2>2 DEF Init
    <3>2. Len(reports[t]) = 0
      BY <2>1, <3>1
    <3> QED
      BY <3>1, <3>2 DEF SingleOutcome
  <2> QED
    BY <2>2 DEF OneOutcome
<1> QED
  BY <1>1, OneOutcomeKept, AlwaysDispatchInv, PTL DEF Spec
-----------------------------------------------------------------------------
(* A use of the thread's command by its author that was accepted too       *)
(* recently: the reason of a refusal, there if and only if the recorded    *)
(* use is.                                                                 *)
LEMMA RefusalHasReason ==
  ASSUME WorldType, PlaceType, LimiterType, StageInv, CooldownInv,
         NEW t \in Thread, pc[t] = "limiting"
  PROVE  /\ CoolingDown(t) => \E q \in Thread :
              /\ verdict[q] = "granted" /\ Entry(q) = Entry(t)
              /\ stamp[q] = last[Entry(t)]
              /\ clock < stamp[q] + TicksPerSecond * Command(t).cooldown
         /\ ~CoolingDown(t) => \A q \in Thread :
              verdict[q] = "granted" /\ Entry(q) = Entry(t) =>
                stamp[q] + TicksPerSecond * Command(t).cooldown <= clock
<1> USE DEF WorldType, LimiterType
<1> DEFINE e == Entry(t)
           n == Command(t).cooldown
           s == Elapsed(t)
<1>1. e \in Word \X User /\ n \in Nat
  BY HasCommand
<1>2. last[e] \in Nat /\ clock \in Nat /\ last[e] <= clock
  BY <1>1 DEF CooldownInv
<1>3. TicksPerSecond \in Nat \ {0}
  BY DispatchConstants
<1>4. /\ s \in Nat /\ TicksPerSecond * s <= clock - last[e]
      /\ clock - last[e] < TicksPerSecond * s + TicksPerSecond
  BY <1>2, Seconds DEF Elapsed
<1>5. ASSUME CoolingDown(t)
      PROVE  \E q \in Thread :
              /\ verdict[q] = "granted" /\ Entry(q) = Entry(t)
              /\ stamp[q] = last[Entry(t)]
              /\ clock < stamp[q] + TicksPerSecond * n
  <2>1. last[e] # Never /\ s + 1 <= n
    BY <1>1, <1>4, <1>5 DEF CoolingDown
  <2>2. PICK q \in Thread : verdict[q] = "granted" /\ Entry(q) = e /\ stamp[q] = last[e]
    BY <1>1, <2>1 DEF CooldownInv
  <2>3. TicksPerSecond * (s + 1) <= TicksPerSecond * n
    <3>. HIDE DEF n, s
    <3> QED
      BY <1>1, <1>3, <1>4, <2>1
  <2>4. TicksPerSecond * (s + 1) = TicksPerSecond * s + TicksPerSecond
    <3>. HIDE DEF s
    <3> QED
      BY <1>3, <1>4
  <2>5. TicksPerSecond * n \in Nat /\ TicksPerSecond * s \in Nat
    <3>. HIDE DEF n, s
    <3> QED
      BY <1>1, <1>3, <1>4
  <2>6. clock < last[e] + TicksPerSecond * n
    <3>. HIDE DEF n, s, e
    <3> QED
      BY <1>2, <1>3, <1>4, <2>3, <2>4, <2>5
  <2> QED
    BY <2>2, <2>6
<1>6. ASSUME ~CoolingDown(t), NEW q \in Thread, verdict[q] = "granted", Entry(q) = e
      PROVE  stamp[q] + TicksPerSecond * n <= clock
  <2>1. stamp[q] <= last[e] /\ stamp[q] \in Nat
    BY <1>6 DEF CooldownInv
  <2>2. ASSUME last[e] # Never PROVE TicksPerSecond * n <= clock - last[e]
    <3>1. n <= s
      BY <1>1, <1>4, <1>6, <2>2 DEF CoolingDown
    <3>2. TicksPerSecond * n <= TicksPerSecond * s
      <4>. HIDE DEF n, s
      <4> QED
        BY <1>1, <1>3, <1>4, <3>1
    <3>3. TicksPerSecond * n \in Nat /\ TicksPerSecond * s \in Nat
      <4>. HIDE DEF n, s
      <4> QED
        BY <1>1, <1>3, <1>4
    <3> QED
      <4>. HIDE DEF n, s, e
      <4> QED
        BY <1>2, <1>4, <3>2, <3>3
  <2>3. last[e] # Never
    BY <1>1, <1>2, <1>6, <2>1 DEF StageInv, Never
  <2>4. TicksPerSecond * n \in Nat
    <3>. HIDE DEF n
    <3> QED
      BY <1>1, <1>3
  <2> QED
    <3>. HIDE DEF n, e
    <3> QED
      BY <1>2, <2>1, <2>2, <2>3, <2>4
<1> QED
  BY <1>5, <1>6

LEMMA DecisionsStable ==
  ASSUME DispatchInv, [Next]_vars, NEW t \in Thread, verdict[t] # "none"
  PROVE  /\ verdict'[t] = verdict[t] /\ stamp'[t] = stamp[t] /\ remaining'[t] = remaining[t]
         /\ Entry(t)' = Entry(t) /\ Command(t)' = Command(t)
BY TypeParts, DecisionKept, EntryKept DEF DispatchInv

LEMMA RemainingKept ==
  DispatchInv /\ RemainingIsEnough /\ [Next]_vars => RemainingIsEnough'
<1> SUFFICES ASSUME DispatchInv, RemainingIsEnough, [Next]_vars,
                    NEW t \in Thread, verdict'[t] = "refused"
             PROVE  \E q \in Thread :
                      /\ verdict'[q] = "granted" /\ Entry(q)' = Entry(t)'
                      /\ LET wait == stamp'[q] + TicksPerSecond * Command(t)'.cooldown - stamp'[t]
                         IN  /\ wait <= TicksPerSecond * remaining'[t]
                             /\ TicksPerSecond * remaining'[t] < wait + TicksPerSecond
  BY DEF RemainingIsEnough
<1>1. WorldType /\ LimiterType /\ PlaceType /\ StageInv /\ CooldownInv
  BY TypeParts DEF DispatchInv
<1>2. CASE verdict[t] = "refused"
  <2>1. PICK q \in Thread :
          /\ verdict[q] = "granted" /\ Entry(q) = Entry(t)
          /\ LET wait == stamp[q] + TicksPerSecond * Command(t).cooldown - stamp[t]
             IN  /\ wait <= TicksPerSecond * remaining[t]
                 /\ TicksPerSecond * remaining[t] < wait + TicksPerSecond
    BY <1>2 DEF RemainingIsEnough
  <2>2. /\ verdict'[q] = "granted" /\ Entry(q)' = Entry(q) /\ stamp'[q] = stamp[q]
    BY <2>1, DecisionsStable
  <2>3. /\ Entry(t)' = Entry(t) /\ Command(t)' = Command(t)
        /\ stamp'[t] = stamp[t] /\ remaining'[t] = remaining[t]
    BY <1>2, DecisionsStable
  <2> QED
    BY <2>1, <2>2, <2>3
<1>3. CASE verdict[t] # "refused"
  <2>1. RefuseCooldown(t)
    <3>1. ASSUME NEW u \in Thread,
                 Begins(u) \/ Moves(u) \/ FetchMember(u) \/ Decides(u) \/ Fails(u)
          PROVE  verdict' = verdict
      BY <3>1, Untouched DEF limiter
    <3>2. ASSUME Environment \/ UNCHANGED vars PROVE verdict' = verdict
      BY <3>2 DEF vars, limiter, Environment, Tick, ChangeRoles, CacheServer
    <3>3. PICK u \in Thread : Limits(u)
      BY <1>3, <3>1, <3>2, StepCases
    <3> QED
      BY <1>1, <1>3, <3>3 DEF Limits, PassCooldown, RefuseCooldown, LimiterType
  <2> DEFINE n == Command(t).cooldown
             s == Elapsed(t)
             e == Entry(t)
  <2>2. pc[t] = "limiting" /\ CoolingDown(t) /\ verdict[t] = "none"
    BY <1>1, <2>1 DEF RefuseCooldown, StageInv
  <2>3. n \in Nat /\ e \in Word \X User
    BY <1>1, <2>2, HasCommand
  <2>4. PICK q \in Thread : verdict[q] = "granted" /\ Entry(q) = e /\ stamp[q] = last[e]
    BY <1>1, <2>2, RefusalHasReason
  <2>5. last[e] \in Nat /\ clock \in Nat /\ last[e] <= clock
    BY <1>1, <2>3 DEF CooldownInv, LimiterType, WorldType
  <2>6. TicksPerSecond \in Nat \ {0}
    BY DispatchConstants
  <2>7. /\ s \in Nat /\ TicksPerSecond * s <= clock - last[e]
        /\ clock - last[e] < TicksPerSecond * s + TicksPerSecond
    BY <2>5, Seconds DEF Elapsed
  <2>8. s < n
    BY <2>2 DEF CoolingDown
  <2>9. /\ TicksPerSecond * (n - s) = TicksPerSecond * n - TicksPerSecond * s
        /\ TicksPerSecond * n \in Nat /\ TicksPerSecond * s \in Nat
    <3>. HIDE DEF n, s
    <3> QED
      BY <2>3, <2>6, <2>7
  <2>10. LET wait == last[e] + TicksPerSecond * n - clock
         IN  /\ wait <= TicksPerSecond * (n - s)
             /\ TicksPerSecond * (n - s) < wait + TicksPerSecond
    <3>. HIDE DEF n, s, e
    <3> QED
      BY <2>5, <2>6, <2>7, <2>9
  <2>11. /\ stamp'[t] = clock /\ remaining'[t] = n - s
         /\ Entry(t)' = e /\ Command(t)'.cooldown = n
    BY <1>1, <2>1 DEF RefuseCooldown, LimiterType, Entry, Command, Author
  <2>12. verdict'[q] = "granted" /\ Entry(q)' = e /\ stamp'[q] = last[e]
    BY <2>4, DecisionsStable
  <2> QED
    BY <2>10, <2>11, <2>12
<1> QED
  BY <1>2, <1>3

(* A refusal tells a wait that is long enough, by less than a second: for  *)
(* any cooldown and resolution of the clock.                               *)
THEOREM RemainingSuffices == Spec => []RemainingIsEnough
<1>1. Init => RemainingIsEnough
  BY DEF Init, RemainingIsEnough
<1> QED
  BY <1>1, RemainingKept, AlwaysDispatchInv, PTL DEF Spec
-----------------------------------------------------------------------------
(* The cooldowns implement CooldownGate: every step decides one request as *)
(* the gate does, lets the time pass, or changes nothing of it.            *)
THEOREM ImplementsGate == Spec => LimitsByCooldown
<1> DEFINE key == [t \in Thread |-> IF Decided(t) THEN Entry(t) ELSE Unset]
           period == [t \in Thread |->
             IF Decided(t) THEN TicksPerSecond * Command(t).cooldown ELSE 0]
<1>1. Init => Gate!Init
  BY DEF Init, Gate!Init, Decided, Never
<1>2. DispatchInv /\ [Next]_vars => [Gate!Next]_Gate!vars
  <2> SUFFICES ASSUME DispatchInv, [Next]_vars
               PROVE  Gate!Next \/ UNCHANGED <<clock, key, period, verdict, stamp>>
    BY DEF Gate!vars
  <2>1. WorldType /\ LimiterType /\ PlaceType /\ StageInv /\ CooldownInv
    BY TypeParts DEF DispatchInv
  <2>2. ASSUME verdict' = verdict PROVE UNCHANGED <<key, period>>
    BY <2>2, DecisionsStable DEF Decided
  <2>3. ASSUME NEW t \in Thread, Limits(t) PROVE Gate!Decide(t)
    <3> DEFINE p == TicksPerSecond * Command(t).cooldown
               e == Entry(t)
               v == IF Gate!TooSoon(e, p) THEN "refused" ELSE "granted"
    <3>1. pc[t] = "limiting" /\ verdict[t] = "none"
      BY <2>1, <2>3 DEF Limits, PassCooldown, RefuseCooldown, StageInv
    <3>2. e \in Word \X User
      BY <2>1, <3>1, HasCommand
    <3>3. p \in {TicksPerSecond * Registered[i].cooldown : i \in DOMAIN Registered}
      BY <2>1, <3>1, HasCommand, FoundIsRegistered DEF Command
    <3>4. p \in Nat
      <4>1. Command(t).cooldown \in Nat /\ TicksPerSecond \in Nat
        BY <2>1, <3>1, HasCommand, DispatchConstants
      <4> QED
        BY <4>1
    <3>5. Gate!TooSoon(e, p) <=>
            \E q \in Thread : verdict[q] = "granted" /\ Entry(q) = e /\ clock < stamp[q] + p
      BY DEF Gate!TooSoon, Decided
    <3>6. Gate!TooSoon(e, p) <=> CoolingDown(t)
      <4>1. ASSUME CoolingDown(t) PROVE Gate!TooSoon(e, p)
        BY <2>1, <3>1, <3>5, <4>1, RefusalHasReason
      <4>2. ASSUME ~CoolingDown(t), NEW q \in Thread, verdict[q] = "granted", Entry(q) = e
            PROVE  ~(clock < stamp[q] + p)
        <5>1. stamp[q] + p <= clock
          BY <2>1, <3>1, <4>2, RefusalHasReason
        <5>2. stamp[q] \in Nat /\ clock \in Nat
          BY <2>1 DEF LimiterType, WorldType
        <5> QED
          <6>. HIDE DEF p
          <6> QED
            BY <3>4, <5>1, <5>2
      <4> QED
        BY <3>5, <4>1, <4>2
    <3>7. /\ verdict' = [verdict EXCEPT ![t] = v]
          /\ stamp' = [stamp EXCEPT ![t] = clock]
          /\ clock' = clock /\ content' = content
      BY <2>3, <3>6 DEF Limits, PassCooldown, RefuseCooldown, world
    <3>8. \A q \in Thread : Entry(q)' = Entry(q) /\ Command(q)' = Command(q)
      BY <3>7 DEF Entry, Command, Author
    <3>9. \A q \in Thread : Decided(q)' <=> (q = t \/ Decided(q))
      BY <2>1, <3>7 DEF Decided, LimiterType
    <3>10. key' = [key EXCEPT ![t] = e]
      BY <3>8, <3>9
    <3>11. period' = [period EXCEPT ![t] = p]
      BY <3>8, <3>9
    <3> QED
      BY <3>1, <3>2, <3>3, <3>7, <3>10, <3>11 DEF Gate!Decide
  <2>4. ASSUME NEW t \in Thread,
               Begins(t) \/ Moves(t) \/ FetchMember(t) \/ Decides(t) \/ Fails(t)
        PROVE  UNCHANGED <<clock, key, period, verdict, stamp>>
    <3>1. UNCHANGED <<clock, verdict, stamp>>
      BY <2>4, Untouched DEF limiter, world
    <3> QED
      BY <2>2, <3>1
  <2>5. ASSUME Environment PROVE Gate!Tick \/ UNCHANGED <<clock, key, period, verdict, stamp>>
    <3>1. UNCHANGED <<verdict, stamp>> /\ (clock' = clock + 1 \/ clock' = clock)
      BY <2>5 DEF Environment, Tick, ChangeRoles, CacheServer, limiter
    <3> QED
      BY <2>2, <3>1 DEF Gate!Tick
  <2>6. ASSUME UNCHANGED vars PROVE UNCHANGED <<clock, key, period, verdict, stamp>>
    BY <2>2, <2>6 DEF vars, limiter, world
  <2> QED
    BY <2>3, <2>4, <2>5, <2>6, StepCases DEF Gate!Next
<1> QED
  BY <1>1, <1>2, AlwaysDispatchInv, PTL DEF Spec, LimitsByCooldown, Gate!Spec
=============================================================================
