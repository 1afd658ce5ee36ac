---------------------------- MODULE MCRoleUpdates ----------------------------
(***************************************************************************)
(* Instances of the modules about a server: its members' roles, its        *)
(* categories, what is cached of it and of users.  They share no state: the*)
(* initial state chooses a part, and only that part's instance takes steps.*)
(***************************************************************************)
EXTENDS ReactionRoles, Sequences

CONSTANTS
  Moving, Channel, Title, MaxRestarts,             \* of CategoryMoves
  Server, Name, CachedRole, User, Ignored, Absent, MaxEvents,    \* of ServerCache
  Person, Bots, Nick, Bio, Fetch, None, Empty, MaxTold, MaxChanges   \* of UserCache

VARIABLES
  part,
  categories, move, drawn, overtaken, restarts,
  platform, cached, connected, stream, threads, erasing, told, late, disordered, missed,
  profiles, changes, cache, messages, fetch, answers, heardOf, newest, mixed, heard, refused

categoryVars == <<categories, move, drawn, overtaken, restarts>>
cacheVars == <<platform, cached, connected, stream, threads, erasing, told, late,
               disordered, missed>>
userVars == <<profiles, changes, cache, messages, fetch, answers, heardOf, newest, mixed, heard,
              refused>>
allVars == <<part, reactionVars, categoryVars, cacheVars, userVars>>
-----------------------------------------------------------------------------
(* The lists of categories a server has at first: none; one that another's *)
(* title or id hides; one titled like the default.                         *)
Cat(id, title, channels) == [id |-> id, title |-> title, channels |-> channels]

Lists ==
  { <<>>,
    <<Cat("x", "Text", {"general"}), Cat("text", "y", {"music"})>>,
    <<Cat("x", "Default", {"general"})>>,
    <<Cat("default", "y", {}), Cat("x", "y", {"general", "music"})>> }

Lower == [n \in Title |-> IF n = "Default" THEN "default" ELSE IF n = "Text" THEN "text" ELSE n]

RandomIds == <<"r1", "r2">>

Moves == INSTANCE CategoryMoves
  WITH Call <- Moving, Name <- Title, Fold <- Lower, Initial <- Lists, Drawn <- RandomIds,
       job <- move

Caches == INSTANCE ServerCache WITH Role <- CachedRole, sent <- told

Users == INSTANCE UserCache
  WITH User <- Person, Name <- Nick, platform <- profiles, told <- heardOf, overlapped <- mixed

ASSUME MovesConstants == Moves!CategoryConstants
ASSUME CacheConstants == Caches!ConstantsAssumption
ASSUME UsersConstants == Users!ConstantsAssumption

RolesIdle == RInit /\ roles = {}

MovesIdle ==
  /\ Moves!Init /\ categories = <<>>
  /\ \A k \in Moving : move[k].target = "x" /\ move[k].channel = "general"

UsersIdle ==
  /\ Users!Init
  /\ \A u \in Person : profiles[u] = [name |-> CHOOSE n \in Nick : TRUE, bio |-> None]

(* A server with its names and a role; with one channel and the members,   *)
(* where the platform tells of changes only.                               *)
OnlyNames == platform'.channels = {} /\ platform'.members = {}

OnlyMembers ==
  /\ \A s \in Server : platform'.servers[s] \in {Absent, [name |-> CHOOSE n \in Name : TRUE, roles |-> <<>>]}
  /\ platform'.channels \subseteq Server \X {"general"}
  /\ told' = told \/ platform' # platform \/ connected' # connected

MCInit ==
  \/ /\ part = "calls" /\ Init /\ sent = 0 /\ handled = {} /\ overlapped = FALSE
     /\ \A k \in Call \ {1, 2} : job[k] = job[1]
     /\ MovesIdle /\ Caches!Init /\ UsersIdle
  \/ part = "reactions" /\ RInit /\ MovesIdle /\ Caches!Init /\ UsersIdle
  \/ part = "moves" /\ Moves!Init /\ RolesIdle /\ Caches!Init /\ UsersIdle
  \/ part \in {"names", "members"} /\ Caches!Init /\ RolesIdle /\ MovesIdle /\ UsersIdle
  \/ part = "users" /\ Users!Init /\ RolesIdle /\ MovesIdle /\ Caches!Init

MCNext ==
  /\ part' = part
  /\ \/ /\ \/ /\ part = "calls" /\ Next /\ UNCHANGED <<sent, handled, overlapped>>
              /\ \A k \in Call \ {1, 2} : job'[k].pc = "idle"
           \/ part = "reactions" /\ RNext
        /\ UNCHANGED <<categoryVars, cacheVars, userVars>>
     \/ part = "moves" /\ Moves!Next /\ UNCHANGED <<reactionVars, cacheVars, userVars>>
     \/ /\ Caches!Next
        /\ \/ part = "names" /\ OnlyNames
           \/ part = "members" /\ OnlyMembers
        /\ UNCHANGED <<reactionVars, categoryVars, userVars>>
     \/ part = "users" /\ Users!Next /\ UNCHANGED <<reactionVars, categoryVars, cacheVars>>

MCSpec == MCInit /\ [][MCNext]_allVars
-----------------------------------------------------------------------------
(* MovesAreSound of CategoryMoves. *)
MovesAreSound == Moves!MovesAreSound

(* CacheFollows of ServerCache. *)
CacheFollows == Caches!CacheFollows

(* EntriesHaveCause of UserCache. *)
EntriesHaveCause == Users!EntriesHaveCause

(* The role of a reaction follows it, in the runs that only reactions make.*)
ReactionsAreFollowed == part = "reactions" => DivergenceNeedsOverlap
=============================================================================
