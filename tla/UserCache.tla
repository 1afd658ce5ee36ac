------------------------------ MODULE UserCache ------------------------------
(***************************************************************************)
(* The cache of users and its three writers.                               *)
(*                                                                         *)
(* Ready writes all users it brings, with their bot flags; dispatch_command*)
(* writes the author of a message, twice, without the flag, on the thread  *)
(* of the message; fetch_user copies an entry, or asks for the user, asks  *)
(* for the profile and writes the copy back, on a thread of its own.       *)
(***************************************************************************)
EXTENDS Naturals, Sequences

CONSTANTS
  User, Name, Bio,
  Bots,         \* the users that are bots
  Fetch,        \* calls of fetch_user
  None,         \* no entry, no bio
  Empty,        \* the bio ""
  MaxTold,      \* bound: messages, Readys and answers that tell of a user
  MaxChanges    \* bound: changes of a user's name or bio

(* n says which of the bot's sources the entry comes from, as a history.   *)
Entry == [name : Name, bot : BOOLEAN, bio : Bio \cup {None, Empty}, n : 0..MaxTold]

ConstantsAssumption ==
  /\ Bots \subseteq User
  /\ None \notin Bio \cup Entry /\ Empty \notin Bio \cup {None}
  /\ MaxTold \in Nat /\ MaxChanges \in Nat
-----------------------------------------------------------------------------
VARIABLES
  platform,     \* each user's name and bio
  changes,      \* how often one changed
  cache,        \* user_cache_
  messages,     \* messages on their threads, with the writes left
  fetch,        \* each call: where it is, its user, its copy
  answers,      \* what each callback was told
  told,         \* history: how often the bot was told of a user
  newest,       \* history: the newest it was to cache of each user
  overlapped,   \* history: users two of whose writers overlapped
  heard,        \* history: users whose messages were dispatched
  refused       \* history: users whose profile was refused

vars == <<platform, changes, cache, messages, fetch, answers,
          told, newest, overlapped, heard, refused>>

TypeOK ==
  /\ platform \in [User -> [name : Name, bio : Bio \cup {None}]]
  /\ cache \in [User -> Entry \cup {None}]
  /\ messages \subseteq [n : 1..MaxTold, user : User, name : Name, left : 1..2]
  /\ fetch \in [Fetch -> [pc : {"idle", "user", "profile", "write", "direct", "callback", "catch",
                                "ended"},
                          user : User, copy : Entry \cup {None}]]
  /\ \A f \in Fetch : fetch[f].pc \in {"write", "profile"} => fetch[f].copy # None
  /\ answers \in [Fetch -> Seq(Entry \cup {None})]

Init ==
  /\ platform \in [User -> [name : Name, bio : Bio \cup {None}]]
  /\ changes = 0
  /\ cache = [u \in User |-> None]
  /\ messages = {}
  /\ fetch \in [Fetch -> [pc : {"idle"}, user : User, copy : {None}]]
  /\ answers = [f \in Fetch |-> <<>>]
  /\ told = 0 /\ newest = [u \in User |-> 0]
  /\ overlapped = {} /\ heard = {} /\ refused = {}
-----------------------------------------------------------------------------
(* Writers of u that are under way. *)
Fetching(u) ==
  {f \in Fetch : fetch[f].user = u /\ fetch[f].pc \in {"user", "profile", "write"}}

Writers(u) == {m \in messages : m.user = u} \cup Fetching(u)

(* A writer of a new value for the users us begins. *)
Overlap(us) ==
  overlapped' = (overlapped \ us) \cup {u \in us : Writers(u) # {}}

OnReady ==
  cache' = [u \in User |-> [name |-> platform[u].name, bot |-> u \in Bots,
                            bio |-> None, n |-> told + 1]]

Ready ==
  /\ told < MaxTold /\ told' = told + 1
  /\ OnReady
  /\ newest' = [u \in User |-> told + 1]
  /\ Overlap(User)
  /\ UNCHANGED <<platform, changes, messages, fetch, answers, heard, refused>>

(* A message comes to its thread; its user object has no bot flag. *)
Receive(u) ==
  /\ told < MaxTold /\ told' = told + 1
  /\ messages' = messages \cup {[n |-> told + 1, user |-> u, name |-> platform[u].name, left |-> 2]}
  /\ newest' = [newest EXCEPT ![u] = told + 1]
  /\ Overlap({u})
  /\ UNCHANGED <<platform, changes, cache, fetch, answers, heard, refused>>

(* First msg.author, then raw["user"], each under the lock. *)
CacheAuthor(m) ==
  /\ m \in messages
  /\ cache' = [cache EXCEPT ![m.user] =
                [name |-> m.name, bot |-> FALSE, bio |-> None, n |-> m.n]]
  /\ messages' = (messages \ {m}) \cup (IF m.left = 2 THEN {[m EXCEPT !.left = 1]} ELSE {})
  /\ heard' = heard \cup {m.user}
  /\ UNCHANGED <<platform, changes, fetch, answers, told, newest, overlapped, refused>>
-----------------------------------------------------------------------------
Set(f, p, e) == fetch' = [fetch EXCEPT ![f].pc = p, ![f].copy = e]

At(f, p) == fetch[f].pc = p

(* A cached user with a bio is told at once, on the caller's thread. *)
BeginFetch(f) ==
  LET u == fetch[f].user  c == cache[u] IN
  /\ At(f, "idle")
  /\ IF c # None /\ c.bio # None
     THEN Set(f, "direct", c) /\ UNCHANGED overlapped
     ELSE /\ Set(f, IF c = None THEN "user" ELSE "profile", c)
          /\ overlapped' = overlapped \cup (IF Writers(u) # {} THEN {u} ELSE {})
  /\ UNCHANGED <<platform, changes, cache, messages, answers, told, newest, heard, refused>>

(* Faulty: leaves the flag out. *)
AskUserPlain(f) ==
  /\ At(f, "user")
  /\ told < MaxTold /\ told' = told + 1
  /\ Set(f, "profile", [name |-> platform[fetch[f].user].name, bot |-> FALSE,
                        bio |-> None, n |-> told + 1])
  /\ UNCHANGED <<platform, changes, cache, messages, answers, newest, overlapped, heard, refused>>

(* get_user answers, or not. *)
AskUser(f) ==
  LET u == fetch[f].user IN
  /\ At(f, "user")
  /\ \/ /\ told < MaxTold /\ told' = told + 1
        /\ Set(f, "profile", [name |-> platform[u].name, bot |-> u \in Bots,
                              bio |-> None, n |-> told + 1])
     \/ Set(f, "callback", None) /\ UNCHANGED told
  /\ UNCHANGED <<platform, changes, cache, messages, answers, newest, overlapped, heard, refused>>

(* get_user_profile: the content, or nothing; "" if refused. *)
AskProfile(f) ==
  LET u == fetch[f].user  c == fetch[f].copy IN
  /\ At(f, "profile")
  /\ \/ /\ Set(f, "write", [c EXCEPT !.bio = IF platform[u].bio = None THEN @ ELSE platform[u].bio])
        /\ UNCHANGED refused
     \/ /\ Set(f, "write", [c EXCEPT !.bio = Empty])
        /\ refused' = refused \cup {u}
  /\ UNCHANGED <<platform, changes, cache, messages, answers, told, newest, overlapped, heard>>

(* A request throws: the catch calls back. *)
RequestThrows(f) ==
  /\ fetch[f].pc \in {"user", "profile"}
  /\ Set(f, "catch", None)
  /\ UNCHANGED <<platform, changes, cache, messages, answers, told, newest,
                 overlapped, heard, refused>>

WriteBack(f) ==
  LET u == fetch[f].user  c == fetch[f].copy IN
  /\ At(f, "write")
  /\ cache' = [cache EXCEPT ![u] = c]
  /\ newest' = [newest EXCEPT ![u] = IF c.n > @ THEN c.n ELSE @]
  /\ Set(f, "callback", c)
  /\ UNCHANGED <<platform, changes, messages, answers, told, overlapped, heard, refused>>

(* What the callback throws is caught on the fetching thread, and is the   *)
(* caller's on its own.                                                    *)
CallBack(f) ==
  /\ At(f, "direct") \/ At(f, "callback")
  /\ answers' = [answers EXCEPT ![f] = Append(@, fetch[f].copy)]
  /\ Set(f, "ended", None) \/ (At(f, "callback") /\ Set(f, "catch", None))
  /\ UNCHANGED <<platform, changes, cache, messages, told, newest, overlapped, heard, refused>>

Catch(f) ==
  /\ At(f, "catch")
  /\ answers' = [answers EXCEPT ![f] = Append(@, None)]
  /\ Set(f, "ended", None)
  /\ UNCHANGED <<platform, changes, cache, messages, told, newest, overlapped, heard, refused>>

(* Names and bios change; no listener caches UserUpdate. *)
Change(u) ==
  /\ changes < MaxChanges /\ changes' = changes + 1
  /\ platform' \in {[platform EXCEPT ![u].name = nm] : nm \in Name}
                   \cup {[platform EXCEPT ![u].bio = b] : b \in Bio \cup {None}}
  /\ UNCHANGED <<cache, messages, fetch, answers, told, newest, overlapped, heard, refused>>

FetchStep(f) ==
  AskUser(f) \/ AskProfile(f) \/ RequestThrows(f) \/ WriteBack(f) \/ CallBack(f) \/ Catch(f)

Next ==
  \/ Ready
  \/ \E u \in User : Receive(u) \/ Change(u)
  \/ \E m \in messages : CacheAuthor(m)
  \/ \E f \in Fetch : BeginFetch(f) \/ FetchStep(f)

(* Requests end, threads run, callbacks return or throw. *)
Spec == Init /\ [][Next]_vars /\ \A f \in Fetch : WF_vars(FetchStep(f))
-----------------------------------------------------------------------------
(* While no writer is under way, an entry comes from the newest that the   *)
(* bot was told of its user, unless the last event that told of it met     *)
(* another writer: a single writer leaves nothing stale behind.            *)
EntryIsNewest ==
  \A u \in User :
    cache[u] # None /\ Writers(u) = {} =>
      cache[u].n = newest[u] \/ u \in overlapped

(* An entry says bot of bots only, and of every bot until a message of it  *)
(* was dispatched.                                                         *)
BotFlagHasCause ==
  \A u \in User : cache[u] # None =>
    /\ cache[u].bot => u \in Bots
    /\ u \in Bots /\ ~cache[u].bot => u \in heard

(* An empty bio that the user never wrote comes from a refused request.    *)
EmptyBioHasCause ==
  \A u \in User : cache[u] # None /\ cache[u].bio = Empty => u \in refused

(* What an entry says has a cause in what the bot was told.                *)
EntriesHaveCause == TypeOK /\ EntryIsNewest /\ BotFlagHasCause /\ EmptyBioHasCause
=============================================================================
