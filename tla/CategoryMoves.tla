--------------------------- MODULE CategoryMoves ---------------------------
(***************************************************************************)
(* rest_client::move_channel_to_category: a server's categories are read,  *)
(* one channel is moved in the list, and the whole list is written back.   *)
(*                                                                         *)
(* The target is an id or, up to case, a title; a category that does not   *)
(* exist is made, with an id from rand(), which nothing seeds: a restarted *)
(* bot draws the same ids again.                                           *)
(***************************************************************************)
EXTENDS Naturals, Sequences, FiniteSetsExt

CONSTANTS
  Call,           \* the calls, each with its thread
  Channel,
  Name,           \* ids, titles and targets; "default" and "Default" among them
  Fold,           \* lower case of names
  Initial,        \* the lists of categories a server may have at first
  Drawn,          \* the ids that rand() gives, in order
  MaxRestarts     \* bound

VARIABLES
  categories,     \* the server's list on the platform
  job,            \* the thread of each call
  drawn,          \* how many ids this run of the bot has drawn
  overtaken,      \* history: the list was written between a call's GET and its PATCH
  restarts

vars == <<categories, job, drawn, overtaken, restarts>>

Ids == Name \cup {Drawn[n] : n \in DOMAIN Drawn}

Category == [id : Ids, title : Name, channels : SUBSET Channel]

In(list, ch) == {i \in DOMAIN list : ch \in list[i].channels}

OncePerChannel(list) == \A ch \in Channel : \A i, j \in In(list, ch) : i = j

Distinct(list) == \A i, j \in DOMAIN list : i # j => list[i].id # list[j].id

(* A server starts with sound lists of Name's ids.  Within a run of the    *)
(* bot rand() gives ids that nobody has.                                   *)
CategoryConstants ==
  /\ {"default", "Default"} \subseteq Name
  /\ Fold \in [Name -> Name] /\ Fold["Default"] = "default" /\ Fold["default"] = "default"
  /\ \A list \in Initial :
       /\ list \in Seq(Category) /\ OncePerChannel(list) /\ Distinct(list)
       /\ \A i \in DOMAIN list : list[i].id \in Name
  /\ DOMAIN Drawn = 1..Len(Drawn) /\ Len(Drawn) \in Nat /\ MaxRestarts \in Nat
  /\ \A m, n \in DOMAIN Drawn : Drawn[m] \notin Name /\ (m # n => Drawn[m] # Drawn[n])

TypeOK ==
  /\ categories \in Seq(Category)
  /\ job \in [Call -> [pc : {"idle", "getting", "patching", "gaveUp", "done"},
                       channel : Channel, target : Name, list : Seq(Category)]]
  /\ drawn \in 0..Len(Drawn)
  /\ overtaken \in [Call -> BOOLEAN]
  /\ restarts \in 0..MaxRestarts

(* Faulty: leaves the channel in the categories it was in. *)
Kept(list, ch) == list

Without(list, ch) ==
  [i \in DOMAIN list |-> [list[i] EXCEPT !.channels = @ \ {ch}]]

Into(list, i, ch) == [list EXCEPT ![i].channels = @ \cup {ch}]

IsTarget(cat, target) == cat.id = target \/ Fold[cat.title] = Fold[target]

FirstOf(found) == Min(found)

New(id, title, ch) == [id |-> id, title |-> title, channels |-> {ch}]

IsDefault(target) == Fold[target] = "default" \/ target = ""

Draws(list, target) ==
  ~IsDefault(target) /\ \A i \in DOMAIN list : ~IsTarget(list[i], target)

(* The list with the channel moved. *)
Moved(list, ch, target, id) ==
  LET rest == Without(list, ch)
      found == {i \in DOMAIN rest : IsTarget(rest[i], target)}
      default == {i \in DOMAIN rest : rest[i].id = "default"}
  IN  CASE found # {} -> Into(rest, FirstOf(found), ch)
        [] found = {} /\ IsDefault(target) /\ default # {} ->
             Into(rest, FirstOf(default), ch)
        [] found = {} /\ IsDefault(target) /\ default = {} ->
             Append(rest, New("default", "Default", ch))
        [] OTHER -> Append(rest, New(id, target, ch))

Init ==
  /\ categories \in Initial
  /\ job \in [Call -> [pc : {"idle"}, channel : Channel, target : Name, list : {<<>>}]]
  /\ drawn = 0
  /\ overtaken = [k \in Call |-> FALSE]
  /\ restarts = 0
-----------------------------------------------------------------------------
Start(k) ==
  /\ job[k].pc = "idle"
  /\ job' = [job EXCEPT ![k].pc = "getting"]
  /\ UNCHANGED <<categories, drawn, overtaken, restarts>>

GetFails(k) ==
  /\ job[k].pc = "getting"
  /\ job' = [job EXCEPT ![k].pc = "done"]
  /\ UNCHANGED <<categories, drawn, overtaken, restarts>>

GetAnswered(k) ==
  /\ job[k].pc = "getting"
  /\ LET draws == Draws(categories, job[k].target)
         n == drawn + 1
     IN  /\ draws => n \in DOMAIN Drawn
         /\ drawn' = IF draws THEN n ELSE drawn
         /\ job' = [job EXCEPT ![k].pc = "patching",
                      ![k].list = Moved(categories, job[k].channel, job[k].target,
                                        IF draws THEN Drawn[n] ELSE "default")]
  /\ UNCHANGED <<categories, overtaken, restarts>>

Writing(k) == job[k].pc \in {"patching", "gaveUp"}

(* The platform writes the list of a call, perhaps again, and after the    *)
(* call gave up, when answers got lost.                                    *)
Write(k) ==
  /\ Writing(k)
  /\ categories' = job[k].list
  /\ overtaken' = [j \in Call |->
       overtaken[j] \/ (j # k /\ Writing(j) /\ job[k].list # categories)]
  /\ UNCHANGED <<job, drawn, restarts>>

PatchEnds(k) ==
  /\ job[k].pc = "patching"
  /\ \E p \in {"done", "gaveUp"} : job' = [job EXCEPT ![k].pc = p]
  /\ UNCHANGED <<categories, drawn, overtaken, restarts>>

(* The bot's process ends and is started again: its threads are gone. *)
Restart ==
  /\ restarts < MaxRestarts
  /\ restarts' = restarts + 1
  /\ drawn' = 0
  /\ job' = [k \in Call |-> [job[k] EXCEPT !.pc = CASE @ = "getting" -> "done"
                                                   [] @ = "patching" -> "gaveUp"
                                                   [] OTHER -> @]]
  /\ UNCHANGED <<categories, overtaken>>

Next ==
  \/ \E k \in Call : Start(k) \/ GetFails(k) \/ GetAnswered(k) \/ Write(k) \/ PatchEnds(k)
  \/ Restart

Spec == Init /\ [][Next]_vars
-----------------------------------------------------------------------------
(* A channel is in one category at most, whatever calls overlap: each      *)
(* writes a whole list that was sound when it was read.                    *)
NoChannelTwice == OncePerChannel(categories)

(* A write of a call that nothing overtook moves its channel into the      *)
(* first category that the target names and leaves all else as it is.      *)
MovesOneChannel ==
  [][\A k \in Call :
       Writing(k) /\ ~overtaken[k] /\ categories' = job[k].list /\ categories' # categories =>
         LET t == job[k].target
             named == {i \in DOMAIN categories' : IsTarget(categories'[i], t)}
         IN  /\ \A i \in In(categories', job[k].channel) :
                  named # {} => i = Min(named)
             /\ In(categories', job[k].channel) # {}
             /\ \A i \in DOMAIN categories :
                  /\ categories'[i].id = categories[i].id
                  /\ categories'[i].channels \ {job[k].channel} =
                       categories[i].channels \ {job[k].channel}]_vars

(* No two categories have one id unless the bot was restarted: no calls    *)
(* that overlap give one id to two categories, and the default category is *)
(* made once.                                                              *)
IdsDifferWithinRun == restarts = 0 => Distinct(categories)

(* What holds of categories and moves, however the moves overlap.          *)
MovesAreSound == [](TypeOK /\ NoChannelTwice /\ IdsDifferWithinRun) /\ MovesOneChannel
=============================================================================
