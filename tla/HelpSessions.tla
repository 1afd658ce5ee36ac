---------------------------- MODULE HelpSessions ----------------------------
(***************************************************************************)
(* The default help command: menus of three commands a page, whose pages   *)
(* the user who asked turns by reactions.                                  *)
(*                                                                         *)
(* The callback of the sent message stores a session.  Every reaction is   *)
(* handled on a thread of its own: it turns the page of the session under  *)
(* help_sessions_mutex_, lists the commands without it, and edits the      *)
(* message by a call that runs on yet another thread.  Commands may be     *)
(* registered meanwhile.                                                   *)
(***************************************************************************)
EXTENDS Integers

CONSTANTS
  Menu,          \* calls of help
  Press,         \* reactions, numbered in the order they are made
  User, Bot,     \* the users that react, and current_user
  Right, Left, Other,   \* an emoji for the next page, the last one, neither
  FirstCommands, \* the commands registered before, help among them
  MaxCommands    \* bound: registered commands

ConstantsAssumption ==
  /\ Press \subseteq Nat
  /\ FirstCommands \in Nat \ {0} /\ MaxCommands \in Nat
  /\ Bot \notin User
  /\ Right # Left

Emoji == {Right, Left, Other}
PageSize == 3
-----------------------------------------------------------------------------
VARIABLES
  commands,   \* registered_commands_: their number
  menu,       \* each call: not made, its message is there, its callback ended
  session,    \* help_sessions_; maxPages is also the callback's own copy
  shown,      \* the page each message shows
  press,      \* each reaction: where its handler is, and what it works on
  turns,      \* history: how often each menu was turned right, and left
  overtaken   \* history: menus an edit of which arrived after a later turn's

vars == <<commands, menu, session, shown, press, turns, overtaken>>

SessionType == [open : BOOLEAN, currentPage : Nat, maxPages : Nat \ {0}, user : User]

PressType ==
  [pc : {"unmade", "made", "turned", "editing", "edited", "ignored", "done"},
   menu : Menu, by : User \cup {Bot}, emoji : Emoji,
   page : Nat,                \* the page the handler copied
   turn : Nat,                \* history: the how manieth turn of its menu it was
   of : Nat]                  \* the number of commands it listed

TypeOK ==
  /\ commands \in Nat \ {0}
  /\ menu \in [Menu -> {"none", "sent", "done"}]
  /\ session \in [Menu -> SessionType]
  /\ \A m \in Menu : session[m].currentPage < session[m].maxPages
  /\ shown \in [Menu -> [page : Nat, turn : Nat]]
  /\ press \in [Press -> PressType]
  /\ turns \in [Menu -> [{Right, Left} -> Nat]]
  /\ overtaken \in SUBSET Menu

Init ==
  /\ commands = FirstCommands
  /\ menu = [m \in Menu |-> "none"]
  /\ session \in [Menu -> [open : {FALSE}, currentPage : {0}, maxPages : {1}, user : User]]
  /\ shown = [m \in Menu |-> [page |-> 0, turn |-> 0]]
  /\ \E m \in Menu :
       press = [p \in Press |-> [pc |-> "unmade", menu |-> m, by |-> Bot, emoji |-> Other,
                                 page |-> 0, turn |-> 0, of |-> 0]]
  /\ turns = [m \in Menu |-> [emoji \in {Right, Left} |-> 0]]
  /\ overtaken = {}
-----------------------------------------------------------------------------
RegisterCommand ==
  /\ commands < MaxCommands /\ commands' = commands + 1
  /\ UNCHANGED <<menu, session, shown, press, turns, overtaken>>

Pages(n) == (n + PageSize - 1) \div PageSize

(* The command counts its pages, and its message is sent. *)
Help(m) ==
  /\ menu[m] = "none" /\ menu' = [menu EXCEPT ![m] = "sent"]
  /\ session' = [session EXCEPT ![m].maxPages = Pages(commands)]
  /\ UNCHANGED <<commands, shown, press, turns, overtaken>>

(* The callback of send_message stores the session; a menu of one page has *)
(* none, nor has one whose call failed although the message is there.      *)
Sent(m) ==
  /\ menu[m] = "sent" /\ menu' = [menu EXCEPT ![m] = "done"]
  /\ \E success \in BOOLEAN :
       session' = [session EXCEPT ![m].open = success /\ session[m].maxPages > 1]
  /\ UNCHANGED <<commands, shown, press, turns, overtaken>>

(* A user reacts to a message that is there. *)
React(p) ==
  /\ press[p].pc = "unmade" /\ \A q \in Press : q < p => press[q].pc # "unmade"
  /\ \E m \in Menu, u \in User \cup {Bot}, emoji \in Emoji :
       /\ menu[m] # "none"
       /\ press' = [press EXCEPT ![p].pc = "made", ![p].menu = m, ![p].by = u, ![p].emoji = emoji]
  /\ UNCHANGED <<commands, menu, session, shown, turns, overtaken>>

Turned(s, emoji) ==
  IF emoji = Right THEN IF s.currentPage < s.maxPages - 1 THEN s.currentPage + 1 ELSE 0
  ELSE IF s.currentPage > 0 THEN s.currentPage - 1 ELSE s.maxPages - 1

Turns(m) == turns[m][Right] + turns[m][Left]

(* on_message_react, under help_sessions_mutex_. *)
Turn(p) ==
  LET m == press[p].menu  s == session[m]  emoji == press[p].emoji IN
    /\ press[p].pc = "made" /\ s.open
    /\ press[p].by = s.user /\ emoji \in {Right, Left}
    /\ session' = [session EXCEPT ![m].currentPage = Turned(s, emoji)]
    /\ press' = [press EXCEPT ![p].pc = "turned", ![p].page = Turned(s, emoji),
                              ![p].turn = Turns(m) + 1]
    /\ turns' = [turns EXCEPT ![m][emoji] = @ + 1]
    /\ UNCHANGED <<commands, menu, shown, overtaken>>

(* Faulty: forgets the reactions of others. *)
RefuseNot(p) ==
  /\ press[p].pc = "made" /\ session[press[p].menu].open
  /\ press[p].by \notin {session[press[p].menu].user, Bot}
  /\ press' = [press EXCEPT ![p].pc = "ignored"]
  /\ UNCHANGED <<commands, menu, session, shown, turns, overtaken>>

(* Somebody else's reaction is taken back. *)
Refuse(p) ==
  /\ press[p].pc = "made" /\ session[press[p].menu].open
  /\ press[p].by \notin {session[press[p].menu].user, Bot}
  /\ press' = [press EXCEPT ![p].pc = "done"]
  /\ UNCHANGED <<commands, menu, session, shown, turns, overtaken>>

(* A reaction to a message without session, of the bot itself, or of an    *)
(* emoji that turns no page stays.                                         *)
Ignore(p) ==
  LET s == session[press[p].menu] IN
    /\ press[p].pc = "made"
    /\ \/ ~s.open
       \/ press[p].by = Bot
       \/ press[p].by = s.user /\ press[p].emoji = Other
    /\ press' = [press EXCEPT ![p].pc = "ignored"]
    /\ UNCHANGED <<commands, menu, session, shown, turns, overtaken>>

(* The handler lists the commands of its page, and calls edit_message. *)
List(p) ==
  /\ press[p].pc = "turned"
  /\ press' = [press EXCEPT ![p].pc = "editing", ![p].of = commands]
  /\ UNCHANGED <<commands, menu, session, shown, turns, overtaken>>

(* The edit arrives, or fails. *)
Edit(p) ==
  LET m == press[p].menu  turn == press[p].turn IN
    /\ press[p].pc = "editing"
    /\ press' = [press EXCEPT ![p].pc = "edited"]
    /\ \/ /\ shown' = [shown EXCEPT ![m] = [page |-> press[p].page, turn |-> turn]]
          /\ overtaken' = overtaken \cup (IF shown[m].turn > turn THEN {m} ELSE {})
       \/ /\ UNCHANGED shown
          /\ overtaken' = overtaken \cup {m}
    /\ UNCHANGED <<commands, menu, session, turns>>

(* The callback of edit_message takes the reaction back. *)
Unreact(p) ==
  /\ press[p].pc = "edited"
  /\ press' = [press EXCEPT ![p].pc = "done"]
  /\ UNCHANGED <<commands, menu, session, shown, turns, overtaken>>

Handle(p) == Turn(p) \/ Refuse(p) \/ Ignore(p) \/ List(p) \/ Edit(p) \/ Unreact(p)

Next ==
  \/ RegisterCommand
  \/ \E m \in Menu : Help(m) \/ Sent(m)
  \/ \E p \in Press : React(p) \/ Handle(p)

(* Handlers and calls end. *)
Spec == Init /\ [][Next]_vars /\ \A p \in Press : WF_vars(Handle(p))
-----------------------------------------------------------------------------
(* No turn is lost or made for anybody else, however the handlers of the   *)
(* reactions overlap: each was made by one reaction of the menu's user, and*)
(* the session is as many pages from the first as there were more turns to *)
(* the right than to the left.                                             *)
TurnsAreExact ==
  \A m \in Menu :
    /\ session[m].currentPage = (turns[m][Right] - turns[m][Left]) % session[m].maxPages
    /\ \A n \in 1..Turns(m) : \E p \in Press :
         press[p].menu = m /\ press[p].turn = n /\ press[p].by = session[m].user
    /\ \A p, q \in Press :
         press[p].menu = m /\ press[q].menu = m /\ press[p].turn > 0
           /\ press[p].turn = press[q].turn => p = q

(* A page the menu turns to has commands, even if it was counted before    *)
(* others were registered.                                                 *)
PagesHaveCommands ==
  \A p \in Press : press[p].pc \in {"editing", "edited"} => PageSize * press[p].page < press[p].of

(* When no reaction is in work a message shows the page of its session,    *)
(* unless an edit failed or was overtaken by that of a later turn.         *)
QuietShowsCurrent ==
  \A m \in Menu :
    (\A p \in Press : press[p].menu = m => press[p].pc \in {"unmade", "made", "ignored", "done"})
      => shown[m].page = session[m].currentPage \/ m \in overtaken

(* Every reaction of a user to an open menu is taken back, but for those   *)
(* with another emoji.                                                     *)
ReactionsAreTakenBack ==
  \A p \in Press :
    press[p].pc = "made" /\ session[press[p].menu].open /\ press[p].by # Bot /\ press[p].emoji # Other
      ~> press[p].pc = "done"

(* A help menu turns by its user's reactions, one page each.               *)
HelpIsExact == TypeOK /\ TurnsAreExact /\ PagesHaveCommands /\ QuietShowsCurrent
=============================================================================
