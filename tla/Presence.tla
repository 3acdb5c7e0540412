------------------------------- MODULE Presence -------------------------------
(* The presence tool (tools/presence): each turn of its loop services both    *)
(* links, answers what they brought, polls the phones of the people of the    *)
(* profile and tells both servers who came and who left.  A server that has   *)
(* just identified itself is told where things stand.                         *)
EXTENDS OlliLink, FiniteSets

CONSTANTS
  Profiles,   \* names of profiles; each has a presence_settings.json
  Persons,    \* names of people
  Backends,   \* ways a phone is looked for
  Actions,    \* what an arrival or a departure runs, None included
  Household,  \* profile -> the people of its settings at the start
  Nobody      \* no profile name; not in Profiles

ASSUME PresenceAssumption ==
  /\ Nobody \notin Profiles /\ IsFiniteSet(Persons)
  /\ Household \in [Profiles -> SUBSET Persons]

VARIABLES
  people,                \* person -> [seen, near, triggered, actions]
  presence_state_known,
  needs_sync,            \* link -> BOOLEAN
  current_profile_name, settings,   \* what the last identity loaded
  people_profile_name,
  presence_pc,           \* "service", "drain", "tell"
  files,                 \* profile -> its settings on disk
  user,                  \* link -> the profile its server runs under, or Nobody
  belief,                \* link -> user.presence as the server has it
  current,               \* links whose server was told of these very people
  announced              \* person -> the last transition announced of them

presenceVars == <<people, presence_state_known, needs_sync, current_profile_name, settings,
                  people_profile_name, presence_pc, files, user,
                  belief, current, announced>>
worldVars == <<files, user>>

Triggers == {"near", "away"}
NoAction == [t \in Triggers |-> "none"]
NewSettings(people_) == [p \in people_ |-> NoAction]
Empty == NewSettings({})

PresenceInit ==
  /\ people = <<>> /\ presence_state_known = FALSE
  /\ needs_sync = [l \in Links |-> FALSE]
  /\ current_profile_name = Nobody /\ settings = Empty /\ people_profile_name = Nobody
  /\ presence_pc = "service"
  /\ files = [n \in Profiles |-> NewSettings(Household[n])]
  /\ user \in {u \in [Links -> Profiles \union {Nobody}] :
                 u["olli"] # Nobody /\ u["subcon"] = Nobody}
  /\ belief = [l \in Links |-> "unknown"] /\ current = {}
  /\ announced = [p \in Persons |-> "none"]

Tracked == DOMAIN people
AnyNear == \E p \in Tracked : people[p].near

-----------------------------------------------------------------------------
(* service, and what the end of a connection resets *)

\* The settings go only when neither server is left; a pending sync goes with
\* its connection.  The people, and the profile they are of, stay.
PresenceService ==
  /\ presence_pc = "service" /\ presence_pc' = "drain"
  /\ ServiceLinks
  /\ current_profile_name' = IF all_links_dropped THEN Nobody ELSE current_profile_name
  /\ settings' = IF all_links_dropped THEN Empty ELSE settings
  /\ needs_sync' = [l \in Links |-> needs_sync[l] /\ link'[l].sock]
  /\ current' = {l \in current : link'[l].sock}
  /\ UNCHANGED <<people, presence_state_known, people_profile_name, worldVars,
                 belief, announced>>

-----------------------------------------------------------------------------
(* Messages *)

Profile(actions) ==
  [seen |-> [b \in Backends |-> "away"], near |-> FALSE, triggered |-> FALSE, actions |-> actions]

\* load_person_profiles: another profile, everybody away until polled.
load_person_profiles(loaded) ==
  /\ people' = [p \in DOMAIN loaded |-> Profile(loaded[p])]
  /\ presence_state_known' = FALSE

\* sync_person_actions: the same profile again; who is still in the settings
\* keeps what is known of them.
sync_person_actions(loaded) ==
  /\ people' = [p \in DOMAIN loaded |->
                  IF p \in Tracked THEN [people[p] EXCEPT !.actions = loaded[p]]
                                   ELSE Profile(loaded[p])]
  /\ UNCHANGED presence_state_known

SameAsCurrent(name) == name = current_profile_name
\* Compared with the profile the people are of, not with the one a disconnect clears.
SameProfile(name) == name = people_profile_name

\* People who were tracked for this profile before, and still are.
Staying(name) == IF name = people_profile_name THEN Tracked \intersect DOMAIN files[name] ELSE {}

handle_identity(l, name) ==
  /\ current_profile_name' = name /\ settings' = files[name]
  /\ people_profile_name' = name
  /\ IF SameProfile(name) THEN sync_person_actions(files[name])
                          ELSE load_person_profiles(files[name])
  /\ needs_sync' = [needs_sync EXCEPT ![l] = link[l].sock \/ @]
  /\ current' = (IF SameProfile(name) /\ DOMAIN files[name] = Tracked THEN current ELSE {})
                  \union {k \in {l} : link[k].sock}
  /\ announced' = [p \in Persons |-> IF p \in Staying(name) THEN announced[p] ELSE "none"]
  /\ link' = [link EXCEPT ![l].incoming = Tail(@)]
  /\ UNCHANGED <<files, belief>>

save_settings == files' = [files EXCEPT ![current_profile_name] = settings']

set_presence_action(m) ==
  IF m.person \notin DOMAIN settings
    THEN UNCHANGED <<people, settings, files>>
    ELSE /\ settings' = [settings EXCEPT ![m.person][m.trigger] = m.action]
         /\ save_settings
         /\ people' = [p \in Tracked |->
              IF p = m.person THEN [people[p] EXCEPT !.actions[m.trigger] = m.action]
                              ELSE people[p]]

register_presence_person(m) ==
  IF m.person \in DOMAIN settings
    THEN UNCHANGED <<people, settings, files>>
    ELSE /\ settings' = [p \in DOMAIN settings \union {m.person} |->
                           IF p = m.person THEN NoAction ELSE settings[p]]
         /\ save_settings
         /\ people' = [p \in Tracked \union {m.person} |->
                         IF p = m.person THEN Profile(NoAction) ELSE people[p]]

handle_presence_call(l, m) ==
  /\ \/ m.name = "check_presence" /\ UNCHANGED <<people, settings, files>>
     \/ m.name = "set_presence_action" /\ set_presence_action(m)
     \/ m.name = "register_presence_person" /\ register_presence_person(m)
  /\ current' = IF DOMAIN people' = Tracked THEN current ELSE {}
  /\ Answered(l)
  /\ UNCHANGED <<current_profile_name, people_profile_name, presence_state_known,
                 needs_sync, belief, announced>>

PresenceMessage(l) ==
  /\ presence_pc = "drain" /\ HasMessage(l)
  /\ LET m == Message(l)
     IN  \/ m.type = "identity" /\ handle_identity(l, m.name)
         \/ m.type = "call" /\ handle_presence_call(l, m)
  /\ UNCHANGED <<far, drops, presence_pc, user>>

-----------------------------------------------------------------------------
(* Polling and telling *)

\* poll_is_near: not yet due, a hit, or a miss; a miss is believed only at
\* the end of a window of searching.
Seen(s) == {s, "near"} \union (IF s = "near" THEN {"searching"}
                               ELSE IF s = "searching" THEN {"away"} ELSE {})

\* PersonProfile::poll for everybody, and presence_state_known.
PollPeople ==
  /\ presence_pc = "drain" /\ Drained /\ presence_pc' = "tell"
  /\ \E seen \in [Tracked -> [Backends -> {"away", "near", "searching"}]] :
       /\ \A p \in Tracked, b \in Backends : seen[p][b] \in Seen(people[p].seen[b])
       /\ people' = [p \in Tracked |->
            LET near == \E b \in Backends : seen[p][b] # "away"
            IN  [people[p] EXCEPT !.seen = seen[p], !.near = near,
                                  !.triggered = (near # people[p].near)]]
  /\ presence_state_known' = (presence_state_known \/ Tracked # {})
  /\ UNCHANGED <<linkVars, needs_sync, current_profile_name, settings, people_profile_name,
                 worldVars, belief, current, announced>>

Where(near) == IF near THEN "near" ELSE "away"
Synced(l)   == presence_state_known /\ needs_sync[l] /\ link[l].sock

OlliOnly        == {l \in {"olli"} : Sends(l)}
\* A transition is ambient: it goes out on both links.
TransitionLinks == {l \in Links : Sends(l)}

\* sync_state_to_new_links, then run_triggers: the last transition told is the
\* one a server keeps in user.presence.
Tell ==
  LET triggered == {p \in Tracked : people[p].triggered}
      synced    == {l \in Links : Synced(l)}
      sends     == synced \union (IF triggered = {} THEN {} ELSE TransitionLinks)
  IN  /\ presence_pc = "tell" /\ presence_pc' = "service"
      /\ needs_sync' = [l \in Links |-> needs_sync[l] /\ l \notin synced]
      /\ people' = [p \in Tracked |-> [people[p] EXCEPT !.triggered = FALSE]]
      /\ announced' = [p \in Persons |->
                         IF p \in triggered THEN Where(people[p].near) ELSE announced[p]]
      /\ \E last \in IF triggered = {} THEN {Where(AnyNear)}
                     ELSE {Where(people[p].near) : p \in triggered} :
           belief' = [l \in Links |-> IF ~(l \in sends /\ Heard(l)) THEN belief[l]
                                      ELSE last]
      /\ link' = [l \in Links |-> IF l \in sends THEN [link[l] EXCEPT !.idle = 0] ELSE link[l]]
      /\ UNCHANGED <<far, drops, presence_state_known, current_profile_name, settings,
                     people_profile_name, worldVars, current>>

-----------------------------------------------------------------------------
(* The world; but for the links, what it does is seen at the top of a turn *)

BetweenTurns == presence_pc = "service"

PresenceTime ==
  /\ BetweenTurns /\ LinksWanting /\ TimePasses /\ UNCHANGED presenceVars

toolState == <<people, presence_state_known, needs_sync, current_profile_name, settings,
               people_profile_name, presence_pc, current, announced>>

PresenceCall(l) ==
  /\ BetweenTurns /\ CanSay(l) /\ Upset
  /\ \/ Says(l, [type |-> "call", name |-> "check_presence"])
     \/ \E p \in Persons, t \in Triggers, a \in Actions :
          Says(l, [type |-> "call", name |-> "set_presence_action",
                   person |-> p, trigger |-> t, action |-> a])
     \/ \E p \in Persons :
          Says(l, [type |-> "call", name |-> "register_presence_person", person |-> p])
  /\ UNCHANGED <<toolState, files, user, belief>>

\* Somebody edits a settings file by hand: a person comes or goes.
Edit(n, p) ==
  /\ BetweenTurns /\ Upset
  /\ files' = [files EXCEPT ![n] =
       IF p \in DOMAIN @ THEN [q \in DOMAIN @ \ {p} |-> @[q]]
                         ELSE [q \in DOMAIN @ \union {p} |-> IF q = p THEN NoAction ELSE @[q]]]
  /\ UNCHANGED <<link, far, toolState, user, belief>>

\* A server's process ends, and what it knew of the user with it.
ServerStops(l) ==
  /\ BetweenTurns /\ Stops(l) /\ belief' = [belief EXCEPT ![l] = "unknown"]
  /\ user' = [user EXCEPT ![l] = IF l = "olli" THEN @ ELSE Nobody]
  /\ UNCHANGED <<toolState, files>>

\* olli starts again, perhaps for another of its users.
ServerStarts(l) ==
  /\ BetweenTurns /\ Starts(l)
  /\ \E n \in IF l = "olli" THEN Profiles ELSE {user[l]} : user' = [user EXCEPT ![l] = n]
  /\ UNCHANGED <<toolState, files, belief>>

\* A server that knows its user greets the tool with it; subcon takes the name
\* from olli, and tells the tools it has (subcon.cpp:505).
Greets(l) ==
  BetweenTurns /\ user[l] # Nobody /\ Welcome(l, user[l]) /\ UNCHANGED <<drops, presenceVars>>

Forwarded ==
  /\ BetweenTurns /\ far["olli"].up /\ far["subcon"].up /\ user["subcon"] # user["olli"]
  /\ user' = [user EXCEPT !["subcon"] = user["olli"]]
  /\ IF far["subcon"].peer = "ready"
       THEN CanSay("subcon") /\ Says("subcon", [type |-> "identity", name |-> user["olli"]])
       ELSE UNCHANGED <<link, far>>
  /\ UNCHANGED <<drops, toolState, files, belief>>

PresenceStep == PresenceService \/ (\E l \in Links : PresenceMessage(l)) \/ PollPeople \/ Tell
PresenceNext ==
  \/ PresenceStep \/ PresenceTime \/ Forwarded
  \/ \E l \in Links : PresenceCall(l) \/ ServerStops(l) \/ ServerStarts(l) \/ Greets(l)
  \/ \E n \in Profiles, p \in Persons : Edit(n, p)

PresenceSpec == LinkInit /\ PresenceInit /\
  [][PresenceNext \/ (LinkFault /\ UNCHANGED presenceVars)]_<<linkVars, presenceVars>>

-----------------------------------------------------------------------------
(* Properties *)

\* Between turns, a server that has identified itself on a connection that
\* still stands has the presence the tool has, unless the people were changed
\* since by another server's identity or by a call: what a sync held back, a
\* transition told twice or a drop in between must not break.  It is stated
\* for a profile of one person, which is what user.presence assumes
\* (presence.cpp:193).
BeliefCurrent ==
  presence_pc = "service" /\ Cardinality(Tracked) = 1 =>
    \A l \in current :
      far[l].peer # "none" /\ ~needs_sync[l] => belief[l] = Where(AnyNear)

\* "never touch an existing person's live near/away/backend state": what was last
\* announced of a person is what they are, so that a reconnect of the same
\* profile announces no second arrival (presence.cpp:332).
AnnouncedOnce ==
  presence_pc = "service" =>
    \A p \in Tracked : people[p].near <=> announced[p] = "near"
=============================================================================
