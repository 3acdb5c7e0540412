--------------------------------- MODULE Hue ---------------------------------
(* The lights tool (tools/hue): its calls become requests to a bridge, each of *)
(* which may be refused, fail, or time out and be sent once more, applied or   *)
(* not.  Scenes, the default fade and the scene loaded last are kept per       *)
(* profile on disk; the profile is that of the last identity, from either      *)
(* server, and the shared one when neither is left.                            *)
EXTENDS OlliLink

CONSTANTS
  Lights,       \* ids of the lights on the bridge
  Levels,       \* brightness: 1 .. the brightest
  Scenes,       \* names of scenes
  Fades,        \* default_transition_ms; -1: not set
  HueProfiles,  \* profile names
  Shared,       \* the empty profile name
  Shelf         \* profile -> the names in its scenes.json at the start; none: no file

ASSUME HueAssumption == Shared \in HueProfiles /\ -1 \in Fades /\ Shelf \in [HueProfiles -> SUBSET Scenes]

VARIABLES
  lamps,               \* the bridge's truth: light -> [on, level]
  lights_cache,        \* what the tool read last; no light before the first success
  local_scenes,        \* name -> light -> [on, level]
  default_transition,
  last_scene,          \* the last scene loaded whole, or "none"
  profile,             \* current_profile_name
  disk,                \* profile -> [file, scenes, fade, last]: whether there is a scenes.json,
                       \* what it holds, hue_settings.json and hue_state.json
  owner,               \* link -> the profile its server runs under
  hue_pc               \* "service" or "drain"

hueVars == <<lamps, lights_cache, local_scenes, default_transition, last_scene,
             profile, disk, owner, hue_pc>>
profileVars == <<local_scenes, default_transition, last_scene, profile, disk>>

Off == [l \in Lights |-> [on |-> FALSE, level |-> 1]]

-----------------------------------------------------------------------------
(* Profiles *)

KeepScenes(n) == local_scenes
\* A profile without a scenes.json leaves the scenes as they are.
load_scenes_from_disk(n) == IF disk[n].file THEN disk[n].scenes ELSE local_scenes

refresh_lights(cache, now) == {cache, now}

switch_profile(n) ==
  /\ profile' = n
  /\ local_scenes' = load_scenes_from_disk(n)
  /\ default_transition' = disk[n].fade
  /\ last_scene' = disk[n].last
  /\ lights_cache' \in refresh_lights(lights_cache, lamps)
  /\ UNCHANGED <<lamps, disk>>

HueInit ==
  /\ lamps = Off /\ lights_cache \in refresh_lights(<<>>, Off)
  /\ disk = [n \in HueProfiles |-> [file |-> Shelf[n] # {}, scenes |-> [s \in Shelf[n] |-> Off], fade |-> -1, last |-> "none"]]
  /\ profile = Shared /\ local_scenes = disk[Shared].scenes
  /\ default_transition = -1 /\ last_scene = "none"
  /\ owner \in [Links -> HueProfiles]
  /\ hue_pc = "service"

HueService ==
  /\ hue_pc = "service" /\ hue_pc' = "drain"
  /\ ServiceLinks
  /\ IF all_links_dropped THEN switch_profile(Shared)
     ELSE UNCHANGED <<lamps, lights_cache, profileVars>>
  /\ UNCHANGED owner

-----------------------------------------------------------------------------
(* Requests to the bridge *)

\* The answer, and how often the bridge has applied the request: a timeout says
\* nothing of it, and the request is sent once more after the first.
make_request ==
  {[answer |-> "ok", times |-> n] : n \in 1 .. 2} \union
  {[answer |-> "refused", times |-> n] : n \in 0 .. 1} \union
  {[answer |-> "failed", times |-> n] : n \in 0 .. 2}

Brighter(v) == IF v + 1 \in Levels THEN v + 1 ELSE v

Apply(x, body) ==
  LET on == IF body.power = "as is" THEN x.on ELSE body.power = "on"
  IN  [on |-> on, level |-> IF ~on THEN x.level
                            ELSE IF body.bri # 0 THEN body.bri
                            ELSE IF body.change THEN Brighter(x.level) ELSE x.level]

Applied(x, body, times) ==
  CASE times = 0 -> x
    [] times = 1 -> Apply(x, body)
    [] times = 2 -> Apply(Apply(x, body), body)

Power(on) == [power |-> IF on THEN "on" ELSE "off", bri |-> 0, change |-> FALSE]
Level(v)  == [power |-> "on", bri |-> v, change |-> FALSE]
Change    == [power |-> "as is", bri |-> 0, change |-> TRUE]
Bodies    == {Power(TRUE), Power(FALSE), Change} \union {Level(v) : v \in Levels}

\* A group's power command loses the levels of its lights (hue.cpp:1426).
GroupApply(body, times, ls) ==
  IF times > 0 /\ body.power # "as is" /\ body.bri = 0
    THEN \A l \in Lights : ls[l].on = (body.power = "on") /\ ls[l].level \in Levels
    ELSE \A l \in Lights : ls[l] = Applied(lamps[l], body, times)

-----------------------------------------------------------------------------
(* set_hue_light *)

OnlyChange(m) == m.body.change
per_light(m) == m.body.change \/ (m.body.power # "as is" /\ m.body.bri = 0)

Whole(m) == m.all /\ m.except = {} /\ ~per_light(m)

resolve_targets(m, cache) ==
  IF m.lights \union m.except \subseteq DOMAIN cache
    THEN (IF m.all THEN DOMAIN cache ELSE m.lights) \ m.except ELSE {}
Unresolved(m, cache) == ~Whole(m) /\ resolve_targets(m, cache) = {}

\* Lights that are off are left out of a bare relative change.
Skipped(m, ids, cache) == {l \in ids : m.body.change /\ m.body.power = "as is" /\ ~cache[l].on}

SendGroup(m, cache) ==
  \E r \in make_request :
    /\ \E ls \in [Lights -> [on : BOOLEAN, level : Levels]] :
         GroupApply(m.body, r.times, ls) /\ lamps' = ls
    /\ lights_cache' \in IF r.answer = "ok" THEN refresh_lights(cache, lamps') ELSE {cache}

\* One light after the other; the first failure to reach the bridge ends it.
SendEach(m, ids, cache) ==
  LET sent == ids \ Skipped(m, ids, cache)
  IN  \E tried \in SUBSET sent : \E r \in [tried -> make_request] :
        LET failed == {l \in tried : r[l].answer = "failed"}
            done   == {l \in tried : r[l].answer = "ok"}
        IN  /\ \/ tried = sent /\ failed = {}
               \/ \E l \in tried : failed = {l}
            /\ lamps' = [l \in Lights |-> IF l \in tried THEN Applied(lamps[l], m.body, r[l].times)
                                                         ELSE lamps[l]]
            /\ lights_cache' \in IF done = {} /\ sent = ids THEN {cache} ELSE refresh_lights(cache, lamps')

set_hue_light(m) ==
  /\ \E found \in IF Unresolved(m, lights_cache) THEN refresh_lights(lights_cache, lamps) ELSE {lights_cache} :
       IF Unresolved(m, found) THEN lights_cache' = found /\ UNCHANGED lamps
       ELSE \E cache \in IF m.body.change THEN refresh_lights(found, lamps) ELSE {found} :
              IF Whole(m) THEN SendGroup(m, cache) ELSE SendEach(m, resolve_targets(m, found), cache)
  /\ UNCHANGED profileVars

-----------------------------------------------------------------------------
(* Scenes and the default fade *)

Write(part, value) == disk' = [disk EXCEPT ![profile][part] = value]
save_scenes_to_disk == disk' = [disk EXCEPT ![profile].file = TRUE, ![profile].scenes = local_scenes']

\* The lights are read first: the scene is what they are now.
save_scene(s) ==
  /\ \/ s \notin DOMAIN local_scenes
        /\ lights_cache' = lamps
        /\ local_scenes' = [t \in DOMAIN local_scenes \union {s} |-> IF t = s THEN lamps ELSE local_scenes[t]]
        /\ save_scenes_to_disk
     \/ UNCHANGED <<lights_cache, local_scenes, disk>>
  /\ UNCHANGED <<lamps, default_transition, last_scene, profile>>

\* A light the scene wants off is sent nothing else.
SceneBody(x) == IF x.on THEN Level(x.level) ELSE Power(FALSE)

\* Every light is tried; the scene is noted when all of them took it.
load_scene(s) ==
  /\ IF s \notin DOMAIN local_scenes THEN UNCHANGED <<lamps, last_scene, disk>>
     ELSE \E r \in [DOMAIN local_scenes[s] -> make_request] :
            /\ lamps' = [l \in Lights |->
                 IF l \in DOMAIN r THEN Applied(lamps[l], SceneBody(local_scenes[s][l]), r[l].times) ELSE lamps[l]]
            /\ IF \A l \in DOMAIN r : r[l].answer = "ok"
                 THEN last_scene' = s /\ Write("last", s)
                 ELSE UNCHANGED <<last_scene, disk>>
  /\ lights_cache' \in refresh_lights(lights_cache, lamps')
  /\ UNCHANGED <<local_scenes, default_transition, profile>>

remove_scene(s) ==
  /\ IF s \notin DOMAIN local_scenes THEN UNCHANGED <<local_scenes, disk>>
     ELSE /\ local_scenes' = [t \in DOMAIN local_scenes \ {s} |-> local_scenes[t]]
          /\ save_scenes_to_disk
  /\ UNCHANGED <<lamps, lights_cache, default_transition, last_scene, profile>>

set_hue_default_fade(ms) ==
  /\ default_transition' = ms /\ Write("fade", ms)
  /\ UNCHANGED <<lamps, lights_cache, local_scenes, last_scene, profile>>

\* list_hue_lights reads the bridge and changes nothing else.
handle_hue_call(m) ==
  \/ m.name = "list_hue_lights" /\ lights_cache' \in refresh_lights(lights_cache, lamps)
     /\ UNCHANGED <<lamps, profileVars>>
  \/ m.name = "set_hue_light" /\ set_hue_light(m)
  \/ m.name = "save" /\ save_scene(m.scene)
  \/ m.name = "load" /\ load_scene(m.scene)
  \/ m.name = "remove" /\ remove_scene(m.scene)
  \/ m.name = "set_hue_default_fade" /\ set_hue_default_fade(m.ms)

HueMessage(l) ==
  /\ hue_pc = "drain" /\ HasMessage(l)
  /\ LET m == Message(l)
     IN  \/ m.type = "call" /\ handle_hue_call(m) /\ Answered(l)
         \/ /\ m.type = "identity" /\ switch_profile(m.name)
            /\ link' = [link EXCEPT ![l].incoming = Tail(@)]
  /\ UNCHANGED <<far, drops, owner, hue_pc>>

\* The end of the turn; every LIGHT_REFRESH_INTERVAL_SECONDS the lights are read.
HueTurn ==
  /\ hue_pc = "drain" /\ Drained /\ hue_pc' = "service"
  /\ lights_cache' \in refresh_lights(lights_cache, lamps)
  /\ UNCHANGED <<linkVars, lamps, profileVars, owner>>

-----------------------------------------------------------------------------
(* The world; but for links and lamps, what it does is seen at the top of a turn *)

Targets == {t \in [all : BOOLEAN, lights : SUBSET Lights, except : SUBSET Lights] :
              t.all <=> t.lights = {}}

HueCall(l) ==
  /\ hue_pc = "service" /\ CanSay(l) /\ Upset
  /\ \/ Says(l, [type |-> "call", name |-> "list_hue_lights"])
     \/ \E t \in Targets, b \in Bodies :
          Says(l, [type |-> "call", name |-> "set_hue_light", all |-> t.all, lights |-> t.lights,
                   except |-> t.except, body |-> b])
     \/ \E s \in Scenes, a \in {"save", "load", "remove"} :
          Says(l, [type |-> "call", name |-> a, scene |-> s])
     \/ \E ms \in Fades : Says(l, [type |-> "call", name |-> "set_hue_default_fade", ms |-> ms])
  /\ UNCHANGED hueVars

\* Somebody uses the wall switch, or another app.
Wall == /\ Upset /\ \E l \in Lights, x \in [on : BOOLEAN, level : Levels] :
                      x # lamps[l] /\ lamps' = [lamps EXCEPT ![l] = x]
        /\ UNCHANGED <<link, far, lights_cache, profileVars, owner, hue_pc>>

HueTime == hue_pc = "service" /\ LinksWanting /\ TimePasses /\ UNCHANGED hueVars
HueServer(l) == hue_pc = "service" /\ (Stops(l) \/ Starts(l)) /\ UNCHANGED hueVars
HueGreets(l) == hue_pc = "service" /\ Welcome(l, owner[l]) /\ UNCHANGED <<drops, hueVars>>

HueStep == HueService \/ (\E l \in Links : HueMessage(l)) \/ HueTurn
HueNext == HueStep \/ Wall \/ HueTime \/ \E l \in Links : HueCall(l) \/ HueGreets(l) \/ HueServer(l)

HueSpec == LinkInit /\ HueInit /\
  [][HueNext \/ (LinkFault /\ UNCHANGED hueVars)]_<<linkVars, hueVars>>

-----------------------------------------------------------------------------
(* Properties *)

Handling(l, name) == hue_pc = "drain" /\ HasMessage(l) /\ Message(l).type = "call" /\ Message(l).name = name

\* A profile's scenes stay as they were saved whatever other profiles the tool
\* works for in between: one goes, or changes, only by a remove while that
\* profile is the current one.  And the fade and the last scene the tool works
\* with are those of the current profile (hue.cpp:1003).
ScenesKept ==
  \A n \in HueProfiles : \A s \in DOMAIN disk[n].scenes :
    \/ s \in DOMAIN disk'[n].scenes /\ disk'[n].scenes[s] = disk[n].scenes[s]
    \/ n = profile /\ \E l \in Links : Handling(l, "remove") /\ Message(l).scene = s
Loaded ==
  /\ default_transition = disk[profile].fade /\ last_scene = disk[profile].last
  /\ \A s \in DOMAIN disk[profile].scenes :
       s \in DOMAIN local_scenes /\ local_scenes[s] = disk[profile].scenes[s]
ProfileKept == [][ScenesKept /\ Loaded']_<<linkVars, hueVars>>

\* "leave their level alone and bring it back at exactly that level" (hue.cpp:1432):
\* switching lights off and on, all of them or some, with requests that fail or
\* are sent twice, changes no level; only a call that names one does, a scene or
\* the wall switch.
PowerKeepsLevels ==
  [][\A k \in Lights :
       lamps'[k].level # lamps[k].level =>
         \/ drops' # drops
         \/ \E l \in Links : Handling(l, "load")
         \/ \E l \in Links : Handling(l, "set_hue_light") /\ (Message(l).body.bri # 0 \/ Message(l).body.change)]_<<linkVars, hueVars>>
=============================================================================
