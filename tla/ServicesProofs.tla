-------------------------- MODULE ServicesProofs --------------------------
(***************************************************************************)
(* Theorems about the twelve parts of MCServices, for any settings, homes, *)
(* accounts, slugs, callers, bands and presets, presses, lists and         *)
(* snapshots, and any bounds.  Each part has its inductive invariant; the  *)
(* parts never move together, so the invariant of the whole is, for every  *)
(* part, that the part that runs has its own.                              *)
(***************************************************************************)
EXTENDS MCServices, SequenceTheorems, FiniteSetTheorems, WellFoundedInduction, TLAPS

-----------------------------------------------------------------------------
(***************************************************************************)
(* Settings of the speaker                                                 *)
(***************************************************************************)

\* No answer is ahead of the cloud, and what was shown of a write is not either.
SpeakerOrder ==
    \A s \in Settings : readable[s] <= value[s] /\ writing[s] <= value[s]

\* The pause lasts until the answers have caught up with the writes that were shown.
SpeakerPause == ~cooling => \A s \in Settings : written[s] <= readable[s]

\* A read that the integration began by itself, and that no write overtook, answers
\* with what was written, or will.
SpeakerReads ==
    \A r \in Reads \ overtaken, s \in Settings :
        read[r].cause # "user" =>
            /\ read[r].stage = "asked" => written[s] <= readable[s]
            /\ read[r].stage = "served" => written[s] <= read[r].got[s]

SpeakerInv == Speaker!TypeOK /\ SpeakerOrder /\ SpeakerPause /\ SpeakerReads

LEMMA SpeakerInit == Speaker!Init => SpeakerInv
<1> SUFFICES ASSUME Speaker!Init PROVE SpeakerInv
  OBVIOUS
<1> USE BoundAssumption DEF Speaker!Init, Speaker!Values, Speaker!Idle, Speaker!Causes
<1>1. \A r \in Reads : read[r] = Speaker!Idle
  OBVIOUS
<1>2. Speaker!TypeOK
  <2>1. 0 \in Speaker!Values
    OBVIOUS
  <2> QED BY <2>1 DEF Speaker!TypeOK
<1>3. SpeakerOrder /\ SpeakerPause
  BY DEF SpeakerOrder, SpeakerPause
<1>4. SpeakerReads
  BY <1>1 DEF SpeakerReads
<1> QED BY <1>2, <1>3, <1>4 DEF SpeakerInv

LEMMA SpeakerCloud ==
    ASSUME SpeakerInv, NEW s \in Settings,
           \/ Speaker!ChangedInApp(s) \/ Speaker!CatchesUp(s)
           \/ Speaker!Write(s) \/ Speaker!Written(s) \/ Speaker!WriteFails(s)
    PROVE  SpeakerInv'
<1> USE BoundAssumption
    DEF SpeakerInv, Speaker!TypeOK, Speaker!Values, SpeakerOrder, SpeakerPause, SpeakerReads
<1>1. CASE Speaker!ChangedInApp(s)
  BY <1>1 DEF Speaker!ChangedInApp
<1>2. CASE Speaker!CatchesUp(s)
  BY <1>2 DEF Speaker!CatchesUp
<1>3. CASE Speaker!Write(s)
  BY <1>3 DEF Speaker!Write
<1>4. CASE Speaker!Written(s)
  BY <1>4 DEF Speaker!Written, Speaker!cloud
<1>5. CASE Speaker!WriteFails(s)
  BY <1>5 DEF Speaker!WriteFails, Speaker!cloud
<1> QED BY <1>1, <1>2, <1>3, <1>4, <1>5

\* A read that begins: not before the pause is over, unless the user asks for it.
LEMMA SpeakerAsks ==
    ASSUME SpeakerInv, NEW r \in Reads, NEW cause \in Speaker!Causes, Speaker!Ask(r, cause),
           cause # "user" => ~cooling,
           UNCHANGED <<value, readable, cooling, shown, writing, written>>,
           {allowed, rested, quiet}' \subseteq BOOLEAN
    PROVE  SpeakerInv'
<1> USE DEF SpeakerInv
<1> DEFINE new == [Speaker!Idle EXCEPT !.cause = cause, !.stage = "asked"]
<1>1. read' = [read EXCEPT ![r] = new] /\ overtaken' = overtaken \ {r}
  BY DEF Speaker!Ask
<1>2. /\ new \in [cause : Speaker!Causes, stage : {"idle", "asked", "served"},
                   got : [Settings -> Speaker!Values]]
      /\ new.cause = cause /\ new.stage = "asked"
  <2>1. Speaker!Idle \in [cause : Speaker!Causes, stage : {"idle", "asked", "served"},
                          got : [Settings -> Speaker!Values]]
    BY BoundAssumption DEF Speaker!Idle, Speaker!Causes, Speaker!Values
  <2> QED BY <2>1
<1> HIDE DEF new
<1>3. Speaker!TypeOK'
  BY <1>1, <1>2 DEF Speaker!TypeOK
<1>4. SpeakerOrder' /\ SpeakerPause'
  BY DEF SpeakerOrder, SpeakerPause
<1>5. SpeakerReads'
  <2> SUFFICES ASSUME NEW q \in (Reads \ overtaken)', NEW s \in Settings,
                      read'[q].cause # "user"
               PROVE  /\ read'[q].stage = "asked" => written[s] <= readable[s]
                      /\ read'[q].stage = "served" => written[s] <= read'[q].got[s]
    BY DEF SpeakerReads
  <2>1. CASE q = r
    BY <1>1, <1>2, <2>1 DEF Speaker!TypeOK, SpeakerPause
  <2>2. CASE q # r
    BY <1>1, <2>2 DEF Speaker!TypeOK, SpeakerReads
  <2> QED BY <2>1, <2>2
<1> QED BY <1>3, <1>4, <1>5

\* A read that ends.
LEMMA SpeakerReadEnds ==
    ASSUME SpeakerInv, NEW r \in Reads, read' = [read EXCEPT ![r] = Speaker!Idle],
           UNCHANGED <<value, readable, cooling, writing, overtaken, written>>,
           shown' \in [Settings -> Speaker!Values],
           {allowed, rested, quiet}' \subseteq BOOLEAN
    PROVE  SpeakerInv'
<1> USE DEF SpeakerInv
<1>1. /\ Speaker!Idle \in [cause : Speaker!Causes, stage : {"idle", "asked", "served"},
                            got : [Settings -> Speaker!Values]]
      /\ Speaker!Idle.cause = "user"
  BY BoundAssumption DEF Speaker!Idle, Speaker!Causes, Speaker!Values
<1>2. Speaker!TypeOK'
  BY <1>1 DEF Speaker!TypeOK
<1>3. SpeakerOrder' /\ SpeakerPause'
  BY DEF SpeakerOrder, SpeakerPause
<1>4. SpeakerReads'
  BY <1>1 DEF SpeakerReads, Speaker!TypeOK
<1> QED BY <1>2, <1>3, <1>4

LEMMA SpeakerRead ==
    ASSUME SpeakerInv, NEW r \in Reads,
           \/ Speaker!Serve(r) \/ Speaker!Poll(r) \/ Speaker!Triggered(r)
           \/ Speaker!UserReads(r) \/ Speaker!Answered(r) \/ Speaker!ReadFails(r)
    PROVE  SpeakerInv'
<1> USE DEF Speaker!cloud
<1>0. {allowed, cooling, rested, quiet} \subseteq BOOLEAN /\ Speaker!TypeOK
  BY DEF SpeakerInv, Speaker!TypeOK
<1>1. CASE Speaker!Serve(r)
  BY <1>1, BoundAssumption
     DEF Speaker!Serve, SpeakerInv, Speaker!TypeOK, Speaker!Values, SpeakerOrder, SpeakerPause,
         SpeakerReads
<1>2. CASE Speaker!Poll(r)
  BY <1>0, <1>2, SpeakerAsks DEF Speaker!Poll, Speaker!Causes
<1>3. CASE Speaker!Triggered(r)
  <2>1. CASE Speaker!PushMayRead /\ Speaker!Ask(r, "push")
    BY <1>0, <1>3, <2>1, SpeakerAsks DEF Speaker!Triggered, Speaker!PushMayRead, Speaker!Causes
  <2>2. CASE UNCHANGED <<read, overtaken>>
    BY <1>3, <2>2 DEF Speaker!Triggered, SpeakerInv, Speaker!TypeOK, SpeakerOrder, SpeakerPause,
                      SpeakerReads
  <2> QED BY <1>3, <2>1, <2>2 DEF Speaker!Triggered
<1>4. CASE Speaker!UserReads(r)
  BY <1>0, <1>4, SpeakerAsks DEF Speaker!UserReads, Speaker!Causes
<1>5. CASE Speaker!Answered(r)
  <2>1. read[r].got \in [Settings -> Speaker!Values]
    BY <1>0 DEF Speaker!TypeOK
  <2> QED BY <1>0, <1>5, <2>1, SpeakerReadEnds DEF Speaker!Answered
<1>6. CASE Speaker!ReadFails(r)
  <2>1. shown' \in [Settings -> Speaker!Values] /\ {allowed, rested, quiet}' \subseteq BOOLEAN
    BY <1>0, <1>6 DEF Speaker!TypeOK, Speaker!ReadFails
  <2> QED BY <1>6, <2>1, SpeakerReadEnds DEF Speaker!ReadFails
<1> QED BY <1>1, <1>2, <1>3, <1>4, <1>5, <1>6

LEMMA SpeakerNext == SpeakerInv /\ Speaker!Next => SpeakerInv'
<1> SUFFICES ASSUME SpeakerInv, Speaker!Next PROVE SpeakerInv'
  OBVIOUS
<1>1. CASE Speaker!CooldownEnds \/ Speaker!TimePasses
  BY <1>1 DEF Speaker!CooldownEnds, Speaker!TimePasses, SpeakerInv, Speaker!TypeOK, Speaker!cloud,
              SpeakerOrder, SpeakerPause, SpeakerReads
<1> QED BY <1>1, SpeakerCloud, SpeakerRead DEF Speaker!Next

\* A read that ends brings back nothing from before a write, unless the write came
\* while the read was under way or the user asked for the read.
LEMMA SpeakerShows == SpeakerInv /\ Speaker!Next => Speaker!StaysShown /\ Speaker!TypeOK'
<1> SUFFICES ASSUME SpeakerInv, Speaker!Next PROVE Speaker!StaysShown
  BY SpeakerNext DEF SpeakerInv
<1> SUFFICES ASSUME NEW r \in Reads, NEW s \in Settings,
                    Speaker!Answered(r), r \notin overtaken, read[r].cause # "user"
             PROVE  ~(shown'[s] < written[s])
  BY DEF Speaker!StaysShown
<1>1. shown'[s] = read[r].got[s] /\ read[r].stage = "served"
  BY DEF Speaker!Answered
<1>2. written[s] <= read[r].got[s]
  BY <1>1 DEF SpeakerInv, SpeakerReads
<1>3. written[s] \in Int /\ read[r].got[s] \in Int
  BY DEF SpeakerInv, Speaker!TypeOK, Speaker!Values
<1> QED BY <1>1, <1>2, <1>3

-----------------------------------------------------------------------------
(***************************************************************************)
(* The equalizer                                                           *)
(***************************************************************************)

Builtin == Equal!Builtin
Puts == [stage : {"idle", "asked", "served"}, what : {"equalizer", "plain"}, aim : Equal!Panel]
Readings == [user : BOOLEAN, stage : {"idle", "asked", "served", "collected"},
             got : Equal!Held \union Equal!Panel, fresh : BOOLEAN, met : BOOLEAN]

EqualizerTypeOK ==
    /\ reported \in BOOLEAN /\ loose \in BOOLEAN /\ astray \in BOOLEAN
    /\ held \in Equal!Held /\ echo \in Equal!Held /\ panel \in Equal!Panel
    /\ put \in [Equal!Platforms -> Puts] /\ paused \in BOOLEAN
    /\ crossed \subseteq Equal!Platforms

\* The panel is the speaker's, unless it is known to be loose or something is under way.
PanelInv == ~loose /\ Equal!EqPuts = {} => Equal!SameEqualizer(panel, held)

\* A PUT that nothing overlapped is the only one, and once served is what the speaker
\* has; one that was overlapped leaves the panel loose.
AloneInv ==
    \A p \in Equal!EqPuts :
        IF p \in crossed THEN loose
        ELSE /\ Equal!EqPuts = {p}
             /\ put[p].stage = "served" =>
                    /\ held.enabled = put[p].aim.enabled /\ held.bands = put[p].aim.bands
                    /\ held.preset = Equal!Wire(put[p].aim.preset)

\* The plain switch: written by the platform of switches alone; while it is not, and
\* PUTs of both kinds have not met, panel and PUTs have it as the speaker does.
SwitchInv ==
    /\ \A p \in Equal!Busy : put[p].what = "plain" =>
        /\ p = "switch"
        /\ put[p].stage = "served" => held.plain = put[p].aim.plain
    /\ ~astray =>
        \/ \A p \in Equal!Busy : put[p].what = "plain"
        \/ \A p \in Equal!Busy : put[p].what = "equalizer"
    /\ ~astray /\ Equal!Busy = Equal!EqPuts =>
        panel.plain = held.plain /\ \A p \in Equal!EqPuts : put[p].aim.plain = held.plain

\* Where the equalizer is made up, only presets of ours are shown or sent, with their bands.
Ours(s)  == s.preset \in Builtin \union {Equal!Manual} /\ Equal!Exact(s)
OursInv  == ~reported => Ours(panel) /\ \A p \in Equal!Busy : Ours(put[p].aim)

\* What a read brings: the screens as they were answered, then the list made of them.
ReadTypeOK ==
    /\ reading \in Readings
    /\ reading.stage = "served" => reading.got \in Equal!Held
    /\ reading.stage = "collected" =>
        reading.got \in Equal!Panel /\ (~reported => Ours(reading.got))

Alike(g, h) == g.enabled = h.enabled /\ g.preset = h.preset /\ g.bands = h.bands

\* The cloud is behind in the pause after a write alone, unless what is shown is loose.
EchoInv ==
    /\ ~paused /\ ~loose /\ Equal!EqPuts = {} => Alike(echo, held)
    /\ ~paused /\ ~astray /\ Equal!Busy = Equal!EqPuts => echo.plain = held.plain

\* A read that nothing met brings what the cloud has, if that was the cloud's answer or
\* the integration asked by itself and what was shown was not loose.
ReadingInv ==
    reading.stage # "idle" /\ ~reading.met =>
        /\ Equal!Busy = {} /\ (~reading.user => ~paused)
        /\ reading.stage = "served" =>
            /\ reading.fresh => reading.got = held /\ echo = held
            /\ ~reading.user /\ ~loose => Alike(reading.got, held)
            /\ ~reading.user /\ ~astray => reading.got.plain = held.plain
        /\ reading.stage = "collected" =>
            /\ reading.fresh => /\ echo = held /\ reading.got.plain = held.plain
                                /\ reported => Equal!SameEqualizer(reading.got, held)
            /\ (~reading.user \/ ~reported) /\ ~loose =>
                    Equal!SameEqualizer(reading.got, held)
            /\ ~reading.user /\ ~astray => reading.got.plain = held.plain

EqualizerInv == /\ EqualizerTypeOK /\ PanelInv /\ AloneInv /\ SwitchInv /\ OursInv
                /\ ReadTypeOK /\ EchoInv /\ ReadingInv

LEMMA EqualizerSound == EqualizerInv => Equal!PanelIsHeld /\ Equal!PresetIsExact
<1> SUFFICES ASSUME EqualizerInv PROVE Equal!PanelIsHeld /\ Equal!PresetIsExact
  OBVIOUS
<1>1. ~astray /\ Equal!Busy = {} => panel.plain = held.plain
  <2>1. Equal!Busy = {} => Equal!EqPuts = {}
    BY DEF Equal!EqPuts
  <2> QED BY <2>1 DEF EqualizerInv, SwitchInv
<1>2. Equal!PanelIsHeld
  BY <1>1 DEF EqualizerInv, PanelInv, Equal!PanelIsHeld
<1>3. Equal!PresetIsExact
  BY DEF EqualizerInv, OursInv, Ours, Equal!PresetIsExact
<1> QED BY <1>2, <1>3

-----------------------------------------------------------------------------

\* The name that bands are shown by.
LEMMA MatchIs ==
    ASSUME NEW preset, NEW bands
    PROVE  /\ preset # Equal!User => Equal!Match(preset, bands) = preset
           /\ preset = Equal!User =>
                \/ /\ Equal!Match(preset, bands) \in Builtin
                   /\ Presets[Equal!Match(preset, bands)] = bands
                \/ /\ Equal!Match(preset, bands) = Equal!Manual
                   /\ \A p \in Builtin : Presets[p] # bands
BY DEF Equal!Match, Builtin

\* What is read is the speaker's equalizer, by name.
LEMMA FromTreeIs ==
    ASSUME NEW h \in Equal!Held
    PROVE  /\ Equal!FromTree(h) \in Equal!Panel /\ Equal!FromTree(h).plain = h.plain
           /\ Equal!SameEqualizer(Equal!FromTree(h), h)
<1> DEFINE m == Equal!Match(h.preset, h.bands)
<1>1. /\ h.preset \in Builtin \union Own \union {Equal!User}
      /\ h.bands \in [Bands -> Levels] /\ h.enabled \in BOOLEAN /\ h.plain \in BOOLEAN
  BY DEF Equal!Held, Equal!Group, Builtin
<1>2. \/ h.preset # Equal!User /\ m = h.preset
      \/ h.preset = Equal!User /\ m \in Builtin /\ Presets[m] = h.bands
      \/ h.preset = Equal!User /\ m = Equal!Manual
  BY MatchIs
<1> HIDE DEF m
<1>3. Equal!FromTree(h) = [h EXCEPT !.preset = m]
  BY DEF Equal!FromTree, m
<1>4. m \in Builtin \union Own \union {Equal!Manual}
  BY <1>1, <1>2
<1>5. /\ Equal!FromTree(h) \in Equal!Panel
      /\ Equal!FromTree(h).enabled = h.enabled /\ Equal!FromTree(h).bands = h.bands
      /\ Equal!FromTree(h).preset = m /\ Equal!FromTree(h).plain = h.plain
  BY <1>3, <1>4 DEF Equal!Held, Equal!Panel, Equal!Group, Builtin
<1>6. h.preset # Equal!User => h.preset # Equal!Manual
  BY <1>1, PresetAssumption DEF Builtin, Equal!Builtin, Equal!Manual
<1> QED BY <1>2, <1>5, <1>6 DEF Equal!SameEqualizer, Equal!Wire, Builtin

\* What is made up keeps enabled and bands as they were shown, with a preset of ours that
\* has these bands; what it was the same as, it still is.
LEMMA SyntheticIs ==
    ASSUME NEW s \in Equal!Panel, NEW h \in Equal!Held, NEW g \in Equal!Held
    PROVE  /\ Equal!Synthetic(s, h) \in Equal!Panel /\ Equal!Synthetic(s, h).plain = h.plain
           /\ Ours(Equal!Synthetic(s, h))
           /\ Ours(s) /\ Equal!SameEqualizer(s, g) =>
                Equal!SameEqualizer(Equal!Synthetic(s, h), g)
<1> DEFINE m == Equal!Match(Equal!User, s.bands)
<1>1. \/ m \in Builtin /\ Presets[m] = s.bands
      \/ m = Equal!Manual /\ \A p \in Builtin : Presets[p] # s.bands
  BY MatchIs
<1> HIDE DEF m
<1>2. Equal!Synthetic(s, h) = [s EXCEPT !.preset = m, !.plain = h.plain]
  BY DEF Equal!Synthetic, m
<1>3. m \in Builtin \union Own \union {Equal!Manual} /\ h.plain \in BOOLEAN
  BY <1>1 DEF Equal!Held, Equal!Group
<1>4. /\ Equal!Synthetic(s, h) \in Equal!Panel /\ Equal!Synthetic(s, h).plain = h.plain
      /\ Equal!Synthetic(s, h).enabled = s.enabled /\ Equal!Synthetic(s, h).bands = s.bands
      /\ Equal!Synthetic(s, h).preset = m
  BY <1>2, <1>3 DEF Equal!Panel, Equal!Group, Builtin
<1>5. Equal!Manual \notin Builtin
  BY PresetAssumption DEF Builtin, Equal!Builtin, Equal!Manual
<1>6. Ours(Equal!Synthetic(s, h))
  BY <1>1, <1>4, <1>5 DEF Ours, Equal!Exact, Builtin
<1>7. ASSUME Ours(s), Equal!SameEqualizer(s, g)
      PROVE  Equal!SameEqualizer(Equal!Synthetic(s, h), g)
  <2>1. CASE g.preset = Equal!User
    BY <1>1, <1>4, <1>7, <2>1 DEF Equal!SameEqualizer, Equal!Wire, Builtin
  <2>2. CASE g.preset # Equal!User
    <3>1. s.preset \in Builtin /\ g.preset = s.preset /\ Presets[s.preset] = s.bands
      BY <1>7, <2>2 DEF Equal!SameEqualizer, Equal!Wire, Ours, Equal!Exact, Builtin
    <3>2. m = s.preset
      BY <1>1, <3>1, PresetAssumption DEF Builtin, Equal!Builtin
    <3> QED BY <1>4, <1>5, <1>7, <3>1, <3>2 DEF Equal!SameEqualizer, Equal!Wire
  <2> QED BY <2>1, <2>2
<1> QED BY <1>4, <1>6, <1>7

LEMMA UnreadIs ==
    /\ Equal!Unread \in Equal!Panel /\ Ours(Equal!Unread)
    /\ Equal!NoPut \in Puts /\ Equal!NoPut.stage = "idle"
    /\ Equal!NoRead \in Readings /\ Equal!NoRead.stage = "idle"
<1>1. Equal!Unread \in Equal!Panel /\ Equal!Unread.preset = Equal!Manual
  BY PresetAssumption DEF Equal!Unread, Equal!Flat, Equal!Panel, Equal!Group
<1>2. Ours(Equal!Unread)
  BY <1>1, PresetAssumption DEF Ours, Equal!Exact, Equal!Builtin, Equal!Manual
<1> QED BY <1>1, <1>2 DEF Equal!NoPut, Puts, Equal!NoRead, Readings

LEMMA EqualizerInit == Equal!Init => EqualizerInv
<1> SUFFICES ASSUME Equal!Init PROVE EqualizerInv
  OBVIOUS
<1>1. /\ reported \in BOOLEAN /\ held \in Equal!Held
      /\ panel = IF reported THEN Equal!FromTree(held) ELSE Equal!Synthetic(Equal!Unread, held)
      /\ put = [p \in Equal!Platforms |-> Equal!NoPut]
      /\ echo = held /\ paused = FALSE /\ reading = Equal!NoRead
      /\ crossed = {} /\ loose = ~reported /\ astray = FALSE
  BY DEF Equal!Init
<1>2. /\ panel \in Equal!Panel /\ panel.plain = held.plain
      /\ reported => Equal!SameEqualizer(panel, held)
      /\ ~reported => Ours(panel)
  BY <1>1, FromTreeIs, SyntheticIs, UnreadIs
<1>3. Equal!Busy = {} /\ Equal!EqPuts = {}
  BY <1>1, UnreadIs DEF Equal!Busy, Equal!EqPuts
<1>4. EqualizerTypeOK
  BY <1>1, <1>2, UnreadIs DEF EqualizerTypeOK
<1>5. PanelInv /\ AloneInv /\ SwitchInv /\ OursInv
  BY <1>1, <1>2, <1>3 DEF PanelInv, AloneInv, SwitchInv, OursInv
<1>6. ReadTypeOK /\ EchoInv /\ ReadingInv
  BY <1>1, UnreadIs DEF ReadTypeOK, EchoInv, ReadingInv, Alike
<1> QED BY <1>4, <1>5, <1>6 DEF EqualizerInv

\* A PUT and a change in the app meet the read under way ...
LEMMA MetReadIs ==
    ASSUME ReadTypeOK, reading' = Equal!MetRead, reported' = reported
    PROVE  ReadTypeOK' /\ ReadingInv'
<1> DEFINE met == reading.stage # "idle"
<1>1. met \in BOOLEAN /\ reading' = [reading EXCEPT !.met = met]
  BY DEF Equal!MetRead
<1> HIDE DEF met
<1>2. /\ reading' \in Readings /\ reading'.stage = reading.stage /\ reading'.met = met
      /\ reading'.got = reading.got
  BY <1>1 DEF ReadTypeOK, Readings
<1>3. ReadTypeOK'
  BY <1>2 DEF ReadTypeOK, Ours, Equal!Exact, Equal!Panel, Equal!Held, Equal!Group, Equal!Builtin
<1> QED BY <1>2, <1>3 DEF ReadingInv, met

\* ... and while a PUT is under way, a read has been met.
LEMMA BusyMeets ==
    ASSUME ReadTypeOK, ReadingInv, Equal!Busy # {}, UNCHANGED <<reading, reported>>
    PROVE  ReadTypeOK' /\ ReadingInv'
BY DEF ReadTypeOK, ReadingInv, Ours, Equal!Exact

\* The equalizer of what is alike is the same.
LEMMA AlikeIsSame ==
    ASSUME NEW s, NEW g, NEW h, Alike(g, h), Equal!SameEqualizer(s, g)
    PROVE  Equal!SameEqualizer(s, h)
BY DEF Alike, Equal!SameEqualizer

\* What the steps of a read leave alone before the list is replaced.
LEMMA ShownStays ==
    ASSUME EqualizerInv,
           UNCHANGED <<reported, held, panel, put, crossed, loose, astray>>,
           echo' \in Equal!Held, paused' \in BOOLEAN
    PROVE  /\ EqualizerTypeOK' /\ PanelInv' /\ AloneInv' /\ SwitchInv' /\ OursInv'
           /\ Equal!Busy' = Equal!Busy /\ Equal!EqPuts' = Equal!EqPuts
<1>1. Equal!Busy' = Equal!Busy /\ Equal!EqPuts' = Equal!EqPuts
  BY DEF Equal!Busy, Equal!EqPuts
<1>2. EqualizerTypeOK'
  BY DEF EqualizerInv, EqualizerTypeOK
<1>3. PanelInv' /\ OursInv'
  BY <1>1 DEF EqualizerInv, PanelInv, OursInv, Equal!SameEqualizer
<1>4. AloneInv' /\ SwitchInv'
  BY <1>1 DEF EqualizerInv, AloneInv, SwitchInv
<1> QED BY <1>1, <1>2, <1>3, <1>4

LEMMA ReadSteps ==
    ASSUME EqualizerInv,
           \/ \E user \in BOOLEAN : Equal!Ask(user)
           \/ Equal!ReadServed \/ Equal!Collect \/ Equal!ReadFails
           \/ Equal!CatchesUp \/ Equal!PauseEnds
    PROVE  EqualizerInv'
<1>0. /\ reading \in Readings /\ echo \in Equal!Held /\ held \in Equal!Held
      /\ panel \in Equal!Panel /\ paused \in BOOLEAN
  BY DEF EqualizerInv, EqualizerTypeOK, ReadTypeOK
<1>1. ASSUME NEW user \in BOOLEAN, Equal!Ask(user) PROVE EqualizerInv'
  <2> DEFINE met == Equal!Busy # {}
             asked == [Equal!NoRead EXCEPT !.user = user, !.stage = "asked", !.met = met]
  <2>1. /\ reading' = asked /\ met \in BOOLEAN /\ (user \/ ~paused)
        /\ UNCHANGED <<reported, held, echo, panel, put, paused, crossed, loose, astray>>
    BY <1>1 DEF Equal!Ask, Equal!MayAsk
  <2>2. /\ asked \in Readings /\ asked.user = user /\ asked.stage = "asked"
        /\ asked.met = met
    BY UnreadIs DEF Readings
  <2> HIDE DEF asked, met
  <2>3. /\ EqualizerTypeOK' /\ PanelInv' /\ AloneInv' /\ SwitchInv' /\ OursInv'
        /\ Equal!Busy' = Equal!Busy /\ Equal!EqPuts' = Equal!EqPuts
    BY <1>0, <2>1, ShownStays
  <2>4. /\ reading' \in Readings /\ reading'.stage = "asked" /\ reading'.user = user
        /\ reading'.met = met
    <3>1. reading' = asked
      BY <2>1
    <3> QED BY <2>2, <3>1
  <2>5. ReadTypeOK'
    BY <2>4 DEF ReadTypeOK
  <2>6. EchoInv'
    BY <2>1, <2>3 DEF EqualizerInv, EchoInv, Alike
  <2>7. ReadingInv'
    <3> SUFFICES ASSUME ~reading'.met PROVE Equal!Busy' = {} /\ (~reading'.user => ~paused')
      BY <2>4 DEF ReadingInv
    <3>1. Equal!Busy = {}
      BY <2>4 DEF met
    <3> QED BY <2>1, <2>3, <2>4, <3>1
  <2> QED BY <2>3, <2>5, <2>6, <2>7 DEF EqualizerInv
<1>2. ASSUME Equal!ReadServed PROVE EqualizerInv'
  <2> DEFINE fresh == echo = held
  <2>1. /\ reading.stage = "asked" /\ fresh \in BOOLEAN
        /\ reading' = [reading EXCEPT !.stage = "served", !.got = echo, !.fresh = fresh]
        /\ UNCHANGED <<reported, held, echo, panel, put, paused, crossed, loose, astray>>
    BY <1>2 DEF Equal!ReadServed
  <2> HIDE DEF fresh
  <2>2. /\ reading' \in Readings /\ reading'.stage = "served" /\ reading'.got = echo
        /\ reading'.fresh = fresh /\ reading'.user = reading.user /\ reading'.met = reading.met
    BY <1>0, <2>1 DEF Readings
  <2>3. /\ EqualizerTypeOK' /\ PanelInv' /\ AloneInv' /\ SwitchInv' /\ OursInv'
        /\ Equal!Busy' = Equal!Busy /\ Equal!EqPuts' = Equal!EqPuts
    BY <1>0, <2>1, ShownStays
  <2>4. ReadTypeOK'
    BY <1>0, <2>1, <2>2 DEF ReadTypeOK
  <2>5. EchoInv'
    BY <2>1, <2>3 DEF EqualizerInv, EchoInv, Alike
  <2>6. ReadingInv'
    <3> SUFFICES ASSUME ~reading.met
                 PROVE  /\ Equal!Busy = {} /\ (~reading.user => ~paused)
                        /\ fresh => echo = held
                        /\ ~reading.user /\ ~loose => Alike(echo, held)
                        /\ ~reading.user /\ ~astray => echo.plain = held.plain
      BY <2>1, <2>2, <2>3 DEF ReadingInv, Alike
    <3>1. Equal!Busy = {} /\ (~reading.user => ~paused)
      BY <2>1 DEF EqualizerInv, ReadingInv
    <3>2. Equal!EqPuts = {}
      BY <3>1 DEF Equal!EqPuts
    <3> QED BY <3>1, <3>2 DEF EqualizerInv, EchoInv, fresh
  <2> QED BY <2>3, <2>4, <2>5, <2>6 DEF EqualizerInv
<1>3. ASSUME Equal!Collect PROVE EqualizerInv'
  <2> DEFINE list == IF reported THEN Equal!FromTree(reading.got)
                     ELSE Equal!Synthetic(panel, reading.got)
  <2>1. /\ reading.stage = "served"
        /\ reading' = [reading EXCEPT !.stage = "collected", !.got = list]
        /\ UNCHANGED <<reported, held, echo, panel, put, paused, crossed, loose, astray>>
    BY <1>0, <1>3 DEF Equal!Collect, Readings
  <2>2. reading.got \in Equal!Held
    BY <2>1 DEF EqualizerInv, ReadTypeOK
  <2>3. /\ list \in Equal!Panel /\ list.plain = reading.got.plain
        /\ reported => Equal!SameEqualizer(list, reading.got)
        /\ ~reported => Ours(list)
    BY <1>0, <2>2, FromTreeIs, SyntheticIs
  <2>4. ~reported /\ Equal!SameEqualizer(panel, held) => Equal!SameEqualizer(list, held)
    BY <1>0, <2>2, SyntheticIs DEF EqualizerInv, OursInv
  <2> HIDE DEF list
  <2>5. /\ reading' \in Readings /\ reading'.stage = "collected" /\ reading'.got = list
        /\ reading'.fresh = reading.fresh /\ reading'.user = reading.user
        /\ reading'.met = reading.met
    BY <1>0, <2>1, <2>3 DEF Readings
  <2>6. /\ EqualizerTypeOK' /\ PanelInv' /\ AloneInv' /\ SwitchInv' /\ OursInv'
        /\ Equal!Busy' = Equal!Busy /\ Equal!EqPuts' = Equal!EqPuts
    BY <1>0, <2>1, ShownStays
  <2>7. ReadTypeOK'
    BY <2>1, <2>3, <2>5 DEF ReadTypeOK
  <2>8. EchoInv'
    BY <2>1, <2>6 DEF EqualizerInv, EchoInv, Alike
  <2>9. ReadingInv'
    <3> SUFFICES ASSUME ~reading.met
                 PROVE  /\ Equal!Busy = {} /\ (~reading.user => ~paused)
                        /\ reading.fresh => /\ echo = held /\ list.plain = held.plain
                                            /\ reported => Equal!SameEqualizer(list, held)
                        /\ (~reading.user \/ ~reported) /\ ~loose =>
                              Equal!SameEqualizer(list, held)
                        /\ ~reading.user /\ ~astray => list.plain = held.plain
      BY <2>1, <2>5, <2>6 DEF ReadingInv, Equal!SameEqualizer
    <3>1. /\ Equal!Busy = {} /\ (~reading.user => ~paused)
          /\ reading.fresh => reading.got = held /\ echo = held
          /\ ~reading.user /\ ~loose => Alike(reading.got, held)
          /\ ~reading.user /\ ~astray => reading.got.plain = held.plain
      BY <2>1 DEF EqualizerInv, ReadingInv
    <3>2. Equal!EqPuts = {}
      BY <3>1 DEF Equal!EqPuts
    <3>3. ~loose => Equal!SameEqualizer(panel, held)
      BY <3>2 DEF EqualizerInv, PanelInv
    <3>4. ~reading.user /\ ~loose /\ reported => Equal!SameEqualizer(list, held)
      BY <2>3, <3>1, AlikeIsSame
    <3>5. reading.fresh => /\ echo = held /\ list.plain = held.plain
                           /\ reported => Equal!SameEqualizer(list, held)
      BY <2>3, <3>1
    <3> QED BY <2>3, <2>4, <3>1, <3>3, <3>4, <3>5
  <2> QED BY <2>6, <2>7, <2>8, <2>9 DEF EqualizerInv
<1>4. ASSUME Equal!ReadFails PROVE EqualizerInv'
  <2>1. /\ reading' = Equal!NoRead
        /\ UNCHANGED <<reported, held, echo, panel, put, paused, crossed, loose, astray>>
    BY <1>4 DEF Equal!ReadFails
  <2>2. /\ EqualizerTypeOK' /\ PanelInv' /\ AloneInv' /\ SwitchInv' /\ OursInv'
        /\ Equal!Busy' = Equal!Busy /\ Equal!EqPuts' = Equal!EqPuts
    BY <1>0, <2>1, ShownStays
  <2>3. ReadTypeOK' /\ ReadingInv'
    BY <2>1, UnreadIs DEF ReadTypeOK, ReadingInv
  <2>4. EchoInv'
    BY <2>1, <2>2 DEF EqualizerInv, EchoInv, Alike
  <2> QED BY <2>2, <2>3, <2>4 DEF EqualizerInv
<1>5. ASSUME Equal!CatchesUp PROVE EqualizerInv'
  <2>1. /\ echo # held /\ echo' = held
        /\ UNCHANGED <<reported, held, panel, put, paused, reading, crossed, loose, astray>>
    BY <1>5 DEF Equal!CatchesUp
  <2>2. /\ EqualizerTypeOK' /\ PanelInv' /\ AloneInv' /\ SwitchInv' /\ OursInv'
        /\ Equal!Busy' = Equal!Busy /\ Equal!EqPuts' = Equal!EqPuts
    BY <1>0, <2>1, ShownStays
  <2>3. ReadTypeOK'
    BY <2>1 DEF EqualizerInv, ReadTypeOK, Ours, Equal!Exact
  <2>4. EchoInv'
    BY <2>1 DEF EchoInv, Alike
  <2>5. ReadingInv'
    BY <2>1, <2>2 DEF EqualizerInv, ReadingInv, Alike, Equal!SameEqualizer
  <2> QED BY <2>2, <2>3, <2>4, <2>5 DEF EqualizerInv
<1>6. ASSUME Equal!PauseEnds PROVE EqualizerInv'
  <2>1. /\ echo = held /\ paused' = FALSE
        /\ UNCHANGED <<reported, held, echo, panel, put, reading, crossed, loose, astray>>
    BY <1>6 DEF Equal!PauseEnds
  <2>2. /\ EqualizerTypeOK' /\ PanelInv' /\ AloneInv' /\ SwitchInv' /\ OursInv'
        /\ Equal!Busy' = Equal!Busy /\ Equal!EqPuts' = Equal!EqPuts
    BY <1>0, <2>1, ShownStays
  <2>3. ReadTypeOK'
    BY <2>1 DEF EqualizerInv, ReadTypeOK, Ours, Equal!Exact
  <2>4. EchoInv'
    BY <2>1 DEF EchoInv, Alike
  <2>5. ReadingInv'
    BY <2>1, <2>2 DEF EqualizerInv, ReadingInv, Alike, Equal!SameEqualizer
  <2> QED BY <2>2, <2>3, <2>4, <2>5 DEF EqualizerInv
<1> QED BY <1>1, <1>2, <1>3, <1>4, <1>5, <1>6

\* A read replaces all that is shown.
LEMMA ReplaceStep == ASSUME EqualizerInv, Equal!Replace PROVE EqualizerInv'
<1> DEFINE hasty == reading.user /\ ~reading.fresh
<1>1. /\ reading.stage = "collected" /\ reading' = Equal!NoRead /\ panel' = reading.got
      /\ loose' = (reading.met \/ (reported /\ hasty)
                     \/ (loose /\ ~(reported /\ reading.fresh)))
      /\ astray' = (reading.met \/ hasty \/ (astray /\ ~reading.fresh))
      /\ UNCHANGED <<reported, held, echo, put, paused, crossed>>
  BY DEF Equal!Replace
<1>2. /\ reading \in Readings /\ {reading.met, reading.user, reading.fresh} \subseteq BOOLEAN
      /\ {loose, astray, reported} \subseteq BOOLEAN
      /\ panel' \in Equal!Panel /\ (~reported => Ours(panel'))
  BY <1>1 DEF EqualizerInv, EqualizerTypeOK, ReadTypeOK, Readings
<1>3. {loose', astray'} \subseteq BOOLEAN
  BY <1>1, <1>2
<1>4. Equal!Busy' = Equal!Busy /\ Equal!EqPuts' = Equal!EqPuts /\ Equal!EqPuts \subseteq Equal!Busy
  BY <1>1 DEF Equal!Busy, Equal!EqPuts
<1>5. EqualizerTypeOK' /\ ReadTypeOK' /\ ReadingInv'
  BY <1>1, <1>2, <1>3, UnreadIs DEF EqualizerInv, EqualizerTypeOK, ReadTypeOK, ReadingInv
<1>6. ASSUME ~reading.met
      PROVE  /\ Equal!Busy = {}
             /\ reading.fresh => /\ echo = held /\ panel'.plain = held.plain
                                 /\ reported => Equal!SameEqualizer(panel', held)
             /\ (~reading.user \/ ~reported) /\ ~loose => Equal!SameEqualizer(panel', held)
             /\ ~reading.user /\ ~astray => panel'.plain = held.plain
  BY <1>1, <1>6 DEF EqualizerInv, ReadingInv
<1>7. ASSUME ~loose'
      PROVE  Equal!SameEqualizer(panel', held) /\ (~loose \/ echo = held)
  <2>1. ~reading.met /\ (~reported \/ reading.fresh \/ ~reading.user)
        /\ (~loose \/ (reported /\ reading.fresh))
    BY <1>1, <1>2, <1>7
  <2> QED BY <1>6, <2>1
<1>8. ASSUME ~astray'
      PROVE  /\ panel'.plain = held.plain /\ (~astray \/ echo = held)
             /\ Equal!Busy = {}
  <2>1. ~reading.met /\ (reading.fresh \/ ~reading.user) /\ (~astray \/ reading.fresh)
    BY <1>1, <1>2, <1>8
  <2> QED BY <1>6, <2>1
<1>9. PanelInv'
  BY <1>1, <1>7 DEF PanelInv, Equal!SameEqualizer
<1>10. AloneInv'
  <2>1. loose' \/ (~loose /\ Equal!EqPuts = {}) \/ (loose /\ Equal!EqPuts = {})
    BY <1>1, <1>2, <1>4, <1>6
  <2>2. CASE loose'
    BY <1>1, <1>4, <2>2 DEF EqualizerInv, AloneInv
  <2>3. CASE Equal!EqPuts = {}
    BY <1>4, <2>3 DEF AloneInv
  <2> QED BY <2>1, <2>2, <2>3
<1>11. SwitchInv'
  <2>1. \A q \in Equal!Busy' : put'[q].what = "plain" =>
            q = "switch" /\ (put'[q].stage = "served" => held'.plain = put'[q].aim.plain)
    BY <1>1, <1>4 DEF EqualizerInv, SwitchInv
  <2>2. ~astray' => Equal!Busy' = {} /\ Equal!EqPuts' = {} /\ panel'.plain = held'.plain
    BY <1>1, <1>4, <1>8
  <2> QED BY <2>1, <2>2 DEF SwitchInv
<1>12. OursInv'
  BY <1>1, <1>2, <1>4 DEF EqualizerInv, OursInv
<1>13. EchoInv'
  BY <1>1, <1>4, <1>7, <1>8 DEF EqualizerInv, EchoInv, Alike
<1> QED BY <1>5, <1>9, <1>10, <1>11, <1>12, <1>13 DEF EqualizerInv

\* What the user's four ways of writing send.
LEMMA WithPresetIs ==
    ASSUME NEW s \in Equal!Panel, NEW p \in Equal!Options
    PROVE  /\ Equal!WithPreset(s, p) \in Equal!Panel
           /\ Equal!WithPreset(s, p).plain = s.plain
           /\ ~reported => Ours(Equal!WithPreset(s, p))
<1> DEFINE b == IF p \in Equal!Builtin THEN Presets[p] ELSE s.bands
<1>1. b \in [Bands -> Levels] /\ (p \in Equal!Builtin => b = Presets[p])
  BY PresetAssumption DEF Equal!Builtin, Equal!Panel, Equal!Group
<1>2. p \in Builtin \union Own \union {Equal!Manual}
      /\ (~reported => p \in Builtin \union {Equal!Manual})
  BY DEF Equal!Options, Builtin
<1>3. Equal!WithPreset(s, p) = [s EXCEPT !.preset = p, !.bands = b]
  BY DEF Equal!WithPreset, Equal!Panel, Equal!Group
<1> HIDE DEF b
<1>4. /\ Equal!WithPreset(s, p) \in Equal!Panel
      /\ Equal!WithPreset(s, p).preset = p /\ Equal!WithPreset(s, p).bands = b
      /\ Equal!WithPreset(s, p).plain = s.plain
  BY <1>1, <1>2, <1>3 DEF Equal!Panel, Equal!Group, Builtin
<1> QED BY <1>1, <1>2, <1>4 DEF Ours, Equal!Exact

LEMMA WithBandIs ==
    ASSUME NEW s \in Equal!Panel, NEW b \in Bands, NEW x \in Levels
    PROVE  /\ Equal!WithBand(s, b, x) \in Equal!Panel
           /\ Equal!WithBand(s, b, x).plain = s.plain
           /\ Ours(Equal!WithBand(s, b, x))
<1> DEFINE bands == [s.bands EXCEPT ![b] = x]
<1>1. s.bands \in [Bands -> Levels]
  BY DEF Equal!Panel, Equal!Group
<1>2. bands \in [Bands -> Levels]
  BY <1>1
<1>3. Equal!WithBand(s, b, x) = [s EXCEPT !.bands = bands, !.preset = Equal!Manual]
  BY DEF Equal!WithBand, Equal!Panel, Equal!Group
<1> HIDE DEF bands
<1>4. /\ Equal!WithBand(s, b, x) \in Equal!Panel
      /\ Equal!WithBand(s, b, x).preset = Equal!Manual
      /\ Equal!WithBand(s, b, x).plain = s.plain
  BY <1>2, <1>3 DEF Equal!Panel, Equal!Group
<1> QED BY <1>4, PresetAssumption DEF Ours, Equal!Exact, Equal!Builtin, Equal!Manual

LEMMA SwitchedIs ==
    ASSUME NEW s \in Equal!Panel, NEW on \in BOOLEAN
    PROVE  /\ [s EXCEPT !.enabled = on] \in Equal!Panel
           /\ [s EXCEPT !.enabled = on].plain = s.plain
           /\ [s EXCEPT !.plain = on] \in Equal!Panel
           /\ [s EXCEPT !.plain = on].enabled = s.enabled
           /\ [s EXCEPT !.plain = on].bands = s.bands
           /\ [s EXCEPT !.plain = on].preset = s.preset
           /\ [s EXCEPT !.plain = on].plain = on
           /\ Ours(s) => Ours([s EXCEPT !.enabled = on]) /\ Ours([s EXCEPT !.plain = on])
BY DEF Equal!Panel, Equal!Group, Ours, Equal!Exact

\* What the speaker has once a PUT is served.
LEMMA ServedIs ==
    ASSUME NEW h \in Equal!Held, NEW aim \in Equal!Panel
    PROVE  /\ Equal!Body(aim, h) \in Equal!Held
           /\ Equal!Body(aim, h).plain = h.plain
           /\ Equal!Body(aim, h).enabled = aim.enabled /\ Equal!Body(aim, h).bands = aim.bands
           /\ Equal!Body(aim, h).preset = Equal!Wire(aim.preset)
           /\ [h EXCEPT !.plain = aim.plain] \in Equal!Held
           /\ [h EXCEPT !.plain = aim.plain].plain = aim.plain
           /\ [h EXCEPT !.plain = aim.plain].enabled = h.enabled
           /\ [h EXCEPT !.plain = aim.plain].bands = h.bands
           /\ [h EXCEPT !.plain = aim.plain].preset = h.preset
<1> DEFINE w == Equal!Wire(aim.preset)
<1>1. w \in Equal!Builtin \union Own \union {Equal!User} /\ h.plain \in BOOLEAN
  BY DEF Equal!Wire, Equal!Panel, Equal!Held, Equal!Group
<1>2. Equal!Body(aim, h) = [aim EXCEPT !.preset = w, !.plain = h.plain]
  BY DEF Equal!Body
<1> HIDE DEF w
<1>3. /\ Equal!Body(aim, h) \in Equal!Held
      /\ Equal!Body(aim, h).plain = h.plain
      /\ Equal!Body(aim, h).enabled = aim.enabled /\ Equal!Body(aim, h).bands = aim.bands
      /\ Equal!Body(aim, h).preset = w
  BY <1>1, <1>2 DEF Equal!Panel, Equal!Held, Equal!Group
<1>4. /\ [h EXCEPT !.plain = aim.plain] \in Equal!Held
      /\ [h EXCEPT !.plain = aim.plain].plain = aim.plain
      /\ [h EXCEPT !.plain = aim.plain].enabled = h.enabled
      /\ [h EXCEPT !.plain = aim.plain].bands = h.bands
      /\ [h EXCEPT !.plain = aim.plain].preset = h.preset
  BY DEF Equal!Panel, Equal!Held, Equal!Group
<1> QED BY <1>3, <1>4 DEF w

\* A PUT of the one platform changes nothing of the others.
LEMMA SendStep ==
    ASSUME EqualizerInv, NEW p \in Equal!Platforms, NEW what \in {"equalizer", "plain"},
           NEW aim \in Equal!Panel, ~reported => Ours(aim),
           what = "plain" => p = "switch", what = "equalizer" => aim.plain = panel.plain,
           Equal!Send(p, what, aim)
    PROVE  EqualizerInv'
<1> USE DEF EqualizerInv
<1> DEFINE sent == [stage |-> "asked", what |-> what, aim |-> aim]
<1>1. /\ UNCHANGED <<reported, held, echo, panel, paused>>
      /\ reading' = Equal!MetRead
      /\ put[p].stage = "idle" /\ put' = [put EXCEPT ![p] = sent]
      /\ crossed' = IF what = "equalizer" /\ Equal!EqPuts # {}
                    THEN crossed \union Equal!EqPuts \union {p} ELSE crossed \ {p}
      /\ loose' = (loose \/ (what = "equalizer" /\ Equal!EqPuts # {}))
      /\ astray' = (astray \/ \E q \in Equal!Busy : put[q].what # what)
  BY DEF Equal!Send
<1>2. /\ put' \in [Equal!Platforms -> Puts] /\ put'[p] = sent
      /\ \A q \in Equal!Platforms \ {p} : put'[q] = put[q]
  BY <1>1 DEF EqualizerTypeOK, Puts
<1>3. /\ sent.stage = "asked" /\ sent.what = what /\ sent.aim = aim
  OBVIOUS
<1> HIDE DEF sent
<1>4. /\ p \notin Equal!Busy /\ Equal!Busy' = Equal!Busy \union {p}
      /\ Equal!EqPuts' = Equal!EqPuts \union (IF what = "equalizer" THEN {p} ELSE {})
      /\ Equal!EqPuts \subseteq Equal!Busy /\ Equal!Busy \subseteq Equal!Platforms
  BY <1>1, <1>2, <1>3 DEF Equal!Busy, Equal!EqPuts
<1>5. EqualizerTypeOK'
  BY <1>1, <1>2, <1>4 DEF EqualizerTypeOK
<1>6. PanelInv'
  BY <1>1, <1>4 DEF PanelInv, Equal!SameEqualizer
<1>7. AloneInv'
  <2> SUFFICES ASSUME NEW q \in Equal!EqPuts'
               PROVE  IF q \in crossed' THEN loose'
                      ELSE /\ Equal!EqPuts' = {q}
                           /\ put'[q].stage = "served" =>
                                /\ held.enabled = put'[q].aim.enabled
                                /\ held.bands = put'[q].aim.bands
                                /\ held.preset = Equal!Wire(put'[q].aim.preset)
    BY <1>1 DEF AloneInv, Equal!Wire
  <2>1. CASE what = "equalizer" /\ Equal!EqPuts # {}
    BY <1>1, <1>4, <2>1
  <2>2. CASE what = "equalizer" /\ Equal!EqPuts = {}
    BY <1>1, <1>2, <1>3, <1>4, <2>2
  <2>3. CASE what = "plain"
    <3>1. q \in Equal!EqPuts /\ q # p /\ q \in Equal!Platforms
      BY <1>4, <2>3
    <3> QED BY <1>1, <1>2, <1>4, <2>3, <3>1 DEF AloneInv
  <2> QED BY <2>1, <2>2, <2>3
<1>8. SwitchInv'
  <2>1. \A q \in Equal!Busy' : put'[q].what = "plain" =>
            q = "switch" /\ (put'[q].stage = "served" => held'.plain = put'[q].aim.plain)
    BY <1>1, <1>2, <1>3, <1>4 DEF SwitchInv
  <2>2. ~astray' => ~astray /\ \A q \in Equal!Busy' : put'[q].what = what
    BY <1>1, <1>2, <1>3, <1>4
  <2>3. ASSUME ~astray', Equal!Busy' = Equal!EqPuts'
        PROVE  /\ panel'.plain = held'.plain
               /\ \A q \in Equal!EqPuts' : put'[q].aim.plain = held'.plain
    <3>1. what = "equalizer" /\ Equal!Busy = Equal!EqPuts
      BY <1>4, <2>3
    <3>2. panel.plain = held.plain /\ \A q \in Equal!EqPuts : put[q].aim.plain = held.plain
      BY <2>2, <2>3, <3>1 DEF SwitchInv
    <3> QED BY <1>1, <1>2, <1>3, <1>4, <3>1, <3>2
  <2> QED BY <2>1, <2>2, <2>3 DEF SwitchInv
<1>9. OursInv'
  BY <1>1, <1>2, <1>3, <1>4 DEF OursInv
<1>10. ReadTypeOK' /\ ReadingInv'
  BY <1>1, MetReadIs
<1>11. EchoInv'
  BY <1>1, <1>2, <1>3, <1>4 DEF EchoInv, Alike
<1> QED BY <1>5, <1>6, <1>7, <1>8, <1>9, <1>10, <1>11

LEMMA WriteSteps ==
    ASSUME EqualizerInv,
           \/ \E on \in BOOLEAN : Equal!TurnOn(on) \/ Equal!Toggle(on)
           \/ \E p \in Equal!Options : Equal!Choose(p)
           \/ \E b \in Bands, x \in Levels : Equal!SetBand(b, x)
    PROVE  EqualizerInv'
<1>1. /\ panel \in Equal!Panel /\ (~reported => Ours(panel))
      /\ {"switch", "select", "number"} = Equal!Platforms
  BY DEF EqualizerInv, EqualizerTypeOK, OursInv, Equal!Platforms
<1>2. ASSUME NEW on \in BOOLEAN, Equal!TurnOn(on) PROVE EqualizerInv'
  <2>1. Equal!Send("switch", "equalizer", [panel EXCEPT !.enabled = on])
    BY <1>2 DEF Equal!TurnOn
  <2>2. /\ [panel EXCEPT !.enabled = on] \in Equal!Panel
        /\ [panel EXCEPT !.enabled = on].plain = panel.plain
        /\ ~reported => Ours([panel EXCEPT !.enabled = on])
    BY <1>1, SwitchedIs
  <2> DEFINE aim == [panel EXCEPT !.enabled = on]
  <2> HIDE DEF aim
  <2>3. /\ aim \in Equal!Panel /\ aim.plain = panel.plain /\ (~reported => Ours(aim))
        /\ Equal!Send("switch", "equalizer", aim) /\ "switch" \in Equal!Platforms
    BY <1>1, <2>1, <2>2 DEF aim
  <2> QED BY <2>3, SendStep
<1>3. ASSUME NEW on \in BOOLEAN, Equal!Toggle(on) PROVE EqualizerInv'
  <2> DEFINE aim == [panel EXCEPT !.plain = on]
  <2>1. Equal!Send("switch", "plain", aim)
    BY <1>3 DEF Equal!Toggle
  <2>2. aim \in Equal!Panel /\ (~reported => Ours(aim))
    BY <1>1, SwitchedIs
  <2> HIDE DEF aim
  <2>3. "switch" \in Equal!Platforms
    BY <1>1
  <2> QED BY <2>1, <2>2, <2>3, SendStep
<1>4. ASSUME NEW p \in Equal!Options, Equal!Choose(p) PROVE EqualizerInv'
  <2>1. Equal!Send("select", "equalizer", Equal!WithPreset(panel, p))
    BY <1>4 DEF Equal!Choose
  <2> QED BY <1>1, <2>1, SendStep, WithPresetIs
<1>5. ASSUME NEW b \in Bands, NEW x \in Levels, Equal!SetBand(b, x) PROVE EqualizerInv'
  <2>1. Equal!Send("number", "equalizer", Equal!WithBand(panel, b, x))
    BY <1>5 DEF Equal!SetBand
  <2> QED BY <1>1, <2>1, SendStep, WithBandIs
<1> QED BY <1>2, <1>3, <1>4, <1>5

LEMMA ServeStep ==
    ASSUME EqualizerInv, NEW p \in Equal!Platforms, Equal!Serve(p) PROVE EqualizerInv'
<1> USE DEF EqualizerInv
<1>1. /\ UNCHANGED <<reported, echo, panel, paused, reading, crossed, loose, astray>>
      /\ put[p].stage = "asked" /\ put' = [put EXCEPT ![p].stage = "served"]
      /\ held' = IF put[p].what = "equalizer" THEN Equal!Body(put[p].aim, held)
                 ELSE [held EXCEPT !.plain = put[p].aim.plain]
  BY DEF Equal!Serve
<1>2. /\ put \in [Equal!Platforms -> Puts] /\ held \in Equal!Held
      /\ put[p] \in Puts /\ put[p].aim \in Equal!Panel /\ put[p].what \in {"equalizer", "plain"}
  BY DEF EqualizerTypeOK, Puts
<1>3. /\ put' \in [Equal!Platforms -> Puts]
      /\ put'[p] = [stage |-> "served", what |-> put[p].what, aim |-> put[p].aim]
      /\ \A q \in Equal!Platforms \ {p} : put'[q] = put[q]
  BY <1>1, <1>2 DEF Puts
<1>4. /\ put'[p].stage = "served"
      /\ \A q \in Equal!Platforms : put'[q].what = put[q].what /\ put'[q].aim = put[q].aim
  BY <1>3
<1>5. /\ p \in Equal!Busy /\ Equal!Busy' = Equal!Busy /\ Equal!EqPuts' = Equal!EqPuts
      /\ Equal!EqPuts = {q \in Equal!Busy : put[q].what = "equalizer"}
      /\ Equal!Busy \subseteq Equal!Platforms
  BY <1>1, <1>3, <1>4 DEF Equal!Busy, Equal!EqPuts
<1>6. /\ held' \in Equal!Held
      /\ put[p].what = "equalizer" =>
            /\ held'.plain = held.plain /\ held'.enabled = put[p].aim.enabled
            /\ held'.bands = put[p].aim.bands /\ held'.preset = Equal!Wire(put[p].aim.preset)
      /\ put[p].what = "plain" =>
            /\ held'.plain = put[p].aim.plain /\ held'.enabled = held.enabled
            /\ held'.bands = held.bands /\ held'.preset = held.preset
  BY <1>1, <1>2, ServedIs
<1>7. EqualizerTypeOK'
  BY <1>1, <1>3, <1>6 DEF EqualizerTypeOK
<1>8. PanelInv'
  <2> SUFFICES ASSUME ~loose, Equal!EqPuts = {} PROVE Equal!SameEqualizer(panel', held')
    BY <1>1, <1>5 DEF PanelInv
  <2>1. Equal!SameEqualizer(panel, held)
    BY DEF PanelInv
  <2>2. put[p].what = "plain"
    BY <1>2, <1>5
  <2> QED BY <1>1, <1>6, <2>1, <2>2 DEF Equal!SameEqualizer
<1>9. AloneInv'
  <2> SUFFICES ASSUME NEW q \in Equal!EqPuts, q \notin crossed, put'[q].stage = "served"
               PROVE  /\ held'.enabled = put[q].aim.enabled /\ held'.bands = put[q].aim.bands
                      /\ held'.preset = Equal!Wire(put[q].aim.preset)
    BY <1>1, <1>4, <1>5 DEF AloneInv, Equal!Wire
  <2>1. Equal!EqPuts = {q}
    BY DEF AloneInv
  <2>2. CASE q = p
    BY <1>5, <1>6, <2>2
  <2>3. CASE q # p
    <3>1. put[p].what = "plain" /\ put[q].stage = "served"
      BY <1>2, <1>3, <1>5, <2>1, <2>3
    <3> QED BY <1>6, <3>1 DEF AloneInv
  <2> QED BY <2>2, <2>3
<1>10. SwitchInv'
  <2>1. ASSUME NEW q \in Equal!Busy, put[q].what = "plain"
        PROVE  q = "switch" /\ (put'[q].stage = "served" => held'.plain = put'[q].aim.plain)
    <3>1. q = "switch" /\ (put[q].stage = "served" => held.plain = put[q].aim.plain)
      BY <2>1 DEF SwitchInv
    <3>2. CASE q = p
      BY <1>4, <1>6, <2>1, <3>1, <3>2
    <3>3. CASE q # p
      <4>1. put[p].what = "equalizer"
        BY <1>2, <1>5, <3>1, <3>3 DEF SwitchInv
      <4> QED BY <1>3, <1>5, <1>6, <3>1, <3>3, <4>1
    <3> QED BY <3>2, <3>3
  <2>2. ~astray' =>
            \/ \A q \in Equal!Busy' : put'[q].what = "plain"
            \/ \A q \in Equal!Busy' : put'[q].what = "equalizer"
    BY <1>1, <1>4, <1>5 DEF SwitchInv
  <2>3. ASSUME ~astray', Equal!Busy' = Equal!EqPuts'
        PROVE  /\ panel'.plain = held'.plain
               /\ \A q \in Equal!EqPuts' : put'[q].aim.plain = held'.plain
    <3>1. put[p].what = "equalizer"
      BY <1>5, <2>3
    <3>2. panel.plain = held.plain /\ \A q \in Equal!EqPuts : put[q].aim.plain = held.plain
      BY <1>1, <1>5, <2>3 DEF SwitchInv
    <3> QED BY <1>1, <1>4, <1>5, <1>6, <3>1, <3>2
  <2> QED BY <1>4, <1>5, <2>1, <2>2, <2>3 DEF SwitchInv
<1>11. OursInv'
  BY <1>1, <1>4, <1>5 DEF OursInv
<1>12. ReadTypeOK' /\ ReadingInv'
  BY <1>1, <1>5, BusyMeets
<1>13. EchoInv'
  BY <1>1, <1>2, <1>5, <1>6 DEF EchoInv, Alike
<1> QED BY <1>7, <1>8, <1>9, <1>10, <1>11, <1>12, <1>13

\* A PUT that ends leaves its platform idle.
LEMMA EndedIs ==
    ASSUME EqualizerTypeOK, NEW p \in Equal!Platforms, put[p].stage # "idle",
           put' = [put EXCEPT ![p] = Equal!NoPut]
    PROVE  /\ put' \in [Equal!Platforms -> Puts]
           /\ \A q \in Equal!Platforms \ {p} : put'[q] = put[q]
           /\ p \in Equal!Busy /\ Equal!Busy' = Equal!Busy \ {p}
           /\ Equal!EqPuts' = Equal!EqPuts \ {p}
           /\ Equal!EqPuts = {q \in Equal!Busy : put[q].what = "equalizer"}
           /\ Equal!Busy \subseteq Equal!Platforms
<1>1. /\ put' \in [Equal!Platforms -> Puts] /\ put'[p] = Equal!NoPut
      /\ \A q \in Equal!Platforms \ {p} : put'[q] = put[q]
  BY UnreadIs DEF EqualizerTypeOK
<1> QED BY <1>1, UnreadIs DEF Equal!Busy, Equal!EqPuts

LEMMA AnsweredStep ==
    ASSUME EqualizerInv, NEW p \in Equal!Platforms, Equal!Answered(p) PROVE EqualizerInv'
<1> USE DEF EqualizerInv
<1>1. /\ UNCHANGED <<reported, held, echo, reading, astray>> /\ paused' = TRUE
      /\ put[p].stage = "served" /\ put' = [put EXCEPT ![p] = Equal!NoPut]
      /\ panel' = IF put[p].what = "equalizer" THEN put[p].aim
                  ELSE [panel EXCEPT !.plain = put[p].aim.plain]
      /\ crossed' = crossed \ {p}
      /\ loose' = (loose /\ ~(put[p].what = "equalizer" /\ p \notin crossed))
  BY DEF Equal!Answered
<1>2. /\ panel \in Equal!Panel /\ put[p].aim \in Equal!Panel /\ put[p].aim.plain \in BOOLEAN
      /\ put[p].what \in {"equalizer", "plain"}
  BY DEF EqualizerTypeOK, Puts, Equal!Panel, Equal!Group
<1>3. /\ put' \in [Equal!Platforms -> Puts]
      /\ \A q \in Equal!Platforms \ {p} : put'[q] = put[q]
      /\ p \in Equal!Busy /\ Equal!Busy' = Equal!Busy \ {p}
      /\ Equal!EqPuts' = Equal!EqPuts \ {p}
      /\ Equal!EqPuts = {q \in Equal!Busy : put[q].what = "equalizer"}
      /\ Equal!Busy \subseteq Equal!Platforms
  BY <1>1, EndedIs
<1>4. /\ panel' \in Equal!Panel
      /\ put[p].what = "equalizer" => panel' = put[p].aim
      /\ put[p].what = "plain" =>
            /\ panel'.plain = put[p].aim.plain /\ panel'.enabled = panel.enabled
            /\ panel'.bands = panel.bands /\ panel'.preset = panel.preset
            /\ Ours(panel) => Ours(panel')
  <2> DEFINE on == put[p].aim.plain
             patched == [panel EXCEPT !.plain = on]
  <2>1. on \in BOOLEAN /\ panel' = IF put[p].what = "equalizer" THEN put[p].aim ELSE patched
    BY <1>1, <1>2
  <2> HIDE DEF on
  <2>2. /\ patched \in Equal!Panel /\ patched.plain = on /\ patched.enabled = panel.enabled
        /\ patched.bands = panel.bands /\ patched.preset = panel.preset
        /\ Ours(panel) => Ours(patched)
    BY <1>2, <2>1 DEF Equal!Panel, Equal!Group, Ours, Equal!Exact
  <2> HIDE DEF patched
  <2> QED BY <1>2, <2>1, <2>2 DEF on
<1>5. EqualizerTypeOK'
  BY <1>1, <1>3, <1>4 DEF EqualizerTypeOK
<1>6. ASSUME put[p].what = "equalizer"
      PROVE  /\ p \in Equal!EqPuts
             /\ IF p \in crossed THEN loose
                ELSE /\ Equal!EqPuts = {p}
                     /\ held.enabled = put[p].aim.enabled /\ held.bands = put[p].aim.bands
                     /\ held.preset = Equal!Wire(put[p].aim.preset)
  BY <1>1, <1>3, <1>6 DEF AloneInv
<1>7. PanelInv'
  <2> SUFFICES ASSUME ~loose', Equal!EqPuts' = {} PROVE Equal!SameEqualizer(panel', held)
    BY <1>1 DEF PanelInv, Equal!SameEqualizer
  <2>1. CASE put[p].what = "equalizer"
    BY <1>1, <1>4, <1>6, <2>1 DEF Equal!SameEqualizer
  <2>2. CASE put[p].what = "plain"
    <3>1. Equal!SameEqualizer(panel, held)
      BY <1>1, <1>3, <2>2 DEF PanelInv
    <3> QED BY <1>4, <2>2, <3>1 DEF Equal!SameEqualizer
  <2> QED BY <1>2, <2>1, <2>2
<1>8. AloneInv'
  <2> SUFFICES ASSUME NEW q \in Equal!EqPuts \ {p}
               PROVE  IF q \in crossed' THEN loose'
                      ELSE /\ Equal!EqPuts' = {q}
                           /\ put'[q].stage = "served" =>
                                /\ held.enabled = put'[q].aim.enabled
                                /\ held.bands = put'[q].aim.bands
                                /\ held.preset = Equal!Wire(put'[q].aim.preset)
    BY <1>1, <1>3 DEF AloneInv, Equal!Wire
  <2>1. put'[q] = put[q] /\ (q \in crossed' <=> q \in crossed)
    BY <1>1, <1>3
  <2>2. CASE q \in crossed
    BY <1>1, <1>6, <2>1, <2>2 DEF AloneInv
  <2>3. CASE q \notin crossed
    <3>1. Equal!EqPuts = {q}
      BY <2>3 DEF AloneInv
    <3> QED BY <1>3, <2>1, <2>3, <3>1 DEF AloneInv
  <2> QED BY <2>2, <2>3
<1>9. SwitchInv'
  <2>1. \A q \in Equal!Busy' : put'[q].what = "plain" =>
            q = "switch" /\ (put'[q].stage = "served" => held'.plain = put'[q].aim.plain)
    BY <1>1, <1>3 DEF SwitchInv
  <2>2. ~astray' =>
            \/ \A q \in Equal!Busy' : put'[q].what = "plain"
            \/ \A q \in Equal!Busy' : put'[q].what = "equalizer"
    BY <1>1, <1>3 DEF SwitchInv
  <2>3. ASSUME ~astray', Equal!Busy' = Equal!EqPuts'
        PROVE  /\ panel'.plain = held'.plain
               /\ \A q \in Equal!EqPuts' : put'[q].aim.plain = held'.plain
    <3>1. CASE put[p].what = "equalizer"
      <4>1. Equal!Busy = Equal!EqPuts
        BY <1>3, <1>6, <2>3, <3>1
      <4>2. \A q \in Equal!EqPuts : put[q].aim.plain = held.plain
        BY <1>1, <2>3, <4>1 DEF SwitchInv
      <4> QED BY <1>1, <1>3, <1>4, <1>6, <3>1, <4>2
    <3>2. CASE put[p].what = "plain"
      <4>1. Equal!EqPuts = {}
        BY <1>1, <1>3, <2>3, <3>2 DEF SwitchInv
      <4>2. held.plain = put[p].aim.plain
        BY <1>1, <1>3, <3>2 DEF SwitchInv
      <4> QED BY <1>1, <1>3, <1>4, <3>2, <4>1, <4>2
    <3> QED BY <1>2, <3>1, <3>2
  <2> QED BY <2>1, <2>2, <2>3 DEF SwitchInv
<1>10. OursInv'
  <2> SUFFICES ASSUME ~reported PROVE Ours(panel') /\ \A q \in Equal!Busy' : Ours(put'[q].aim)
    BY <1>1 DEF OursInv
  <2>1. Ours(panel) /\ \A q \in Equal!Busy : Ours(put[q].aim)
    BY DEF OursInv
  <2> QED BY <1>2, <1>3, <1>4, <2>1
<1>11. ReadTypeOK' /\ ReadingInv'
  BY <1>1, <1>3, BusyMeets
<1>12. EchoInv'
  BY <1>1 DEF EchoInv
<1> QED BY <1>5, <1>7, <1>8, <1>9, <1>10, <1>11, <1>12

LEMMA FailStep ==
    ASSUME EqualizerInv, NEW p \in Equal!Platforms, Equal!Fails(p) PROVE EqualizerInv'
<1> USE DEF EqualizerInv
<1>1. /\ UNCHANGED <<reported, held, echo, panel, paused, reading>>
      /\ put[p].stage # "idle" /\ put' = [put EXCEPT ![p] = Equal!NoPut]
      /\ crossed' = crossed \ {p}
      /\ loose' = (loose \/ put[p].what = "equalizer")
      /\ astray' = (astray \/ put[p].what = "plain")
  BY DEF Equal!Fails
<1>2. put[p].what \in {"equalizer", "plain"}
  BY DEF EqualizerTypeOK, Puts
<1>3. /\ put' \in [Equal!Platforms -> Puts]
      /\ \A q \in Equal!Platforms \ {p} : put'[q] = put[q]
      /\ p \in Equal!Busy /\ Equal!Busy' = Equal!Busy \ {p}
      /\ Equal!EqPuts' = Equal!EqPuts \ {p}
      /\ Equal!EqPuts = {q \in Equal!Busy : put[q].what = "equalizer"}
      /\ Equal!Busy \subseteq Equal!Platforms
  BY <1>1, EndedIs
<1>4. EqualizerTypeOK'
  BY <1>1, <1>2, <1>3 DEF EqualizerTypeOK
<1>5. PanelInv'
  BY <1>1, <1>2, <1>3 DEF PanelInv, Equal!SameEqualizer
<1>6. AloneInv'
  <2> SUFFICES ASSUME NEW q \in Equal!EqPuts \ {p}
               PROVE  IF q \in crossed' THEN loose'
                      ELSE /\ Equal!EqPuts' = {q}
                           /\ put'[q].stage = "served" =>
                                /\ held.enabled = put'[q].aim.enabled
                                /\ held.bands = put'[q].aim.bands
                                /\ held.preset = Equal!Wire(put'[q].aim.preset)
    BY <1>1, <1>3 DEF AloneInv, Equal!Wire
  <2>1. put'[q] = put[q] /\ (q \in crossed' <=> q \in crossed)
    BY <1>1, <1>3
  <2>2. CASE q \in crossed
    BY <1>1, <2>1, <2>2 DEF AloneInv
  <2>3. CASE q \notin crossed
    <3>1. /\ Equal!EqPuts = {q}
          /\ put[q].stage = "served" =>
                /\ held.enabled = put[q].aim.enabled /\ held.bands = put[q].aim.bands
                /\ held.preset = Equal!Wire(put[q].aim.preset)
      BY <2>3 DEF AloneInv
    <3> QED BY <1>3, <2>1, <2>3, <3>1
  <2> QED BY <2>2, <2>3
<1>7. SwitchInv'
  <2>1. \A q \in Equal!Busy' : put'[q].what = "plain" =>
            q = "switch" /\ (put'[q].stage = "served" => held'.plain = put'[q].aim.plain)
    BY <1>1, <1>3 DEF SwitchInv
  <2>2. ~astray' => ~astray /\ put[p].what = "equalizer"
    BY <1>1, <1>2
  <2> QED BY <1>1, <1>3, <2>1, <2>2 DEF SwitchInv
<1>8. OursInv'
  BY <1>1, <1>3 DEF OursInv
<1>9. ReadTypeOK' /\ ReadingInv'
  BY <1>1, <1>3, BusyMeets
<1>10. EchoInv'
  BY <1>1, <1>2, <1>3 DEF EchoInv, Alike
<1> QED BY <1>4, <1>5, <1>6, <1>7, <1>8, <1>9, <1>10

LEMMA AppStep ==
    ASSUME EqualizerInv, NEW h \in Equal!Held, Equal!ChangedInApp(h) PROVE EqualizerInv'
<1> USE DEF EqualizerInv
<1>1. /\ UNCHANGED <<reported, echo, panel, put, paused, astray>>
      /\ reading' = Equal!MetRead /\ held' = [h EXCEPT !.plain = held.plain]
      /\ loose' = TRUE /\ crossed' = crossed \union Equal!EqPuts
  BY DEF Equal!ChangedInApp
<1>2. held' \in Equal!Held /\ held'.plain = held.plain
  BY <1>1 DEF EqualizerTypeOK, Equal!Held, Equal!Group
<1>3. /\ Equal!Busy' = Equal!Busy /\ Equal!EqPuts' = Equal!EqPuts
      /\ Equal!EqPuts \subseteq Equal!Platforms
  BY <1>1 DEF Equal!Busy, Equal!EqPuts
<1>4. EqualizerTypeOK'
  BY <1>1, <1>2, <1>3 DEF EqualizerTypeOK
<1>5. PanelInv' /\ AloneInv'
  BY <1>1, <1>3 DEF PanelInv, AloneInv
<1>6. SwitchInv'
  BY <1>1, <1>2, <1>3 DEF SwitchInv
<1>7. OursInv'
  BY <1>1, <1>3 DEF OursInv
<1>8. ReadTypeOK' /\ ReadingInv'
  BY <1>1, MetReadIs
<1>9. EchoInv'
  BY <1>1, <1>2, <1>3 DEF EchoInv
<1> QED BY <1>4, <1>5, <1>6, <1>7, <1>8, <1>9

LEMMA EqualizerNext == EqualizerInv /\ Equal!Next => EqualizerInv'
BY ReadSteps, ReplaceStep, WriteSteps, ServeStep, AnsweredStep, FailStep, AppStep
   DEF Equal!Next

-----------------------------------------------------------------------------
(***************************************************************************)
(* Home variables                                                          *)
(***************************************************************************)

KnownValues == Nat \cup {Variables!Unknown}
Refreshes == [stage : {"idle", "homes", "scenarios", "values"}, left : SUBSET Homes,
              got : [Homes -> KnownValues]]

VariablesTypeOK ==
    /\ account \subseteq Homes /\ homes \subseteq Homes /\ excused \subseteq Homes
    /\ value \in [Homes -> Nat]
    /\ atHome \in [Homes -> KnownValues] /\ heard \in [Homes -> KnownValues]
    /\ setting \in [Homes -> KnownValues]
    /\ refresh \in [Variables!Causes -> Refreshes]
    /\ pending \in BOOLEAN /\ stopped \in BOOLEAN
    /\ task \in {"none", "round", "reading"}

\* The task, its flag and its refresh: a push that is marked has a task to read it.
TaskInv ==
    /\ task = "reading" <=> refresh["push"].stage # "idle"
    /\ task = "round" => pending
    /\ task = "none" => ~pending

\* No push told of a value that the variable does not have yet.
HeardInv == \A h \in Homes : heard[h] <= value[h]

\* A home that is not excused and whose last push was heard before the refresh of
\* the task began: it is on the list of homes from the answer about the homes on, and
\* its variable is still to be read or was read since; and once there is no task, what
\* is known of it, even while it is not on the list, is as new as that push.
ReadInv ==
    \A h \in account \ excused :
        /\ task = "none" /\ ~stopped => heard[h] <= atHome[h]
        /\ task = "reading" /\ ~pending =>
            /\ refresh["push"].stage \in {"scenarios", "values"} => h \in homes
            /\ refresh["push"].stage = "values" =>
                h \in refresh["push"].left \/ heard[h] <= refresh["push"].got[h]

VariablesInv == VariablesTypeOK /\ TaskInv /\ HeardInv /\ ReadInv

LEMMA VariablesInit == Variables!Init => VariablesInv
<1> SUFFICES ASSUME Variables!Init PROVE VariablesInv
  OBVIOUS
<1> USE DEF Variables!Init, Variables!Unknown, KnownValues
<1>1. VariablesTypeOK
  <2>1. Variables!Idle \in Refreshes
    BY DEF Variables!Idle, Refreshes
  <2> QED BY <2>1 DEF VariablesTypeOK
<1>2. TaskInv
  BY DEF TaskInv, Variables!Idle, Variables!Causes
<1>3. HeardInv /\ ReadInv
  BY DEF HeardInv, ReadInv
<1> QED BY <1>1, <1>2, <1>3 DEF VariablesInv

\* What the parts of the invariant are about, apart from the refreshes.
LEMMA IdleRefresh ==
    /\ Variables!Idle \in Refreshes /\ Variables!Idle.stage = "idle"
    /\ [Variables!Idle EXCEPT !.stage = "homes"] \in Refreshes
    /\ [Variables!Idle EXCEPT !.stage = "homes"].stage = "homes"
BY DEF Variables!Idle, Refreshes, KnownValues, Variables!Unknown

LEMMA HomeSteps ==
    ASSUME VariablesInv, NEW h \in Homes,
           \/ Variables!Changed(h) \/ Variables!HomeDeleted(h)
           \/ Variables!Set(h) \/ Variables!SetAnswered(h)
    PROVE  VariablesInv'
<1> USE DEF VariablesInv, VariablesTypeOK, KnownValues, Variables!Unknown
<1>1. CASE Variables!Changed(h)
  BY <1>1 DEF Variables!Changed, TaskInv, HeardInv, ReadInv
<1>2. CASE Variables!HomeDeleted(h)
  BY <1>2 DEF Variables!HomeDeleted, TaskInv, HeardInv, ReadInv
<1>3. CASE Variables!Set(h)
  <2>1. VariablesTypeOK' /\ TaskInv'
    BY <1>3 DEF Variables!Set, TaskInv
  <2>2. HeardInv' /\ ReadInv'
    BY <1>3 DEF Variables!Set, HeardInv, ReadInv
  <2> QED BY <2>1, <2>2
<1>4. CASE Variables!SetAnswered(h)
  <2>1. VariablesTypeOK' /\ TaskInv' /\ HeardInv'
    BY <1>4 DEF Variables!SetAnswered, Variables!cloud, TaskInv, HeardInv
  <2>2. ReadInv'
    BY <1>4 DEF Variables!SetAnswered, Variables!cloud, ReadInv
  <2> QED BY <2>1, <2>2
<1> QED BY <1>1, <1>2, <1>3, <1>4

LEMMA RefreshSteps ==
    ASSUME VariablesInv, NEW c \in Variables!Causes,
           \/ Variables!HomesAnswered(c) \/ Variables!HomesFail(c)
           \/ Variables!ScenariosAnswered(c) \/ Variables!Ends(c) \/ Variables!Fails(c)
           \/ \E h \in Homes : Variables!ValueRead(c, h)
    PROVE  VariablesInv'
<1> USE DEF VariablesInv, Variables!cloud
<1>0. refresh[c] \in Refreshes /\ "push" \in Variables!Causes
  BY DEF VariablesTypeOK, Variables!Causes
<1>1. CASE Variables!HomesAnswered(c)
  <2>1. VariablesTypeOK'
    BY <1>1 DEF Variables!HomesAnswered, VariablesTypeOK, Refreshes, KnownValues
  <2>2. TaskInv' /\ HeardInv'
    BY <1>0, <1>1 DEF Variables!HomesAnswered, VariablesTypeOK, Refreshes, TaskInv, HeardInv
  <2>3. ReadInv'
    BY <1>0, <1>1 DEF Variables!HomesAnswered, VariablesTypeOK, Refreshes, ReadInv
  <2> QED BY <2>1, <2>2, <2>3
<1>2. CASE Variables!HomesFail(c)
  <2>1. VariablesTypeOK'
    BY <1>2 DEF Variables!HomesFail, VariablesTypeOK, Refreshes
  <2>2. TaskInv' /\ HeardInv'
    BY <1>0, <1>2 DEF Variables!HomesFail, VariablesTypeOK, Refreshes, TaskInv, HeardInv
  <2>3. ReadInv'
    BY <1>0, <1>2 DEF Variables!HomesFail, VariablesTypeOK, Refreshes, ReadInv
  <2> QED BY <2>1, <2>2, <2>3
<1>3. CASE Variables!ScenariosAnswered(c)
  <2>1. VariablesTypeOK'
    BY <1>3 DEF Variables!ScenariosAnswered, VariablesTypeOK, Refreshes
  <2>2. TaskInv' /\ HeardInv'
    BY <1>0, <1>3 DEF Variables!ScenariosAnswered, VariablesTypeOK, Refreshes, TaskInv, HeardInv
  <2>3. ReadInv'
    BY <1>0, <1>3 DEF Variables!ScenariosAnswered, VariablesTypeOK, Refreshes, ReadInv
  <2> QED BY <2>1, <2>2, <2>3
<1>4. CASE Variables!Ends(c)
  <2>1. VariablesTypeOK'
    BY <1>0, <1>4, IdleRefresh
       DEF Variables!Ends, Variables!RoundEnds, VariablesTypeOK, Refreshes
  <2>2. TaskInv' /\ HeardInv'
    BY <1>0, <1>4, IdleRefresh
       DEF Variables!Ends, Variables!RoundEnds, VariablesTypeOK, TaskInv, HeardInv
  <2>3. CASE c = "push"
    <3>1. /\ task = "reading" /\ refresh["push"].left = {} /\ refresh["push"].stage = "values"
          /\ task' = IF pending THEN "round" ELSE "none"
          /\ atHome' = refresh["push"].got
          /\ UNCHANGED <<account, excused, pending, stopped, heard, homes>>
      BY <1>4, <2>3 DEF Variables!Ends, Variables!RoundEnds, TaskInv
    <3> QED BY <3>1, <2>1, <2>2 DEF ReadInv
  <2>4. CASE c # "push"
    <3>1. UNCHANGED <<task, pending, stopped, heard, homes, account>>
          /\ refresh'["push"] = refresh["push"] /\ atHome' = refresh[c].got
      BY <1>0, <1>4, <2>4 DEF Variables!Ends, Variables!RoundEnds, VariablesTypeOK
    <3>2. \A h \in Homes \ excused' :
             h \notin excused /\ ~(refresh[c].got[h] < heard[h])
      BY <1>4, <2>4 DEF Variables!Ends
    <3>3. \A h \in Homes : refresh[c].got[h] \in Int /\ heard[h] \in Int
      BY <1>0 DEF VariablesTypeOK, Refreshes, KnownValues, Variables!Unknown
    <3>4. ReadInv'
      BY <3>1, <3>2, <3>3 DEF ReadInv, VariablesTypeOK
    <3> QED BY <2>1, <2>2, <3>4
  <2> QED BY <2>1, <2>2, <2>3, <2>4
<1>5. CASE Variables!Fails(c)
  <2>1. VariablesTypeOK'
    BY <1>0, <1>5, IdleRefresh
       DEF Variables!Fails, Variables!RoundEnds, VariablesTypeOK, Refreshes
  <2>2. TaskInv' /\ HeardInv'
    BY <1>0, <1>5, IdleRefresh
       DEF Variables!Fails, Variables!RoundEnds, VariablesTypeOK, TaskInv, HeardInv
  <2>3. ReadInv'
    BY <1>0, <1>5, IdleRefresh
       DEF Variables!Fails, Variables!RoundEnds, VariablesTypeOK, TaskInv, ReadInv
  <2> QED BY <2>1, <2>2, <2>3
<1>6. ASSUME NEW h \in Homes, Variables!ValueRead(c, h) PROVE VariablesInv'
  <2>1. PICK v \in {value[h], Variables!Unknown} :
            /\ refresh' = [refresh EXCEPT ![c].left = @ \ {h}, ![c].got[h] = v]
            /\ excused' = IF v = Variables!Unknown THEN excused \cup {h} ELSE excused
    BY <1>6 DEF Variables!ValueRead
  <2>2. v \in KnownValues /\ h \in refresh[c].left
    <3>1. value[h] \in Nat
      BY DEF VariablesTypeOK
    <3> QED BY <1>6, <2>1, <3>1 DEF Variables!ValueRead, KnownValues
  <2>3. UNCHANGED <<account, value, homes, atHome, pending, task, setting, stopped, heard>>
    BY <1>6 DEF Variables!ValueRead
  <2> DEFINE new == [refresh[c] EXCEPT !.left = @ \ {h}, !.got[h] = v]
  <2>4. /\ new \in Refreshes /\ new.stage = refresh[c].stage
        /\ new.left = refresh[c].left \ {h} /\ new.got[h] = v
        /\ \A g \in Homes : g # h => new.got[g] = refresh[c].got[g]
    BY <1>0, <2>2 DEF Refreshes
  <2>5. refresh' = [refresh EXCEPT ![c] = new]
    BY <1>0, <2>1 DEF VariablesTypeOK
  <2> HIDE DEF new
  <2>6. VariablesTypeOK'
    BY <2>1, <2>3, <2>4, <2>5 DEF VariablesTypeOK
  <2>7. TaskInv' /\ HeardInv'
    BY <1>0, <2>3, <2>4, <2>5 DEF VariablesTypeOK, TaskInv, HeardInv
  <2>8. ReadInv'
    <3> SUFFICES ASSUME NEW g \in (account \ excused)'
                 PROVE  /\ task = "none" /\ ~stopped => heard[g] <= atHome[g]
                        /\ task = "reading" /\ ~pending =>
                            /\ refresh'["push"].stage \in {"scenarios", "values"} => g \in homes
                            /\ refresh'["push"].stage = "values" =>
                                \/ g \in refresh'["push"].left
                                \/ heard[g] <= refresh'["push"].got[g]
      BY <2>3 DEF ReadInv
    <3>1. g \in account \ excused /\ (g = h => v = value[h])
      BY <2>1, <2>3
    <3>2. CASE c = "push"
      BY <1>0, <2>4, <2>5, <3>1, <3>2 DEF ReadInv, HeardInv, VariablesTypeOK
    <3>3. CASE c # "push"
      BY <1>0, <2>5, <3>1, <3>3 DEF ReadInv, VariablesTypeOK
    <3> QED BY <3>2, <3>3
  <2> QED BY <2>6, <2>7, <2>8
<1> QED BY <1>1, <1>2, <1>3, <1>4, <1>5, <1>6

\* A refresh that begins.
LEMMA RefreshBegins ==
    ASSUME VariablesTypeOK, NEW c \in Variables!Causes, Variables!Begins(c)
    PROVE  /\ refresh' \in [Variables!Causes -> Refreshes]
           /\ refresh[c].stage = "idle" /\ refresh'[c].stage = "homes"
           /\ \A d \in Variables!Causes : d # c => refresh'[d] = refresh[d]
BY IdleRefresh DEF Variables!Begins, VariablesTypeOK

LEMMA OtherVariableSteps ==
    ASSUME VariablesInv,
           \/ Variables!PollDue \/ Variables!ManualRefresh \/ Variables!IntervalPasses
           \/ Variables!Pushed \/ Variables!PushLost \/ Variables!Round \/ Variables!Shutdown
    PROVE  VariablesInv'
<1> USE DEF VariablesInv, Variables!cloud
<1>0. {"push", "poll", "manual"} \subseteq Variables!Causes
  BY DEF Variables!Causes
<1>1. CASE Variables!PollDue \/ Variables!ManualRefresh
  <2>1. PICK c \in {"poll", "manual"} : Variables!Begins(c)
    BY <1>1 DEF Variables!PollDue, Variables!ManualRefresh
  <2>2. /\ refresh' \in [Variables!Causes -> Refreshes]
        /\ refresh'["push"] = refresh["push"]
    BY <1>0, <2>1, RefreshBegins
  <2>3. UNCHANGED <<account, value, homes, atHome, pending, task, setting, stopped, heard,
                    excused>>
    BY <1>1 DEF Variables!PollDue, Variables!ManualRefresh
  <2> QED BY <2>2, <2>3 DEF VariablesTypeOK, TaskInv, HeardInv, ReadInv
<1>2. CASE Variables!IntervalPasses \/ Variables!PushLost
  BY <1>2 DEF Variables!IntervalPasses, Variables!PushLost, VariablesTypeOK, TaskInv, HeardInv,
              ReadInv
<1>3. CASE Variables!Pushed
  <2>1. VariablesTypeOK'
    BY <1>3 DEF Variables!Pushed, Variables!PendingAfterPush, VariablesTypeOK, KnownValues
  <2>2. TaskInv'
    BY <1>3 DEF Variables!Pushed, Variables!PendingAfterPush, VariablesTypeOK, TaskInv
  <2>3. HeardInv'
    BY <1>3 DEF Variables!Pushed, VariablesTypeOK, HeardInv, Variables!Unknown
  <2>4. ReadInv'
    BY <1>3 DEF Variables!Pushed, Variables!PendingAfterPush, VariablesTypeOK, ReadInv
  <2> QED BY <2>1, <2>2, <2>3, <2>4
<1>4. CASE Variables!Round
  <2>1. /\ refresh' \in [Variables!Causes -> Refreshes] /\ refresh'["push"].stage = "homes"
    BY <1>0, <1>4, RefreshBegins DEF Variables!Round
  <2> QED BY <1>4, <2>1 DEF Variables!Round, VariablesTypeOK, TaskInv, HeardInv, ReadInv
<1>5. CASE Variables!Shutdown
  BY <1>0, <1>5, IdleRefresh
     DEF Variables!Shutdown, VariablesTypeOK, TaskInv, HeardInv, ReadInv
<1> QED BY <1>1, <1>2, <1>3, <1>4, <1>5

LEMMA VariablesNext == VariablesInv /\ Variables!Next => VariablesInv'
BY HomeSteps, RefreshSteps, OtherVariableSteps DEF Variables!Next

LEMMA VariablesRead == VariablesInv => Variables!PushesAreRead
BY DEF VariablesInv, ReadInv, Variables!PushesAreRead

-----------------------------------------------------------------------------
(***************************************************************************)
(* The life of a config entry                                              *)
(***************************************************************************)

LifeOptions == [settings : Nat, chosen : Nat]

LifeTypeOK ==
    /\ stage \in Life!Resting \cup Life!SettingUp \cup {"loaded", "unloading"}
    /\ options \in LifeOptions
    /\ snapshot \in LifeOptions \cup {Life!NoOptions}
    /\ flag \in {"none", "yes", "no"}
    /\ inForce \in Nat /\ built \in Nat \cup {Life!NotBuilt}
    /\ listening \in BOOLEAN /\ running \in BOOLEAN /\ raced \in BOOLEAN
    /\ reloads \in Nat /\ owed \in Nat

\* The snapshot is what the options are, as long as the listener is registered.
LifeSnapshot == snapshot = IF listening THEN options ELSE Life!NoOptions

\* The listener is registered between Listen and the release, and only then.
LifeListening ==
    /\ stage \in {"reconciling", "loaded"} => listening
    /\ stage \in {"created", "refreshed", "forwarded"} => ~listening

\* The flag says whether there are entities, until unload has removed them.
LifeBuilt ==
    /\ stage # "unloading" => (flag = "yes" <=> built # Life!NotBuilt)
    /\ stage = "unloading" => built = Life!NotBuilt
    /\ stage \in {"created", "refreshed"} => flag = "none"

\* From the moment the coordinator reads the settings.
LifeForce ==
    stage \in Life!SettingUp \cup {"loaded"} => raced \/ inForce = options.settings

\* From the moment the platforms are set up.
LifeChosen == IF options.chosen = 0 THEN Life!NotBuilt ELSE options.chosen
LifeChoice ==
    /\ stage \in {"forwarded", "reconciling"} => built = LifeChosen
    /\ stage = "loaded" => reloads > 0 \/ built = LifeChosen

LifeInv ==
    /\ LifeTypeOK
    /\ LifeSnapshot /\ LifeListening /\ LifeBuilt
    /\ LifeForce /\ LifeChoice /\ Life!ReloadsForCause /\ Life!NothingSurvives

-----------------------------------------------------------------------------

LEMMA LifeInit == Life!Init => LifeInv
<1> SUFFICES ASSUME Life!Init PROVE LifeInv
  OBVIOUS
<1>1. LifeTypeOK
  BY DEF Life!Init, LifeTypeOK, LifeOptions, Life!Resting
<1>2. LifeSnapshot /\ LifeListening
  BY DEF Life!Init, LifeSnapshot, LifeListening
<1>3. LifeBuilt /\ LifeForce /\ LifeChoice /\ Life!ReloadsForCause
  BY DEF Life!Init, LifeBuilt, LifeForce, LifeChoice, Life!ReloadsForCause, Life!SettingUp
<1>4. Life!NothingSurvives
  BY DEF Life!Init, Life!NothingSurvives
<1> QED BY <1>1, <1>2, <1>3, <1>4 DEF LifeInv

\* The listener, called after an edit of the settings or of the tokens, keeps the
\* snapshot true, puts the settings into force and asks for no reload.
LEMMA LifeNotified ==
    ASSUME LifeTypeOK, LifeSnapshot, NEW current \in LifeOptions, options' = current,
           current.chosen = options.chosen, UNCHANGED listening,
           Life!Notified(snapshot, current)
    PROVE  /\ LifeSnapshot'
           /\ snapshot' \in LifeOptions \cup {Life!NoOptions}
           /\ reloads' = reloads
           /\ IF listening
              THEN inForce' = current.settings \/ (inForce' = inForce /\ current = options)
              ELSE inForce' = inForce
<1>1. CASE ~listening
  BY <1>1 DEF Life!Notified, LifeSnapshot, LifeTypeOK
<1>2. CASE listening
  <2>1. snapshot = options /\ snapshot # Life!NoOptions
    BY <1>2 DEF LifeSnapshot, LifeTypeOK, LifeOptions, Life!NoOptions
  <2>2. CASE current = options
    BY <1>2, <2>1, <2>2 DEF Life!Notified, Life!NothingNew, LifeSnapshot, LifeTypeOK
  <2>3. CASE current # options
    <3>1. current.settings # options.settings
      BY <2>3 DEF LifeTypeOK, LifeOptions
    <3>2. Life!OnlyLive(snapshot, current)
      BY <2>1, <3>1 DEF Life!OnlyLive
    <3> QED
      BY <1>2, <2>1, <2>3, <3>2 DEF Life!Notified, Life!NothingNew, LifeSnapshot
  <2> QED BY <2>2, <2>3
<1> QED BY <1>1, <1>2

LEMMA LifeCreate == ASSUME LifeInv, Life!Create PROVE LifeInv'
<1> USE DEF LifeInv, Life!Resting, Life!SettingUp, Life!NotBuilt
<1>1. stage \in {"not_loaded", "setup_retry", "setup_error"}
  BY DEF Life!Create
<1>2. snapshot = Life!NoOptions /\ ~listening /\ flag = "none" /\ built = Life!NotBuilt /\ ~running
  BY <1>1 DEF Life!NothingSurvives
<1>3. reloads' \in Nat /\ owed' \in Nat /\ reloads' <= owed'
  BY DEF Life!Create, Life!TakesTurn, LifeTypeOK, Life!ReloadsForCause
<1>4. CASE stage' = "created"
  <2>1. /\ raced' = FALSE /\ running' = TRUE /\ inForce' = options.settings
        /\ UNCHANGED <<options, snapshot, flag, built, listening>>
    BY <1>4 DEF Life!Create
  <2>2. LifeTypeOK'
    BY <1>3, <1>4, <2>1 DEF LifeTypeOK, LifeOptions
  <2>3. LifeSnapshot' /\ LifeListening' /\ LifeBuilt' /\ Life!NothingSurvives'
    BY <1>2, <1>4, <2>1 DEF LifeSnapshot, LifeListening, LifeBuilt, Life!NothingSurvives
  <2>4. LifeForce' /\ LifeChoice' /\ Life!ReloadsForCause'
    BY <1>3, <1>4, <2>1 DEF LifeForce, LifeChoice, Life!ReloadsForCause
  <2> QED BY <2>2, <2>3, <2>4
<1>5. CASE stage' = "setup_error"
  BY <1>2, <1>3, <1>5 DEF Life!Create, LifeTypeOK, LifeSnapshot, LifeListening,
     LifeBuilt, LifeForce,
     LifeChoice, Life!ReloadsForCause, Life!NothingSurvives, Life!Released, LifeOptions
<1> QED BY <1>4, <1>5 DEF Life!Create

LEMMA LifeSetup ==
    ASSUME LifeInv, Life!FirstRefresh \/ Life!Forward \/ Life!Listen \/ Life!Loaded
    PROVE  LifeInv'
<1> USE DEF LifeInv, Life!Resting, Life!SettingUp, Life!NotBuilt, LifeTypeOK, LifeSnapshot,
            LifeListening,
            LifeBuilt, LifeForce, LifeChoice, LifeChosen, Life!ReloadsForCause, Life!NothingSurvives
<1>1. CASE Life!FirstRefresh
  BY <1>1 DEF Life!FirstRefresh
<1>2. CASE Life!Forward
  BY <1>2 DEF Life!Forward, Life!ShouldForward, LifeOptions
<1>3. CASE Life!Listen
  BY <1>3 DEF Life!Listen
<1>4. CASE Life!Loaded
  BY <1>4 DEF Life!Loaded
<1> QED BY <1>1, <1>2, <1>3, <1>4

LEMMA LifeEnd ==
    ASSUME LifeInv, Life!Abort \/ Life!Unload \/ Life!Unloaded \/ Life!Restart
    PROVE  LifeInv'
<1> USE DEF LifeInv, Life!Resting, Life!SettingUp, Life!NotBuilt, LifeTypeOK, LifeSnapshot,
            LifeListening,
            LifeBuilt, LifeForce, LifeChoice, LifeChosen, Life!ReloadsForCause, Life!NothingSurvives
<1>1. CASE Life!Abort
  BY <1>1 DEF Life!Abort, Life!Released
<1>2. CASE Life!Unload
  <2>1. reloads' \in Nat /\ owed' \in Nat /\ reloads' <= owed'
    BY <1>2 DEF Life!Unload, Life!TakesTurn
  <2> QED BY <1>2, <2>1 DEF Life!Unload, Life!WasForwarded
<1>3. CASE Life!Unloaded
  BY <1>3 DEF Life!Unloaded, Life!Released
<1>4. CASE Life!Restart
  <2>1. LifeTypeOK'
    BY <1>4 DEF Life!Restart, Life!Released
  <2>2. LifeSnapshot' /\ LifeListening' /\ LifeBuilt' /\ Life!NothingSurvives'
    BY <1>4 DEF Life!Restart, Life!Released
  <2>3. LifeForce' /\ LifeChoice' /\ Life!ReloadsForCause'
    BY <1>4 DEF Life!Restart
  <2> QED BY <2>1, <2>2, <2>3
<1> QED BY <1>1, <1>2, <1>3, <1>4

LEMMA LifeEdit ==
    ASSUME LifeInv, Life!EditSettings \/ Life!EditChoice \/ Life!TokenSaved
    PROVE  LifeInv'
<1> USE DEF LifeInv, Life!Resting, Life!SettingUp, Life!NotBuilt
<1>1. CASE Life!EditSettings
  <2>1. PICK n \in 0 .. MaxSetting :
            /\ options' = [options EXCEPT !.settings = n]
            /\ Life!Notified(snapshot, [options EXCEPT !.settings = n])
    BY <1>1 DEF Life!EditSettings
  <2> DEFINE new == [options EXCEPT !.settings = n]
  <2>2. new \in LifeOptions /\ new.chosen = options.chosen /\ new.settings = n
    BY DEF LifeTypeOK, LifeOptions
  <2>3. UNCHANGED listening
    BY <1>1 DEF Life!EditSettings
  <2>4. /\ LifeSnapshot' /\ snapshot' \in LifeOptions \cup {Life!NoOptions} /\ reloads' = reloads
        /\ IF listening THEN inForce' = n \/ (inForce' = inForce /\ new = options)
                        ELSE inForce' = inForce
    BY <2>1, <2>2, <2>3, LifeNotified
  <2>5. LifeTypeOK'
    BY <1>1, <2>1, <2>2, <2>4 DEF LifeTypeOK, Life!EditSettings, LifeOptions
  <2>6. LifeListening' /\ LifeBuilt' /\ Life!ReloadsForCause'
    BY <1>1, <2>4 DEF Life!EditSettings, LifeListening, LifeBuilt, Life!ReloadsForCause
  <2>7. LifeForce'
    BY <1>1, <2>1, <2>2, <2>4 DEF Life!EditSettings, LifeForce, LifeListening
  <2>8. LifeChoice'
    BY <1>1, <2>1, <2>2, <2>4 DEF Life!EditSettings, LifeChoice, LifeChosen
  <2>9. Life!NothingSurvives'
    BY <1>1, <2>4 DEF Life!EditSettings, Life!NothingSurvives, LifeSnapshot
  <2> QED BY <2>4, <2>5, <2>6, <2>7, <2>8, <2>9
<1>2. CASE Life!EditChoice
  <2>1. PICK m \in 0 .. MaxChoice :
            /\ m # options.chosen
            /\ options' = [options EXCEPT !.chosen = m]
            /\ snapshot' = [options EXCEPT !.chosen = m]
            /\ reloads' = reloads + 1
    BY <1>2 DEF Life!EditChoice, Life!SnapshotFirst
  <2>2. stage = "loaded" /\ listening /\ owed' = owed + 1
    BY <1>2 DEF Life!EditChoice, LifeListening
  <2>3. UNCHANGED <<stage, flag, inForce, built, listening, running, raced>>
    BY <1>2 DEF Life!EditChoice
  <2>4. options' \in LifeOptions /\ options'.settings = options.settings
    BY <2>1 DEF LifeTypeOK, LifeOptions
  <2> QED
    BY <2>1, <2>2, <2>3, <2>4 DEF LifeTypeOK, LifeSnapshot, LifeListening,
     LifeBuilt, LifeForce,
       LifeChoice, LifeChosen, Life!ReloadsForCause, Life!NothingSurvives
<1>3. CASE Life!TokenSaved
  <2>1. options' = options /\ options \in LifeOptions
    BY <1>3 DEF Life!TokenSaved, LifeTypeOK
  <2>2. LifeSnapshot' /\ snapshot' \in LifeOptions \cup {Life!NoOptions} /\ reloads' = reloads
        /\ (inForce' = options.settings \/ inForce' = inForce)
    BY <1>3, <2>1, LifeNotified DEF Life!TokenSaved
  <2> QED
    BY <1>3, <2>1, <2>2 DEF Life!TokenSaved, LifeTypeOK, LifeOptions, LifeSnapshot,
       LifeListening, LifeBuilt,
       LifeForce, LifeChoice, LifeChosen, Life!ReloadsForCause, Life!NothingSurvives
<1> QED BY <1>1, <1>2, <1>3

LEMMA LifeNext == LifeInv /\ Life!Next => LifeInv'
BY LifeCreate, LifeSetup, LifeEnd, LifeEdit DEF Life!Next

LEMMA LifeSound ==
    LifeInv => Life!OptionsInForce /\ Life!NothingSurvives /\ Life!ReloadsForCause
BY DEF LifeInv, LifeForce, LifeChoice, LifeChosen, Life!OptionsInForce, Life!SettingUp

-----------------------------------------------------------------------------
(***************************************************************************)
(* Logins                                                                  *)
(***************************************************************************)

Users  == Accounts \cup {NoAccount}
Tokens == [chain : Nat, n : Nat]
Links  == [account : Users, n : Nat]
Chains == Seq(Links)

SmsStages == {"sending", "resending", "sms", "verifying-sms", "initializing", "email",
              "verifying-email", "exchanging-sms", "exchanging-email"}

LoginTypeOK ==
    /\ chains \in Chains /\ tokens \in Tokens /\ stored \in Tokens
    /\ uid \in Users /\ phone \in Users /\ entry.uid \in Users
    /\ method \in {"none", "sberid", "sms"}
    /\ stage \in SmsStages \cup {"menu", "confirm", "phone", "external", "retry", "gone"}
                 \cup Login!Probing
    /\ lost \subseteq DOMAIN chains

\* The flow goes one way of the two, and the account of an SMS login is its phone.
WayInv ==
    /\ stage \in SmsStages \cup {"phone"} => method = "sms"
    /\ stage \in {"external", "retry"} => method = "sberid"
    /\ stage = "confirm" => method # "none"
    /\ stage \in {"probing-sms", "probing-email"} => method = "sms"
    /\ stage = "probing-sberid" => method = "sberid"
    /\ method = "sms" /\ stage \in SmsStages \cup Login!Probing => uid = phone

\* A token that is kept is of a chain of the account that the flow is for; what a
\* check stores is of the same chain; the newer of the two is the last that arrived.
TokenInv ==
    /\ tokens # Login!NoToken /\ stage # "gone" =>
        /\ tokens.chain \in DOMAIN chains
        /\ uid # NoAccount => chains[tokens.chain].account = uid
        /\ Login!TokenAfter = Login!LastReceived(tokens.chain)
    /\ stage \in Login!Probing => tokens # Login!NoToken
    /\ stage \notin Login!Probing \cup {"gone"} => stored = Login!NoToken

\* There is an entry before only for a reauth.
EntryInv == source # "reauth" /\ stage # "gone" => entry.uid = NoAccount

LoginInv == LoginTypeOK /\ WayInv /\ TokenInv /\ EntryInv

LEMMA NoTokenIsToken == Login!NoToken \in Tokens
BY DEF Login!NoToken, Tokens

LEMMA LoginInit == Login!Init => LoginInv
<1> SUFFICES ASSUME Login!Init PROVE LoginInv
  OBVIOUS
<1>1. LoginTypeOK
  <2>1. chains \in Chains
    BY DEF Login!Init, Chains
  <2>2. entry.uid \in Users
    BY DEF Login!Init, Login!NoEntry, Users
  <2> QED
    BY <2>1, <2>2, NoTokenIsToken DEF Login!Init, LoginTypeOK, Users, SmsStages
<1>2. WayInv /\ TokenInv
  BY DEF Login!Init, WayInv, TokenInv, SmsStages, Login!Probing
<1>3. EntryInv
  BY DEF Login!Init, EntryInv, Login!NoEntry
<1> QED BY <1>1, <1>2, <1>3 DEF LoginInv

\* A sign-in starts a chain after the others.
LEMMA ChainStarts ==
    ASSUME chains \in Chains, NEW a \in Users, NEW t, Login!SignsIn(a, t)
    PROVE  /\ chains' \in Chains /\ t \in Tokens /\ t # Login!NoToken
           /\ t.chain \in DOMAIN chains' /\ chains'[t.chain].account = a
           /\ t = [chain |-> t.chain, n |-> chains'[t.chain].n]
           /\ t.chain \notin DOMAIN chains /\ DOMAIN chains \subseteq DOMAIN chains'
<1>1. /\ chains' = Append(chains, [account |-> a, n |-> 0])
      /\ t = [chain |-> Len(chains) + 1, n |-> 0]
  BY DEF Login!SignsIn
<1>2. Len(chains) \in Nat /\ [account |-> a, n |-> 0] \in Links
  BY DEF Chains, Links
<1> QED BY <1>1, <1>2 DEF Chains, Tokens, Login!NoToken

LEMMA FormSteps ==
    ASSUME LoginInv,
           \/ Login!Choose \/ Login!Close \/ Login!Expire \/ Login!ReadAgain \/ Login!Retry
           \/ Login!EnterPhone \/ Login!Resend \/ Login!EnterCode \/ Login!SendEmail
    PROVE  LoginInv'
<1> USE DEF LoginInv, Login!Probing, Login!TokenAfter, Login!LastReceived, Login!Newest
<1>1. CASE Login!Choose
  <2>1. LoginTypeOK'
    BY <1>1, NoTokenIsToken
       DEF Login!Choose, LoginTypeOK, SmsStages, Users
  <2>2. WayInv' /\ EntryInv'
    BY <1>1 DEF Login!Choose, LoginTypeOK, WayInv, EntryInv, SmsStages
  <2>3. TokenInv'
    BY <1>1 DEF Login!Choose, WayInv, TokenInv, SmsStages
  <2> QED BY <2>1, <2>2, <2>3
<1>2. CASE Login!Close \/ Login!Expire \/ Login!ReadAgain
  BY <1>2 DEF Login!Close, Login!Gone, Login!Expire, Login!ReadAgain, LoginTypeOK, WayInv, TokenInv,
              EntryInv, SmsStages
<1>3. CASE Login!Retry
  <2>1. LoginTypeOK'
    BY <1>3, NoTokenIsToken
       DEF Login!Retry, LoginTypeOK, SmsStages, Users
  <2>2. WayInv' /\ EntryInv'
    BY <1>3 DEF Login!Retry, LoginTypeOK, WayInv, EntryInv, SmsStages
  <2>3. TokenInv'
    BY <1>3 DEF Login!Retry, WayInv, TokenInv, SmsStages
  <2> QED BY <2>1, <2>2, <2>3
<1>4. CASE Login!EnterPhone
  <2>1. LoginTypeOK'
    BY <1>4, NoTokenIsToken
       DEF Login!EnterPhone, Login!Gone, Login!Sends, Login!CleanUp, LoginTypeOK, SmsStages, Users
  <2>2. WayInv' /\ EntryInv'
    BY <1>4 DEF Login!EnterPhone, Login!Gone, Login!Sends, Login!CleanUp,
       LoginTypeOK, WayInv, EntryInv, SmsStages
  <2>3. TokenInv'
    BY <1>4 DEF Login!EnterPhone, Login!Gone, Login!Sends, Login!CleanUp,
       WayInv, TokenInv, SmsStages
  <2> QED BY <2>1, <2>2, <2>3
<1>5. CASE Login!Resend
  BY <1>5, NoTokenIsToken
     DEF Login!Resend, Login!Sends, Login!CleanUp, LoginTypeOK, WayInv, TokenInv, EntryInv,
         SmsStages
<1>6. CASE Login!EnterCode
  <2>1. LoginTypeOK'
    BY <1>6, NoTokenIsToken
       DEF Login!EnterCode, Login!AsksTheCode, LoginTypeOK, SmsStages, Users
  <2>2. WayInv' /\ EntryInv'
    BY <1>6 DEF Login!EnterCode, Login!AsksTheCode, LoginTypeOK, WayInv, EntryInv, SmsStages
  <2>3. TokenInv'
    BY <1>6 DEF Login!EnterCode, Login!AsksTheCode, WayInv, TokenInv, SmsStages
  <2> QED BY <2>1, <2>2, <2>3
<1>7. CASE Login!SendEmail
  <2>1. LoginTypeOK'
    BY <1>7, NoTokenIsToken
       DEF Login!SendEmail, Login!CleanUp, LoginTypeOK, SmsStages, Users
  <2>2. WayInv' /\ EntryInv'
    BY <1>7 DEF Login!SendEmail, Login!CleanUp,
       LoginTypeOK, WayInv, EntryInv, SmsStages
  <2>3. TokenInv'
    BY <1>7 DEF Login!SendEmail, Login!CleanUp, WayInv, TokenInv, SmsStages
  <2> QED BY <2>1, <2>2, <2>3
<1> QED BY <1>1, <1>2, <1>3, <1>4, <1>5, <1>6, <1>7

LEMMA RequestSteps ==
    ASSUME LoginInv,
           \/ Login!Callback \/ Login!Sent \/ Login!Verified \/ Login!Exchanged
    PROVE  LoginInv'
<1> USE DEF LoginInv, Login!Probing, Login!TokenAfter, Login!LastReceived, Login!Newest
<1>1. CASE Login!Callback
  <2>1. PICK a \in Accounts, t \in [chain : 1 .. MaxLogins, n : {0}] :
            /\ Login!SignsIn(a, t)
            /\ \E u \in {a, NoAccount} :
                /\ uid' = u
                /\ IF Login!OtherAccount(u)
                   THEN stage' = "gone" /\ UNCHANGED <<tokens, stored>>
                   ELSE stage' = "probing-sberid" /\ tokens' = t /\ stored' = Login!NoToken
    BY <1>1 DEF Login!Callback
  <2>2. /\ chains' \in Chains /\ t \in Tokens /\ t # Login!NoToken
        /\ t.chain \in DOMAIN chains' /\ chains'[t.chain].account = a
        /\ t = [chain |-> t.chain, n |-> chains'[t.chain].n]
        /\ t.chain \notin DOMAIN chains /\ DOMAIN chains \subseteq DOMAIN chains'
    BY <2>1, ChainStarts DEF Users, LoginTypeOK
  <2>3. uid' \in {a, NoAccount} /\ method = "sberid" /\ Login!NoToken \in Tokens
    BY <1>1, <2>1, NoTokenIsToken DEF Login!Callback, WayInv
  <2>4. CASE stage' = "gone"
    BY <1>1, <2>1, <2>2, <2>3, <2>4
       DEF Login!Callback, Users, LoginTypeOK, WayInv, TokenInv, EntryInv, SmsStages
  <2>5. CASE stage' = "probing-sberid" /\ tokens' = t /\ stored' = Login!NoToken
    BY <1>1, <2>2, <2>3, <2>5
       DEF Login!Callback, Users, LoginTypeOK, WayInv, TokenInv, EntryInv, SmsStages
  <2> QED BY <2>1, <2>4, <2>5
<1>2. CASE Login!Sent
  BY <1>2 DEF Login!Sent, LoginTypeOK, WayInv, TokenInv, EntryInv, SmsStages
<1>3. CASE Login!Verified
  <2>1. LoginTypeOK'
    BY <1>3, NoTokenIsToken
       DEF Login!Verified, Login!CleanUp, LoginTypeOK, SmsStages, Users
  <2>2. WayInv' /\ EntryInv'
    BY <1>3 DEF Login!Verified, Login!CleanUp,
       LoginTypeOK, WayInv, EntryInv, SmsStages
  <2>3. TokenInv'
    BY <1>3 DEF Login!Verified, Login!CleanUp, WayInv, TokenInv, SmsStages
  <2> QED BY <2>1, <2>2, <2>3
<1>4. CASE Login!Exchanged
  <2>1. ASSUME NEW t, Login!SignsIn(phone, t), tokens' = t,
               stage' \in {"probing-sms", "probing-email"}, stored' = Login!NoToken
        PROVE  LoginInv'
    <3>1. /\ chains' \in Chains /\ t \in Tokens /\ t # Login!NoToken
          /\ t.chain \in DOMAIN chains' /\ chains'[t.chain].account = phone
          /\ t = [chain |-> t.chain, n |-> chains'[t.chain].n]
          /\ t.chain \notin DOMAIN chains /\ DOMAIN chains \subseteq DOMAIN chains'
      BY <2>1, ChainStarts DEF LoginTypeOK
    <3> QED
      BY <1>4, <2>1, <3>1, NoTokenIsToken
         DEF Login!Exchanged, LoginTypeOK, WayInv, TokenInv, EntryInv, SmsStages
  <2>2. ASSUME UNCHANGED <<tokens, stored, chains>>, stage' \in {"sms", "email"}
        PROVE  LoginInv'
    BY <1>4, <2>2 DEF Login!Exchanged, LoginTypeOK, WayInv, TokenInv, EntryInv, SmsStages
  <2> QED BY <1>4, <2>1, <2>2 DEF Login!Exchanged
<1> QED BY <1>1, <1>2, <1>3, <1>4

LEMMA NextToken ==
    ASSUME NEW t \in Tokens
    PROVE  [t EXCEPT !.n = @ + 1] \in Tokens /\ [t EXCEPT !.n = @ + 1].chain = t.chain
BY DEF Tokens

LEMMA NextLink ==
    ASSUME NEW link \in Links
    PROVE  /\ [link EXCEPT !.n = @ + 1] \in Links
           /\ [link EXCEPT !.n = @ + 1].account = link.account
BY DEF Links

\* A refresh token that is used is the last that arrived, and the newest: its chain has
\* lost none, and has one more.
LEMMA UsedToken ==
    ASSUME LoginInv, NEW c, Login!Used(c)
    PROVE  /\ chains' \in Chains /\ DOMAIN chains' = DOMAIN chains /\ c \in DOMAIN chains
           /\ \A x \in DOMAIN chains : chains'[x].account = chains[x].account
           /\ chains[c].n \in Nat /\ chains'[c].n = chains[c].n + 1
           /\ c = tokens.chain /\ tokens # Login!NoToken /\ c \notin lost /\ c \in Nat \ {0}
           /\ Login!TokenAfter = [chain |-> c, n |-> chains[c].n]
<1> DEFINE link == [chains[c] EXCEPT !.n = @ + 1]
<1>1. /\ c = tokens.chain /\ tokens # Login!NoToken /\ c \in DOMAIN chains
      /\ Login!TokenAfter = Login!LastReceived(c) /\ Login!TokenAfter = Login!Newest(c)
  BY DEF Login!Used, LoginInv, TokenInv, Login!Probing, Login!TokenAfter
<1>2. chains \in Seq(Links) /\ c \in 1 .. Len(chains) /\ DOMAIN chains = 1 .. Len(chains)
  BY <1>1, LenProperties DEF Chains, LoginInv, LoginTypeOK
<1>3. chains[c] \in Links
  BY <1>2, ElementOfSeq
<1>4. link \in Links /\ link.account = chains[c].account /\ link.n = chains[c].n + 1
      /\ chains[c].n \in Nat
  BY <1>3 DEF Links
<1>5. c \notin lost
  BY <1>1, <1>4 DEF Login!LastReceived, Login!Newest
<1>6. chains' = [chains EXCEPT ![c] = link]
  BY DEF Login!Used
<1>7. /\ chains' \in Seq(Links) /\ Len(chains') = Len(chains)
      /\ \A j \in 1 .. Len(chains) : chains'[j] = IF j = c THEN link ELSE chains[j]
  <2> HIDE DEF link
  <2> QED BY <1>2, <1>4, <1>6, ExceptSeq
<1>8. DOMAIN chains' = 1 .. Len(chains) /\ c \in Nat \ {0}
  BY <1>2, <1>7, LenProperties
<1> QED BY <1>1, <1>2, <1>4, <1>5, <1>7, <1>8 DEF Chains, Login!Newest

LEMMA CheckSteps ==
    ASSUME LoginInv,
           \/ \E c \in DOMAIN chains : Login!Rotates(c) \/ Login!LosesRotation(c)
           \/ Login!ProbeFails \/ Login!ProbeSucceeds
    PROVE  LoginInv'
<1> USE DEF LoginInv, LoginTypeOK, WayInv, TokenInv, EntryInv, SmsStages, Login!Probing,
            Login!LastReceived, Login!Newest
<1>1. ASSUME NEW c \in DOMAIN chains, Login!Rotates(c) PROVE LoginInv'
  <2>1. /\ stored' = [chain |-> c, n |-> chains[c].n + 1] /\ stage \in Login!Probing
        /\ UNCHANGED <<stage, source, method, entry, uid, phone, tokens, lost>>
    BY <1>1 DEF Login!Rotates, Login!Used
  <2>2. Login!Used(c)
    BY <1>1 DEF Login!Rotates
  <2>3. stored' \in Tokens /\ stored'.chain = c /\ stored' # Login!NoToken
    <3>1. chains[c].n + 1 \in Nat /\ c \in Nat /\ c # 0
      BY <2>2, UsedToken
    <3> QED BY <2>1, <3>1 DEF Tokens, Login!NoToken
  <2>4. TokenInv'
    <3>1. tokens'.chain = c /\ c \in DOMAIN chains' /\ c \notin lost'
      BY <2>1, <2>2, UsedToken
    <3>2. chains'[c].n = chains[c].n + 1 /\ chains'[c].account = chains[c].account
      BY <2>2, UsedToken
    <3>3. Login!TokenAfter' = Login!LastReceived(c)'
      BY <2>1, <2>3, <3>1, <3>2 DEF Login!TokenAfter
    <3> QED BY <2>1, <3>1, <3>2, <3>3
  <2> QED BY <2>1, <2>2, <2>3, <2>4, UsedToken
<1>2. ASSUME NEW c \in DOMAIN chains, Login!LosesRotation(c) PROVE LoginInv'
  <2>1. /\ tokens' \in {Login!NoToken, Login!TokenAfter} /\ stored' = Login!NoToken
        /\ lost' = lost \cup {c}
        /\ stage' = CASE stage = "probing-sms" -> "sms"
                       [] stage = "probing-email" -> "email"
                       [] OTHER -> "retry"
        /\ stage \in Login!Probing
        /\ UNCHANGED <<source, method, entry, uid, phone>>
    BY <1>2 DEF Login!LosesRotation, Login!Fails
  <2>2. Login!Used(c)
    BY <1>2 DEF Login!LosesRotation
  <2>3. Login!TokenAfter \in Tokens
    BY DEF Login!TokenAfter
  <2>4. TokenInv'
    <3>1. c \in DOMAIN chains' /\ c \in lost'
      BY <2>1, <2>2, UsedToken
    <3>2. /\ chains[c].n \in Nat /\ chains'[c].n = chains[c].n + 1
          /\ chains'[c].account = chains[c].account
      BY <2>2, UsedToken
    <3>3. tokens' # Login!NoToken => tokens' = [chain |-> c, n |-> chains[c].n]
      BY <2>1, <2>2, UsedToken
    <3>4. Login!LastReceived(c)' = [chain |-> c, n |-> chains[c].n]
      <4>1. Login!LastReceived(c)' = [chain |-> c, n |-> chains'[c].n - 1]
        BY <3>1
      <4> QED BY <3>2, <4>1
    <3>5. Login!TokenAfter' = tokens'
      BY <2>1 DEF Login!TokenAfter
    <3> QED BY <2>1, <2>2, <3>1, <3>2, <3>3, <3>4, <3>5, UsedToken
  <2> QED BY <2>1, <2>2, <2>3, <2>4, UsedToken, NoTokenIsToken
<1>3. CASE Login!ProbeFails
  <2>1. /\ tokens' \in {Login!NoToken, Login!TokenAfter} /\ stored' = Login!NoToken
        /\ UNCHANGED <<chains, lost>>
        /\ stage' = CASE stage = "probing-sms" -> "sms"
                       [] stage = "probing-email" -> "email"
                       [] OTHER -> "retry"
        /\ stage \in Login!Probing
        /\ UNCHANGED <<source, method, entry, uid, phone>>
    BY <1>3 DEF Login!ProbeFails, Login!Fails
  <2>2. Login!TokenAfter \in Tokens
    BY DEF Login!TokenAfter
  <2>3. TokenInv'
    BY <2>1 DEF Login!TokenAfter
  <2> QED BY <2>1, <2>2, <2>3, NoTokenIsToken
<1>4. CASE Login!ProbeSucceeds
  <2>1. /\ stage' = "gone" /\ pending' = FALSE /\ stored' = Login!NoToken
        /\ entry' \in {entry, [uid |-> uid, tokens |-> Login!TokenAfter, method |-> method]}
        /\ stage \in Login!Probing
        /\ UNCHANGED <<source, method, uid, phone, tokens, ouid, challenge, chains, lost>>
    BY <1>4 DEF Login!ProbeSucceeds, Login!Gone
  <2>2. Login!TokenAfter \in Tokens
    BY DEF Login!TokenAfter
  <2>3. LoginTypeOK'
    <3>1. entry'.uid \in Users
      BY <2>1
    <3>2. stored' \in Tokens
      BY <2>1, NoTokenIsToken
    <3> QED BY <2>1, <3>1, <3>2
  <2> QED BY <2>1, <2>3
<1> QED BY <1>1, <1>2, <1>3, <1>4

LEMMA LoginNext == LoginInv /\ Login!Next => LoginInv'
BY FormSteps, RequestSteps, CheckSteps DEF Login!Next

\* Only a check that succeeds saves, and what it saves is of the entry's account.
LEMMA LoginSaves == LoginInv /\ Login!Next => Login!SavesWhatWorks
<1> SUFFICES ASSUME LoginInv, Login!Next, entry' # entry
             PROVE  /\ entry'.tokens = Login!LastReceived(entry'.tokens.chain)
                    /\ entry.uid # NoAccount => chains[entry'.tokens.chain].account = entry.uid
  BY DEF Login!SavesWhatWorks
<1>1. Login!ProbeSucceeds
  BY DEF Login!Next, Login!Choose, Login!Close, Login!Expire, Login!ReadAgain, Login!Callback,
         Login!Retry, Login!EnterPhone, Login!Resend, Login!Sent, Login!EnterCode,
         Login!Verified, Login!Exchanged, Login!SendEmail, Login!Rotates, Login!LosesRotation,
         Login!ProbeFails, Login!Fails
<1>2. /\ ~Login!OtherAccount(uid) /\ stage \in Login!Probing
      /\ entry' = [uid |-> uid, tokens |-> Login!TokenAfter, method |-> method]
  BY <1>1 DEF Login!ProbeSucceeds
<1>3. /\ entry'.tokens = Login!LastReceived(tokens.chain) /\ entry'.tokens.chain = tokens.chain
      /\ uid # NoAccount => chains[tokens.chain].account = uid
  BY <1>2 DEF LoginInv, TokenInv, Login!Probing, Login!LastReceived, Login!Newest
<1>4. entry.uid # NoAccount => entry.uid = uid
  BY <1>2 DEF Login!OtherAccount, LoginInv, EntryInv, Login!Probing
<1> QED BY <1>2, <1>3, <1>4

-----------------------------------------------------------------------------
(***************************************************************************)
(* Scenarios of the YAML                                                   *)
(***************************************************************************)

Scenario == [slug : Slugs \cup {Sync!ByUser, "deleted"}, content : Nat, active : BOOLEAN]
Reports  == [content : Nat, enabled : BOOLEAN]

\* The stages of a slug: before anything of it exists, with a scenario at hand, once it
\* was written, and once it is known that it shall be inactive.
Quieted    == {"quieted", "quieted new"}
Quieting   == {"quiet", "quiet new", "undo"} \cup Quieted
WrittenAt  == {"created", "updated"} \cup Quieting
ScenarioAt == {"update"} \cup WrittenAt
SlugAt     == {"create"} \cup ScenarioAt

Works == [stage : {"idle", "list", "next"} \cup SlugAt, specs : [Slugs -> Reports],
          left : SUBSET Slugs, managed : [Slugs -> Nat], seen : [Slugs -> Reports],
          slug : Slugs \cup {Sync!ByUser}, id : Nat]

SyncTypeOK ==
    /\ yaml \in [Slugs -> Reports] /\ effect \in [Slugs -> Reports]
    /\ scenarios \in Seq(Scenario)
    /\ work \in Works
    /\ meddled \subseteq Slugs

\* No slug has two scenarios.
OneEach ==
    \A i, j \in DOMAIN scenarios :
        scenarios[i].slug \in Slugs /\ scenarios[i].slug = scenarios[j].slug => i = j

NoneOf(s) == \A i \in DOMAIN scenarios : scenarios[i].slug # s
Was(i, s) == i \in DOMAIN scenarios /\ (scenarios[i].slug = s \/ scenarios[i] = Sync!Deleted)

\* What the list said of the slugs that are left is still so, but for deletions.
LeftInv ==
    work.stage \notin {"idle", "list"} =>
        \A s \in work.left :
            IF work.managed[s] = Sync!NoId THEN NoneOf(s) ELSE Was(work.managed[s], s)

\* The slug that has its turn: it is created only if it has no scenario, and the scenario
\* at hand was its own.
TurnInv ==
    /\ work.stage \in SlugAt => work.slug \in Slugs \ work.left
    /\ work.stage = "create" => NoneOf(work.slug)
    /\ work.stage \in ScenarioAt => Was(work.id, work.slug)

\* A scenario that was written, and not edited since, is what was sent, except that it
\* may be active; and its slug has no report until that is settled.
SentInv ==
    /\ work.stage \in WrittenAt =>
        /\ effect[work.slug] = Sync!NoClaim
        /\ work.slug \notin meddled =>
            /\ scenarios[work.id].slug = work.slug
            /\ scenarios[work.id].content = Sync!Wanted.content
            /\ Sync!Wanted.enabled => scenarios[work.id].active
            /\ work.stage \in Quieted => ~scenarios[work.id].active
    /\ work.stage \in Quieting => ~Sync!Wanted.enabled

\* A report is true of some scenario of its slug.
ClaimInv ==
    \A s \in Slugs \ meddled :
        effect[s] # Sync!NoClaim =>
            \E i \in DOMAIN scenarios : scenarios[i].slug = s /\ Sync!Content(i) = effect[s]

SyncInv == SyncTypeOK /\ OneEach /\ LeftInv /\ TurnInv /\ SentInv /\ ClaimInv

-----------------------------------------------------------------------------

LEMMA IdleWork == Sync!Idle \in Works /\ Sync!Idle.stage = "idle" /\ Sync!Absent \in Reports
<1>1. Sync!Absent \in Reports
  BY DEF Sync!Absent, Reports
<1> QED BY <1>1 DEF Sync!Idle, Works, Sync!NoId

LEMMA SpecsAreReports == Sync!Specs \subseteq Reports
<1>1. 1 .. MaxContent \subseteq Nat
  OBVIOUS
<1>2. [content : 1 .. MaxContent, enabled : BOOLEAN] \subseteq Reports
  BY <1>1 DEF Reports
<1> QED BY <1>2, IdleWork DEF Sync!Specs

\* The last scenario that bears a slug, if there is only one.
LEMMA ManagedIs ==
    ASSUME SyncTypeOK, OneEach, NEW s \in Slugs
    PROVE  /\ Sync!ManagedId(s) \in Nat
           /\ Sync!ManagedId(s) = Sync!NoId => NoneOf(s)
           /\ Sync!ManagedId(s) # Sync!NoId =>
                /\ Sync!ManagedId(s) \in DOMAIN scenarios
                /\ scenarios[Sync!ManagedId(s)].slug = s
           /\ \A i \in DOMAIN scenarios : scenarios[i].slug = s => Sync!ManagedId(s) = i
<1> DEFINE marked == {i \in DOMAIN scenarios : Sync!BearsSlug(i, s)}
<1>1. DOMAIN scenarios = 1 .. Len(scenarios) /\ Len(scenarios) \in Nat
  BY LenProperties DEF SyncTypeOK
<1>2. CASE marked = {}
  BY <1>2 DEF Sync!ManagedId, Sync!BearsSlug, Sync!NoId, NoneOf
<1>3. CASE marked # {}
  <2>1. PICK i \in marked : TRUE
    BY <1>3
  <2>2. \A j \in marked : j = i
    BY DEF OneEach, Sync!BearsSlug
  <2>3. Sync!ManagedId(s) = CHOOSE k \in marked : \A j \in marked : j <= k
    BY <1>3 DEF Sync!ManagedId
  <2>4. i \in marked /\ \A j \in marked : j <= i
    BY <1>1, <2>2
  <2>5. Sync!ManagedId(s) \in marked
    BY <2>3, <2>4
  <2>6. Sync!ManagedId(s) = i
    BY <2>2, <2>5
  <2>7. i \in Nat /\ i # 0 /\ i \in DOMAIN scenarios /\ scenarios[i].slug = s
    BY <1>1 DEF Sync!BearsSlug
  <2>8. \A j \in DOMAIN scenarios : scenarios[j].slug = s => j = i
    BY <2>2 DEF Sync!BearsSlug
  <2> QED BY <2>6, <2>7, <2>8 DEF Sync!NoId
<1> QED BY <1>2, <1>3

LEMMA SyncSound == SyncInv => Sync!ReportIsTrue /\ Sync!OneScenario
<1> SUFFICES ASSUME SyncInv PROVE Sync!ReportIsTrue /\ Sync!OneScenario
  OBVIOUS
<1>1. Sync!ReportIsTrue
  <2> SUFFICES ASSUME NEW s \in Slugs, effect[s] # Sync!NoClaim, s \notin meddled
               PROVE  /\ Sync!ManagedId(s) # Sync!NoId
                      /\ Sync!Content(Sync!ManagedId(s)) = effect[s]
    BY DEF Sync!ReportIsTrue
  <2>1. PICK i \in DOMAIN scenarios : scenarios[i].slug = s /\ Sync!Content(i) = effect[s]
    BY DEF SyncInv, ClaimInv
  <2>2. Sync!ManagedId(s) = i
    BY <2>1, ManagedIs DEF SyncInv
  <2>3. i # Sync!NoId
    BY LenProperties DEF SyncInv, SyncTypeOK, Sync!NoId
  <2> QED BY <2>1, <2>2, <2>3
<1>2. Sync!OneScenario
  BY DEF SyncInv, OneEach, Sync!OneScenario
<1> QED BY <1>1, <1>2

LEMMA SyncInit == Sync!Init => SyncInv
<1> SUFFICES ASSUME Sync!Init PROVE SyncInv
  OBVIOUS
<1> DEFINE first == [slug |-> Sync!ByUser, content |-> 1, active |-> TRUE]
<1>1. scenarios = <<first>> /\ first \in Scenario /\ first.slug \notin Slugs
  BY NameAssumption DEF Sync!Init, Scenario, Sync!ByUser
<1>2. work = Sync!Idle /\ work.stage = "idle"
  BY IdleWork DEF Sync!Init
<1> HIDE DEF first
<1>3. SyncTypeOK
  <2>1. yaml \in [Slugs -> Reports] /\ effect \in [Slugs -> Reports] /\ meddled = {}
    BY IdleWork, SpecsAreReports DEF Sync!Init, Sync!NoClaim
  <2>2. scenarios \in Seq(Scenario)
    BY <1>1
  <2> QED BY <1>2, <2>1, <2>2, IdleWork DEF SyncTypeOK
<1>4. OneEach
  BY <1>1 DEF OneEach
<1>5. LeftInv /\ TurnInv /\ SentInv
  BY <1>2 DEF LeftInv, TurnInv, SentInv, SlugAt, ScenarioAt, WrittenAt, Quieting, Quieted
<1>6. ClaimInv
  BY DEF Sync!Init, ClaimInv
<1> QED BY <1>3, <1>4, <1>5, <1>6 DEF SyncInv

\* The reconciliation is at rest, or has not listed yet.
LEMMA SyncRests ==
    ASSUME SyncInv, work' \in Works, work'.stage \in {"idle", "list"}, yaml' \in [Slugs -> Reports],
           UNCHANGED <<scenarios, effect, meddled>>
    PROVE  SyncInv'
<1>1. SyncTypeOK' /\ OneEach' /\ ClaimInv'
  BY DEF SyncInv, SyncTypeOK, OneEach, ClaimInv, Sync!Content
<1>2. LeftInv' /\ TurnInv' /\ SentInv'
  BY DEF LeftInv, TurnInv, SentInv, SlugAt, ScenarioAt, WrittenAt, Quieting, Quieted
<1> QED BY <1>1, <1>2 DEF SyncInv

\* The turn of a slug ends, with what is left of the others.
LEMMA TurnEnds ==
    ASSUME SyncInv, work.stage \notin {"idle", "list"}, work' \in Works, work'.stage = "next",
           work'.left \subseteq work.left,
           \A s \in work'.left : work'.managed[s] = work.managed[s],
           UNCHANGED <<yaml, scenarios, effect, meddled>>
    PROVE  SyncInv'
<1>1. SyncTypeOK' /\ OneEach' /\ ClaimInv'
  BY DEF SyncInv, SyncTypeOK, OneEach, ClaimInv, Sync!Content
<1>2. TurnInv' /\ SentInv'
  BY DEF TurnInv, SentInv, SlugAt, ScenarioAt, WrittenAt, Quieting, Quieted
<1>3. LeftInv'
  BY DEF SyncInv, LeftInv, NoneOf, Was
<1> QED BY <1>1, <1>2, <1>3 DEF SyncInv

LEMMA AtFacts ==
    ASSUME SyncTypeOK, NEW place \in SlugAt, Sync!At(place)
    PROVE  /\ work' \in Works /\ work'.stage = place /\ work'.slug = work.slug
           /\ work'.id = work.id /\ work'.left = work.left /\ work'.managed = work.managed
           /\ work'.specs = work.specs
BY DEF SyncTypeOK, Works, Sync!At

LEMMA TurnEndsFacts ==
    ASSUME SyncTypeOK, Sync!TurnEnds
    PROVE  /\ work' \in Works /\ work'.stage = "next"
           /\ work'.left = work.left /\ work'.managed = work.managed
BY DEF SyncTypeOK, Works, Sync!TurnEnds, Sync!NoId, Sync!ByUser

LEMMA ListSteps ==
    ASSUME SyncInv, \/ Sync!Start \/ Sync!ListFails \/ Sync!Done \/ Sync!Crash \/ Sync!EditYaml
    PROVE  SyncInv'
<1>1. CASE Sync!Start
  <2>1. work' \in Works /\ work'.stage = "list"
    BY <1>1, IdleWork DEF Sync!Start, SyncInv, SyncTypeOK, Works
  <2> QED BY <1>1, <2>1, SyncRests DEF Sync!Start, SyncInv, SyncTypeOK
<1>2. CASE Sync!ListFails \/ Sync!Done \/ Sync!Crash
  <2>1. work' = Sync!Idle /\ UNCHANGED <<yaml, scenarios, effect, meddled>>
    BY <1>2 DEF Sync!ListFails, Sync!Done, Sync!Crash
  <2> QED BY <2>1, IdleWork, SyncRests DEF SyncInv, SyncTypeOK
<1>3. CASE Sync!EditYaml
  <2>1. yaml' \in [Slugs -> Reports]
    BY <1>3, SpecsAreReports DEF Sync!EditYaml, SyncInv, SyncTypeOK
  <2> QED BY <1>3, <2>1, SyncRests DEF Sync!EditYaml, SyncInv, SyncTypeOK
<1> QED BY <1>1, <1>2, <1>3

LEMMA ListedStep == ASSUME SyncInv, Sync!Listed PROVE SyncInv'
<1> USE DEF SyncInv
<1>1. /\ work'.stage = "next" /\ work'.left \subseteq Slugs
      /\ work'.managed = [s \in Slugs |-> Sync!ManagedId(s)]
      /\ UNCHANGED <<yaml, scenarios, effect, meddled>>
  BY DEF Sync!Listed, SyncTypeOK, Works
<1>2. \A i \in DOMAIN scenarios : Sync!Content(i) \in Reports
  <2> SUFFICES ASSUME NEW i \in DOMAIN scenarios PROVE Sync!Content(i) \in Reports
    OBVIOUS
  <2>1. scenarios[i] \in Scenario
    BY LenProperties, ElementOfSeq DEF SyncTypeOK
  <2> QED BY <2>1 DEF Sync!Content, Scenario, Reports
<1>3. SyncTypeOK'
  <2>1. [s \in Slugs |-> Sync!ManagedId(s)] \in [Slugs -> Nat]
    BY ManagedIs
  <2>2. [s \in Slugs |-> IF Sync!ManagedId(s) = Sync!NoId THEN Sync!Absent
                         ELSE Sync!Content(Sync!ManagedId(s))] \in [Slugs -> Reports]
    BY <1>2, ManagedIs, IdleWork
  <2>3. work' \in Works
    BY <2>1, <2>2 DEF Sync!Listed, SyncTypeOK, Works
  <2> QED BY <1>1, <2>3 DEF SyncTypeOK
<1>4. OneEach' /\ ClaimInv'
  BY <1>1 DEF OneEach, ClaimInv, Sync!Content
<1>5. TurnInv' /\ SentInv'
  BY <1>1 DEF TurnInv, SentInv, SlugAt, ScenarioAt, WrittenAt, Quieting, Quieted
<1>6. LeftInv'
  BY <1>1, ManagedIs DEF LeftInv, NoneOf, Was
<1> QED BY <1>3, <1>4, <1>5, <1>6

LEMMA TakeSlugStep == ASSUME SyncInv, Sync!TakeSlug PROVE SyncInv'
<1> USE DEF SyncInv
<1>1. PICK s \in work.left :
        LET w == [work EXCEPT !.left = @ \ {s}, !.seen[s] = Sync!Absent, !.managed[s] = Sync!NoId]
            at(place) == [w EXCEPT !.stage = place, !.slug = s, !.id = work.managed[s]]
        IN  \/ work' = w
            \/ work.managed[s] = Sync!NoId /\ work' = at("create")
            \/ work.managed[s] # Sync!NoId /\ work' \in {w, at("update")}
  BY DEF Sync!TakeSlug
<1> DEFINE w == [work EXCEPT !.left = @ \ {s}, !.seen[s] = Sync!Absent, !.managed[s] = Sync!NoId]
           at(place) == [w EXCEPT !.stage = place, !.slug = s, !.id = work.managed[s]]
<1>2. work.stage = "next" /\ UNCHANGED <<yaml, scenarios, effect, meddled>>
  BY DEF Sync!TakeSlug
<1>3. s \in Slugs /\ work.managed[s] \in Nat
  BY DEF SyncTypeOK, Works
<1>4. /\ w \in Works /\ w.stage = "next" /\ w.left = work.left \ {s}
      /\ \A r \in w.left : w.managed[r] = work.managed[r]
  BY <1>2, <1>3, IdleWork DEF SyncTypeOK, Works, Sync!NoId
<1> HIDE DEF w
<1>5. \A place \in SlugAt :
        /\ at(place) \in Works /\ at(place).stage = place /\ at(place).slug = s
        /\ at(place).id = work.managed[s] /\ at(place).left = w.left
        /\ at(place).managed = w.managed
  BY <1>3, <1>4 DEF Works
<1>6. CASE work' = w
  BY <1>2, <1>4, <1>6, TurnEnds
<1>7. CASE \/ work.managed[s] = Sync!NoId /\ work' = at("create")
           \/ work.managed[s] # Sync!NoId /\ work' = at("update")
  <2>1. PICK place \in {"create", "update"} :
            /\ work' = at(place)
            /\ place = "create" <=> work.managed[s] = Sync!NoId
    BY <1>7
  <2>2. /\ work' \in Works /\ work'.stage = place /\ work'.slug = s
        /\ work'.id = work.managed[s] /\ work'.left = w.left
        /\ work'.managed = w.managed
    <3> HIDE DEF at
    <3> QED BY <1>5, <2>1 DEF SlugAt, ScenarioAt
  <2>3. SyncTypeOK' /\ OneEach' /\ ClaimInv'
    BY <1>2, <2>2 DEF SyncTypeOK, OneEach, ClaimInv, Sync!Content
  <2>4. LeftInv'
    BY <1>2, <1>4, <2>2 DEF LeftInv, NoneOf, Was
  <2>5. TurnInv'
    BY <1>2, <1>3, <1>4, <2>1, <2>2
       DEF LeftInv, TurnInv, NoneOf, Was, SlugAt, ScenarioAt, WrittenAt, Quieting, Quieted
  <2>6. SentInv'
    BY <2>2 DEF SentInv, WrittenAt, Quieting, Quieted
  <2> QED BY <2>3, <2>4, <2>5, <2>6
<1> QED BY <1>1, <1>6, <1>7 DEF w

\* A report of what was sent, once it is settled.
LEMMA ClaimStep ==
    ASSUME SyncInv, Sync!Claim, work.stage \in WrittenAt,
           Sync!Wanted.enabled \/ work.stage \in Quieted,
           UNCHANGED <<yaml, scenarios, meddled>>
    PROVE  SyncInv'
<1> USE DEF SyncInv
<1>1. /\ work' \in Works /\ work'.stage = "next"
      /\ work'.left = work.left /\ work'.managed = work.managed
      /\ effect' = [effect EXCEPT ![work.slug] = Sync!Wanted]
  BY TurnEndsFacts DEF Sync!Claim
<1>2. work.slug \in Slugs /\ Was(work.id, work.slug) /\ Sync!Wanted \in Reports
  BY DEF TurnInv, SlugAt, ScenarioAt, SyncTypeOK, Works, Sync!Wanted
<1>3. SyncTypeOK' /\ OneEach'
  BY <1>1, <1>2 DEF SyncTypeOK, OneEach
<1>4. LeftInv' /\ TurnInv' /\ SentInv'
  <2>1. work.stage \notin {"idle", "list"}
    BY DEF WrittenAt, Quieting, Quieted
  <2> QED
    BY <1>1, <2>1 DEF LeftInv, TurnInv, SentInv, SlugAt, ScenarioAt, WrittenAt, Quieting, Quieted, NoneOf,
                      Was
<1>5. ASSUME NEW s \in Slugs \ meddled, effect'[s] # Sync!NoClaim
      PROVE  \E i \in DOMAIN scenarios : scenarios[i].slug = s /\ Sync!Content(i) = effect'[s]
  <2>1. CASE s = work.slug
    <3>1. /\ scenarios[work.id].slug = s /\ work.id \in DOMAIN scenarios
          /\ scenarios[work.id].content = Sync!Wanted.content
          /\ scenarios[work.id].active = Sync!Wanted.enabled
      <4>1. work.id \in DOMAIN scenarios /\ scenarios[work.id] \in Scenario
        BY <1>2, LenProperties, ElementOfSeq DEF Was, SyncTypeOK
      <4>2. /\ scenarios[work.id].slug = s
            /\ scenarios[work.id].content = Sync!Wanted.content
            /\ Sync!Wanted.enabled => scenarios[work.id].active
            /\ work.stage \in Quieted => ~scenarios[work.id].active
        BY <2>1 DEF SentInv
      <4>3. work.stage \in Quieted => ~Sync!Wanted.enabled
        BY DEF SentInv, Quieting, Quieted
      <4>4. scenarios[work.id].active \in BOOLEAN /\ Sync!Wanted.enabled \in BOOLEAN
        BY <1>2, <4>1 DEF Scenario, Reports
      <4>5. scenarios[work.id].active = Sync!Wanted.enabled
        BY <4>2, <4>3, <4>4
      <4> QED BY <4>1, <4>2, <4>5
    <3>2. effect'[s] = Sync!Wanted
      BY <1>1, <1>2, <2>1 DEF SyncTypeOK
    <3>3. Sync!Wanted = [content |-> Sync!Wanted.content, enabled |-> Sync!Wanted.enabled]
      BY <1>2 DEF Reports
    <3>4. Sync!Content(work.id) = Sync!Wanted
      BY <3>1, <3>3 DEF Sync!Content
    <3> QED BY <3>1, <3>2, <3>4
  <2>2. CASE s # work.slug
    BY <1>1, <1>2, <1>5, <2>2 DEF ClaimInv, SyncTypeOK
  <2> QED BY <2>1, <2>2
<1>6. ClaimInv'
  BY <1>5 DEF ClaimInv, Sync!Content
<1> QED BY <1>3, <1>4, <1>6

\* The slug goes on to another stage, with nothing written.
LEMMA GoesOn ==
    ASSUME SyncInv, NEW place \in {"quiet", "quiet new", "undo"}, Sync!At(place),
           work.stage \in WrittenAt, ~Sync!Wanted.enabled,
           UNCHANGED <<yaml, scenarios, effect, meddled>>
    PROVE  SyncInv'
<1> USE DEF SyncInv
<1>1. place \in SlugAt /\ place \in ScenarioAt /\ place \in WrittenAt
  BY DEF SlugAt, ScenarioAt, WrittenAt, Quieting, Quieted
<1>2. /\ work' \in Works /\ work'.stage = place /\ work'.slug = work.slug
      /\ work'.id = work.id /\ work'.left = work.left /\ work'.managed = work.managed
      /\ Sync!Wanted' = Sync!Wanted
  BY <1>1, AtFacts DEF Sync!Wanted
<1>3. work.stage \in SlugAt /\ work.stage \in ScenarioAt /\ work.stage \notin {"idle", "list"}
  BY DEF SlugAt, ScenarioAt, WrittenAt, Quieting, Quieted
<1>4. SyncTypeOK' /\ OneEach' /\ ClaimInv'
  BY <1>2 DEF SyncTypeOK, OneEach, ClaimInv, Sync!Content
<1>5. LeftInv' /\ TurnInv'
  BY <1>2, <1>3 DEF LeftInv, TurnInv, NoneOf, Was
<1>6. SentInv'
  BY <1>2 DEF SentInv, WrittenAt, Quieting, Quieted
<1> QED BY <1>4, <1>5, <1>6

LEMMA AnswerSteps ==
    ASSUME SyncInv, \/ Sync!Answered \/ Sync!Deactivated \/ Sync!Fails
    PROVE  SyncInv'
<1>1. CASE Sync!Answered
  <2>1. work.stage \in WrittenAt /\ UNCHANGED <<yaml, scenarios, meddled>>
    BY <1>1 DEF Sync!Answered, WrittenAt
  <2>2. CASE Sync!MustDeactivate
    <3>1. \E place \in {"quiet", "quiet new"} : Sync!At(place)
      BY <1>1, <2>2 DEF Sync!Answered
    <3> QED BY <1>1, <2>1, <2>2, <3>1, GoesOn DEF Sync!Answered, Sync!MustDeactivate
  <2>3. CASE ~Sync!MustDeactivate
    BY <1>1, <2>1, <2>3, ClaimStep DEF Sync!Answered, Sync!MustDeactivate
  <2> QED BY <2>2, <2>3
<1>2. CASE Sync!Deactivated
  BY <1>2, ClaimStep DEF Sync!Deactivated, WrittenAt, Quieting, Quieted
<1>3. CASE Sync!Fails
  <2>1. CASE work.stage \in {"quiet new", "quieted new"}
    <3>1. work.stage \in WrittenAt /\ ~Sync!Wanted.enabled
      BY <2>1 DEF SyncInv, SentInv, WrittenAt, Quieting, Quieted
    <3> QED BY <1>3, <2>1, <3>1, GoesOn DEF Sync!Fails
  <2>2. CASE work.stage \notin {"quiet new", "quieted new"}
    BY <1>3, <2>2, TurnEnds, TurnEndsFacts DEF Sync!Fails, SyncInv
  <2> QED BY <2>1, <2>2
<1> QED BY <1>1, <1>2, <1>3

-----------------------------------------------------------------------------

\* One scenario of the list is edited, keeping its slug, or deleted.
LEMMA Replaced ==
    ASSUME SyncTypeOK, OneEach, NEW i \in DOMAIN scenarios, NEW e \in Scenario,
           e = Sync!Deleted \/ (scenarios[i] # Sync!Deleted /\ e.slug = scenarios[i].slug),
           scenarios' = [scenarios EXCEPT ![i] = e]
    PROVE  /\ scenarios' \in Seq(Scenario) /\ DOMAIN scenarios' = DOMAIN scenarios
           /\ \A j \in DOMAIN scenarios : scenarios'[j] = IF j = i THEN e ELSE scenarios[j]
           /\ OneEach'
           /\ \A s \in Slugs : NoneOf(s) => NoneOf(s)'
           /\ \A s \in Slugs, j \in Nat : Was(j, s) => Was(j, s)'
<1>1. DOMAIN scenarios = 1 .. Len(scenarios) /\ Len(scenarios) \in Nat
  BY LenProperties DEF SyncTypeOK
<1>2. /\ scenarios' \in Seq(Scenario) /\ Len(scenarios') = Len(scenarios)
      /\ \A j \in 1 .. Len(scenarios) : scenarios'[j] = IF j = i THEN e ELSE scenarios[j]
  BY <1>1, ExceptSeq DEF SyncTypeOK
<1>3. DOMAIN scenarios' = DOMAIN scenarios
  BY <1>1, <1>2, LenProperties
<1>4. Sync!Deleted.slug \notin Slugs
  BY NameAssumption DEF Sync!Deleted
<1>5. \A j \in DOMAIN scenarios : scenarios'[j] = IF j = i THEN e ELSE scenarios[j]
  BY <1>1, <1>2
<1>6. OneEach'
  BY <1>3, <1>4, <1>5 DEF OneEach
<1>7. \A s \in Slugs : NoneOf(s) => NoneOf(s)'
  BY <1>3, <1>4, <1>5 DEF NoneOf
<1>8. \A s \in Slugs, j \in Nat : Was(j, s) => Was(j, s)'
  BY <1>3, <1>5 DEF Was
<1> QED BY <1>2, <1>3, <1>5, <1>6, <1>7, <1>8

\* A request for the scenario at hand is served: it is edited or deleted, and the slug
\* has no report.
LEMMA ServedStep ==
    ASSUME SyncInv, NEW e \in Scenario, work.stage \in ScenarioAt,
           \/ e = Sync!Deleted
           \/ scenarios[work.id] # Sync!Deleted /\ e.slug = scenarios[work.id].slug,
           scenarios' = [scenarios EXCEPT ![work.id] = e],
           effect' = [effect EXCEPT ![work.slug] = Sync!NoClaim],
           meddled' \in {meddled, meddled \ {work.slug}}, UNCHANGED yaml,
           work' \in Works, work'.stage \in {"next"} \cup ScenarioAt,
           work'.left = work.left, work'.managed = work.managed,
           work'.stage # "next" => work'.slug = work.slug /\ work'.id = work.id,
           SentInv'
    PROVE  SyncInv'
<1> USE DEF SyncInv
<1>1. /\ work.slug \in Slugs \ work.left /\ Was(work.id, work.slug)
      /\ work.stage \notin {"idle", "list"}
  BY DEF TurnInv, SlugAt, ScenarioAt, WrittenAt, Quieting, Quieted
<1>2. /\ scenarios' \in Seq(Scenario) /\ DOMAIN scenarios' = DOMAIN scenarios
      /\ \A j \in DOMAIN scenarios : scenarios'[j] = IF j = work.id THEN e ELSE scenarios[j]
      /\ OneEach'
      /\ \A s \in Slugs : NoneOf(s) => NoneOf(s)'
      /\ \A s \in Slugs, j \in Nat : Was(j, s) => Was(j, s)'
  BY <1>1, Replaced DEF Was
<1>3. SyncTypeOK'
  BY <1>1, <1>2, IdleWork DEF SyncTypeOK, Sync!NoClaim
<1>4. LeftInv'
  BY <1>1, <1>2 DEF LeftInv, SyncTypeOK, Works
<1>5. TurnInv'
  BY <1>1, <1>2 DEF TurnInv, SyncTypeOK, Works, SlugAt, ScenarioAt, WrittenAt, Quieting, Quieted
<1>6. ClaimInv'
  <2> SUFFICES ASSUME NEW s \in Slugs \ meddled', effect'[s] # Sync!NoClaim
               PROVE  \E i \in DOMAIN scenarios' :
                        scenarios'[i].slug = s /\ Sync!Content(i)' = effect'[s]
    BY DEF ClaimInv
  <2>1. s # work.slug /\ effect'[s] = effect[s] /\ s \in Slugs \ meddled
    BY <1>1 DEF SyncTypeOK
  <2>2. PICK i \in DOMAIN scenarios : scenarios[i].slug = s /\ Sync!Content(i) = effect[s]
    BY <2>1 DEF ClaimInv
  <2>3. i # work.id
    <3>1. Sync!Deleted.slug \notin Slugs
      BY NameAssumption DEF Sync!Deleted
    <3> QED BY <1>1, <2>1, <2>2, <3>1 DEF Was
  <2> QED BY <1>2, <2>1, <2>2, <2>3 DEF Sync!Content
<1> QED BY <1>2, <1>3, <1>4, <1>5, <1>6

LEMMA DeletedIs == Sync!Deleted \in Scenario
BY DEF Sync!Deleted, Scenario

\* A scenario with other contents.
LEMMA EditedScenario ==
    ASSUME NEW r \in Scenario, NEW c \in Nat, NEW a \in BOOLEAN
    PROVE  /\ [r EXCEPT !.active = a] \in Scenario
           /\ [r EXCEPT !.active = a].slug = r.slug
           /\ [r EXCEPT !.active = a].content = r.content
           /\ [r EXCEPT !.active = a].active = a
           /\ [r EXCEPT !.content = c, !.active = a] \in Scenario
           /\ [r EXCEPT !.content = c, !.active = a].slug = r.slug
BY DEF Scenario

LEMMA ServeUpdateStep == ASSUME SyncInv, Sync!ServeUpdate PROVE SyncInv'
<1> USE DEF SyncInv
<1>1. PICK active \in {Sync!Wanted.enabled, TRUE} :
        scenarios' = [scenarios EXCEPT ![work.id] =
            [slug |-> work.slug, content |-> Sync!Wanted.content, active |-> active]]
  BY DEF Sync!ServeUpdate
<1> DEFINE e == [slug |-> work.slug, content |-> Sync!Wanted.content, active |-> active]
<1>2. /\ work.stage = "update" /\ scenarios[work.id] # Sync!Deleted
      /\ effect' = [effect EXCEPT ![work.slug] = Sync!NoClaim]
      /\ meddled' = meddled \ {work.slug} /\ UNCHANGED yaml
  BY DEF Sync!ServeUpdate
<1>3. work.stage \in ScenarioAt /\ work.stage \in SlugAt /\ "updated" \in SlugAt
      /\ "updated" \in ScenarioAt
  BY <1>2 DEF ScenarioAt, SlugAt, WrittenAt
<1>4. /\ work.slug \in Slugs /\ work.id \in DOMAIN scenarios
      /\ scenarios[work.id].slug = work.slug /\ Sync!Wanted \in Reports
  BY <1>2, <1>3 DEF TurnInv, Was, SyncTypeOK, Works, Sync!Wanted
<1>5. e \in Scenario /\ e.slug = work.slug /\ e.content = Sync!Wanted.content
      /\ (Sync!Wanted.enabled => e.active)
  BY <1>1, <1>4 DEF Scenario, Reports
<1>6. /\ work' \in Works /\ work'.stage = "updated" /\ work'.slug = work.slug
      /\ work'.id = work.id /\ work'.left = work.left /\ work'.managed = work.managed
      /\ Sync!Wanted' = Sync!Wanted
  BY <1>3, AtFacts DEF Sync!ServeUpdate, Sync!Wanted
<1> HIDE DEF e
<1>7. scenarios' = [scenarios EXCEPT ![work.id] = e]
  BY <1>1 DEF e
<1>8. scenarios'[work.id] = e
  BY <1>4, <1>5, <1>7, Replaced
<1>9. SentInv'
  BY <1>2, <1>4, <1>5, <1>6, <1>8 DEF SentInv, WrittenAt, Quieting, Quieted, SyncTypeOK
<1> QED BY <1>2, <1>3, <1>4, <1>5, <1>6, <1>7, <1>9, ServedStep

LEMMA ServeDeactivateStep == ASSUME SyncInv, Sync!ServeDeactivate PROVE SyncInv'
<1> USE DEF SyncInv
<1> DEFINE e == [scenarios[work.id] EXCEPT !.active = FALSE]
<1>1. /\ work.stage \in {"quiet", "quiet new"} /\ scenarios[work.id] # Sync!Deleted
      /\ UNCHANGED <<yaml, effect, meddled>>
  BY DEF Sync!ServeDeactivate
<1>2. work.stage \in ScenarioAt /\ work.stage \in SlugAt /\ work.stage \in WrittenAt
      /\ work.stage \in Quieting
      /\ Quieted \subseteq SlugAt /\ Quieted \subseteq ScenarioAt
  BY <1>1 DEF ScenarioAt, SlugAt, WrittenAt, Quieting, Quieted
<1>3. work.slug \in Slugs /\ work.id \in DOMAIN scenarios
  BY <1>2 DEF TurnInv, Was
<1>4. scenarios[work.id] \in Scenario
  BY <1>3, LenProperties, ElementOfSeq DEF SyncTypeOK
<1>5. /\ e \in Scenario /\ e.slug = scenarios[work.id].slug
      /\ e.content = scenarios[work.id].content /\ e.active = FALSE
  BY <1>4, EditedScenario
<1>6. /\ work' \in Works /\ work'.stage \in Quieted /\ work'.slug = work.slug
      /\ work'.id = work.id /\ work'.left = work.left /\ work'.managed = work.managed
      /\ Sync!Wanted' = Sync!Wanted
  <2>1. PICK place \in Quieted : Sync!At(place)
    BY DEF Sync!ServeDeactivate, Quieted
  <2> QED BY <1>2, <2>1, AtFacts DEF Sync!Wanted
<1>7. scenarios' = [scenarios EXCEPT ![work.id] = e]
  BY Zenon DEF Sync!ServeDeactivate
<1> HIDE DEF e
<1>8. scenarios'[work.id] = e
  BY <1>1, <1>3, <1>5, <1>7, Replaced
<1>9. SentInv'
  BY <1>1, <1>2, <1>5, <1>6, <1>8 DEF SentInv
<1>10. effect' = [effect EXCEPT ![work.slug] = Sync!NoClaim]
  BY <1>1, <1>2, <1>3 DEF SentInv, SyncTypeOK
<1> QED BY <1>1, <1>2, <1>5, <1>6, <1>7, <1>9, <1>10, ServedStep

LEMMA ServeDeleteStep == ASSUME SyncInv, Sync!ServeDelete PROVE SyncInv'
<1> USE DEF SyncInv
<1>1. /\ work.stage = "undo" /\ UNCHANGED <<yaml, effect, meddled>>
      /\ scenarios' = [scenarios EXCEPT ![work.id] = Sync!Deleted]
  BY DEF Sync!ServeDelete
<1>2. work.stage \in ScenarioAt /\ work.stage \in SlugAt /\ work.stage \in WrittenAt
  BY <1>1 DEF ScenarioAt, SlugAt, WrittenAt, Quieting, Quieted
<1>3. work.slug \in Slugs
  BY <1>2 DEF TurnInv
<1>4. /\ work' \in Works /\ work'.stage = "next"
      /\ work'.left = work.left /\ work'.managed = work.managed
  BY TurnEndsFacts DEF Sync!ServeDelete
<1>5. SentInv'
  BY <1>4 DEF SentInv, WrittenAt, Quieting, Quieted
<1>6. effect' = [effect EXCEPT ![work.slug] = Sync!NoClaim]
  BY <1>1, <1>2, <1>3 DEF SentInv, SyncTypeOK
<1> QED BY <1>1, <1>2, <1>4, <1>5, <1>6, DeletedIs, ServedStep

LEMMA ServeCreateStep == ASSUME SyncInv, Sync!ServeCreate PROVE SyncInv'
<1> USE DEF SyncInv
<1>1. PICK active \in {Sync!Wanted.enabled, TRUE} :
        scenarios' = Append(scenarios,
            [slug |-> work.slug, content |-> Sync!Wanted.content, active |-> active])
  BY DEF Sync!ServeCreate
<1> DEFINE e == [slug |-> work.slug, content |-> Sync!Wanted.content, active |-> active]
           n == Len(scenarios)
<1>2. /\ work.stage = "create"
      /\ work' = [work EXCEPT !.stage = "created", !.id = n + 1]
      /\ effect' = [effect EXCEPT ![work.slug] = Sync!NoClaim]
      /\ meddled' = meddled \ {work.slug} /\ UNCHANGED yaml
  BY DEF Sync!ServeCreate
<1>3. work.stage \in SlugAt /\ "created" \in SlugAt
  BY <1>2 DEF SlugAt, ScenarioAt, WrittenAt
<1>4. /\ work.slug \in Slugs \ work.left /\ NoneOf(work.slug) /\ Sync!Wanted \in Reports
  BY <1>2, <1>3 DEF TurnInv, SyncTypeOK, Works, Sync!Wanted
<1>5. e \in Scenario /\ e.slug = work.slug /\ e.content = Sync!Wanted.content
      /\ (Sync!Wanted.enabled => e.active)
  BY <1>1, <1>4 DEF Scenario, Reports
<1>6. scenarios' = Append(scenarios, e)
  BY <1>1
<1> HIDE DEF e
<1>7. DOMAIN scenarios = 1 .. n /\ n \in Nat /\ scenarios \in Seq(Scenario)
  BY LenProperties DEF SyncTypeOK
<1>8. /\ scenarios' \in Seq(Scenario) /\ DOMAIN scenarios' = 1 .. n + 1
      /\ \A i \in 1 .. n : scenarios'[i] = scenarios[i]
      /\ scenarios'[n + 1] = e
  BY <1>5, <1>6, <1>7, AppendProperties, LenProperties
<1> HIDE DEF n
<1>9. /\ work' \in Works /\ work'.stage = "created" /\ work'.slug = work.slug
      /\ work'.id = n + 1 /\ work'.left = work.left /\ work'.managed = work.managed
      /\ Sync!Wanted' = Sync!Wanted
  <2>1. work \in Works /\ n + 1 \in Nat
    BY <1>7 DEF SyncTypeOK
  <2>2. /\ work' \in Works /\ work'.stage = "created" /\ work'.id = n + 1
    BY <1>2, <1>3, <2>1 DEF Works
  <2>3. /\ work'.slug = work.slug /\ work'.specs = work.specs
        /\ work'.left = work.left /\ work'.managed = work.managed
    BY <1>2, <2>1 DEF Works
  <2> QED BY <2>2, <2>3 DEF Sync!Wanted
<1>10. SyncTypeOK'
  BY <1>2, <1>4, <1>8, <1>9, IdleWork DEF SyncTypeOK, Sync!NoClaim
<1>11. OneEach'
  BY <1>4, <1>5, <1>7, <1>8 DEF OneEach, NoneOf
<1>12. LeftInv'
  BY <1>2, <1>4, <1>5, <1>7, <1>8, <1>9 DEF LeftInv, NoneOf, Was
<1>13. TurnInv'
  BY <1>4, <1>5, <1>7, <1>8, <1>9 DEF TurnInv, Was
<1>14. SentInv'
  BY <1>2, <1>4, <1>5, <1>8, <1>9 DEF SentInv, WrittenAt, Quieting, Quieted, SyncTypeOK
<1>15. ClaimInv'
  <2> SUFFICES ASSUME NEW s \in Slugs \ meddled', effect'[s] # Sync!NoClaim
               PROVE  \E i \in DOMAIN scenarios' :
                        scenarios'[i].slug = s /\ Sync!Content(i)' = effect'[s]
    BY DEF ClaimInv
  <2>1. s # work.slug /\ effect'[s] = effect[s] /\ s \in Slugs \ meddled
    BY <1>2, <1>4 DEF SyncTypeOK
  <2>2. PICK i \in DOMAIN scenarios : scenarios[i].slug = s /\ Sync!Content(i) = effect[s]
    BY <2>1 DEF ClaimInv
  <2> QED BY <1>7, <1>8, <2>1, <2>2 DEF Sync!Content
<1> QED BY <1>10, <1>11, <1>12, <1>13, <1>14, <1>15

LEMMA EditScenarioStep == ASSUME SyncInv, Sync!EditScenario PROVE SyncInv'
<1> USE DEF SyncInv
<1>1. PICK i \in DOMAIN scenarios :
        /\ scenarios[i] # Sync!Deleted
        /\ \/ \E c \in 1 .. MaxContent, a \in BOOLEAN :
                scenarios' = [scenarios EXCEPT ![i].content = c, ![i].active = a]
           \/ scenarios' = [scenarios EXCEPT ![i] = Sync!Deleted]
        /\ meddled' = meddled \cup ({scenarios[i].slug} \cap Slugs)
  BY DEF Sync!EditScenario
<1>2. UNCHANGED <<yaml, work, effect>>
  BY DEF Sync!EditScenario
<1>3. scenarios[i] \in Scenario
  BY LenProperties, ElementOfSeq DEF SyncTypeOK
<1>4. PICK e \in Scenario :
        /\ e = Sync!Deleted \/ e.slug = scenarios[i].slug
        /\ scenarios' = [scenarios EXCEPT ![i] = e]
  <2>1. CASE scenarios' = [scenarios EXCEPT ![i] = Sync!Deleted]
    BY <2>1, DeletedIs
  <2>2. ASSUME NEW c \in 1 .. MaxContent, NEW a \in BOOLEAN,
               scenarios' = [scenarios EXCEPT ![i].content = c, ![i].active = a]
        PROVE  \E e \in Scenario : /\ e = Sync!Deleted \/ e.slug = scenarios[i].slug
                                   /\ scenarios' = [scenarios EXCEPT ![i] = e]
    <3> DEFINE e == [scenarios[i] EXCEPT !.content = c, !.active = a]
    <3>1. e \in Scenario /\ e.slug = scenarios[i].slug
      <4>1. c \in Nat
        OBVIOUS
      <4>2. \A r \in Scenario :
                /\ [r EXCEPT !.content = c, !.active = a] \in Scenario
                /\ [r EXCEPT !.content = c, !.active = a].slug = r.slug
        BY <4>1, EditedScenario
      <4> QED BY <1>3, <4>2, Zenon
    <3>2. scenarios' = [scenarios EXCEPT ![i] = e]
      BY <2>2
    <3> QED BY <3>1, <3>2
  <2> QED BY <1>1, <2>1, <2>2
<1>5. /\ scenarios' \in Seq(Scenario) /\ DOMAIN scenarios' = DOMAIN scenarios
      /\ \A j \in DOMAIN scenarios : scenarios'[j] = IF j = i THEN e ELSE scenarios[j]
      /\ OneEach'
      /\ \A s \in Slugs : NoneOf(s) => NoneOf(s)'
      /\ \A s \in Slugs, j \in Nat : Was(j, s) => Was(j, s)'
  BY <1>1, <1>4, Replaced
<1>6. SyncTypeOK'
  BY <1>1, <1>2, <1>5 DEF SyncTypeOK
<1>7. LeftInv' /\ TurnInv'
  BY <1>2, <1>5 DEF LeftInv, TurnInv, SyncTypeOK, Works, SlugAt, ScenarioAt, WrittenAt
<1>8. SentInv'
  <2> SUFFICES ASSUME work.stage \in WrittenAt, work.slug \notin meddled'
               PROVE  scenarios'[work.id] = scenarios[work.id]
    BY <1>1, <1>2 DEF SentInv, Sync!Wanted
  <2>1. work.slug \in Slugs /\ work.id \in DOMAIN scenarios /\ work.slug \notin meddled
    BY <1>1 DEF TurnInv, SlugAt, ScenarioAt, Was
  <2>2. scenarios[work.id].slug = work.slug
    BY <2>1 DEF SentInv
  <2>3. work.id # i
    BY <1>1, <2>1, <2>2
  <2> QED BY <1>5, <2>1, <2>3
<1>9. ClaimInv'
  <2> SUFFICES ASSUME NEW s \in Slugs \ meddled', effect[s] # Sync!NoClaim
               PROVE  \E j \in DOMAIN scenarios' :
                        scenarios'[j].slug = s /\ Sync!Content(j)' = effect[s]
    BY <1>2 DEF ClaimInv
  <2>1. PICK j \in DOMAIN scenarios : scenarios[j].slug = s /\ Sync!Content(j) = effect[s]
    BY <1>1 DEF ClaimInv
  <2>2. j # i
    BY <1>1, <2>1
  <2> QED BY <1>5, <2>1, <2>2 DEF Sync!Content
<1> QED BY <1>5, <1>6, <1>7, <1>8, <1>9

LEMMA SyncNext == SyncInv /\ Sync!Next => SyncInv'
BY ListSteps, ListedStep, TakeSlugStep, AnswerSteps, ServeCreateStep, ServeUpdateStep,
   ServeDeactivateStep, ServeDeleteStep, EditScenarioStep DEF Sync!Next

-----------------------------------------------------------------------------
(***************************************************************************)
(* Announcements                                                           *)
(***************************************************************************)

Kinds      == Surrogate!Kinds
Surrogates == [kind : Kinds \cup {"ttc", "none"}, text : Callers \cup {Blank}]

\* Where a caller stands with a scenario in hand, and where it does not hold the lock.
InHand   == {"update", "updated", "run", "ran", "created"}
Unlocked == {"idle", "wait"}
Places   == InHand \cup Unlocked \cup {"list", "listed", "create", "gone"}

SurrogateTypeOK ==
    /\ cloud \in Seq(Surrogates)
    /\ cache \in [Kinds -> Nat] /\ look \in [Kinds -> Int]
    /\ lock \in [Kinds -> Callers \cup {NoCaller}]
    /\ pc \in [Callers -> Places] /\ sid \in [Callers -> Nat]
    /\ job \in [Callers -> {"send", "ensure"}] /\ again \in [Callers -> BOOLEAN]
    /\ stray \in SUBSET (Callers \X Nat) /\ mixed \in BOOLEAN

\* Who works for the home holds the lock of the kind.
HolderInv == \A c \in Callers : pc[c] \notin Unlocked => lock[Kind[c]] = c

OfKind(i, k) == i \in DOMAIN cloud /\ (cloud[i] = Surrogate!Deleted \/ cloud[i].kind = k)
NoSuch(k)    == \A i \in DOMAIN cloud : cloud[i].kind # k

\* Every id that is kept anywhere is of the caller's kind, if it is not deleted.
CachedInv ==
    \A k \in Kinds : /\ cache[k] # 0 => OfKind(cache[k], k)
                     /\ look[k] > 0 => OfKind(look[k], k)
InHandInv ==
    \A c \in Callers :
        pc[c] \in InHand \/ (pc[c] = "listed" /\ sid[c] # 0) => OfKind(sid[c], Kind[c])
StrayInv  == \A s \in stray : OfKind(s[2], Kind[s[1]])

\* The home has one surrogate of a kind, and none where one is about to be created.
OneInv == \A k \in Kinds, i, j \in DOMAIN cloud : cloud[i].kind = k /\ cloud[j].kind = k => i = j
NoneInv ==
    \A c \in Callers :
        pc[c] = "create" \/ (pc[c] = "listed" /\ sid[c] = 0) => NoSuch(Kind[c])

\* From its PUT to its run, the scenario has the caller's text.
TextInv ==
    ~mixed => \A c \in Callers :
        pc[c] \in {"updated", "run"} /\ cloud[sid[c]] # Surrogate!Deleted
        => cloud[sid[c]] = [kind |-> Kind[c], text |-> c]

SurrogateInv ==
    /\ SurrogateTypeOK
    /\ HolderInv /\ CachedInv /\ InHandInv /\ StrayInv
    /\ OneInv /\ NoneInv /\ TextInv

LEMMA KindFacts ==
    /\ \A c \in Callers : Kind[c] \in Kinds
    /\ \A k \in Kinds : k = "tts"
BY DEF Kind, Kinds, Surrogate!Kinds

LEMMA DeletedFacts == Surrogate!Deleted \in Surrogates /\ Surrogate!Deleted.kind \notin Kinds
BY KindFacts DEF Surrogate!Deleted, Surrogates

LEMMA SurrogateSound ==
    SurrogateInv => Surrogate!SpeaksItsOwn /\ Surrogate!OneSurrogate
<1> SUFFICES ASSUME SurrogateInv PROVE Surrogate!SpeaksItsOwn /\ Surrogate!OneSurrogate
  OBVIOUS
<1>1. Surrogate!SpeaksItsOwn
  BY DEF SurrogateInv, TextInv, Surrogate!SpeaksItsOwn
<1>2. Surrogate!OneSurrogate
  BY DEF SurrogateInv, OneInv, Surrogate!OneSurrogate, Surrogate!Matches, Kinds
<1> QED BY <1>1, <1>2

LEMMA SurrogateInit == Surrogate!Init => SurrogateInv
<1> SUFFICES ASSUME Surrogate!Init PROVE SurrogateInv
  OBVIOUS
<1> DEFINE old == [kind |-> "ttc", text |-> Blank]
<1>1. /\ cloud = <<>> \/ cloud = <<old>>
      /\ old \in Surrogates /\ old.kind \notin Kinds
  BY KindFacts DEF Surrogate!Init, Surrogates
<1> HIDE DEF old
<1>2. SurrogateTypeOK
  <2>1. cloud \in Seq(Surrogates)
    <3>1. CASE cloud = <<>>
      BY <3>1
    <3>2. CASE cloud = <<old>>
      BY <1>1, <3>2
    <3> QED BY <1>1, <3>1, <3>2
  <2>2. /\ cache \in [Kinds -> Nat] /\ look \in [Kinds -> Int]
        /\ lock \in [Kinds -> Callers \cup {NoCaller}]
    BY DEF Surrogate!Init, Kinds, Surrogate!NotAsked
  <2>3. /\ pc \in [Callers -> Places] /\ sid \in [Callers -> Nat]
        /\ job \in [Callers -> {"send", "ensure"}] /\ again \in [Callers -> BOOLEAN]
    BY DEF Surrogate!Init, Places, Unlocked
  <2>4. stray = {} /\ mixed = FALSE
    BY DEF Surrogate!Init
  <2> QED
    BY <2>1, <2>2, <2>3, <2>4 DEF SurrogateTypeOK
<1>3. HolderInv /\ CachedInv /\ InHandInv /\ StrayInv
  BY DEF Surrogate!Init, HolderInv, CachedInv, InHandInv, StrayInv, Unlocked, InHand, Kinds,
         Surrogate!NotAsked
<1>4. OneInv
  BY <1>1 DEF OneInv
<1>5. NoneInv /\ TextInv
  BY DEF Surrogate!Init, NoneInv, TextInv
<1> QED BY <1>2, <1>3, <1>4, <1>5 DEF SurrogateInv

\* What the list answers.
LEMMA FoundIs ==
    ASSUME SurrogateTypeOK, OneInv, NEW k \in Kinds
    PROVE  /\ Surrogate!Found(k) \in Nat
           /\ Surrogate!Found(k) = 0 => NoSuch(k)
           /\ Surrogate!Found(k) # 0 => OfKind(Surrogate!Found(k), k)
<1> DEFINE matching == {i \in DOMAIN cloud : Surrogate!Matches(i, k)}
<1>1. DOMAIN cloud = 1 .. Len(cloud) /\ Len(cloud) \in Nat
  BY LenProperties DEF SurrogateTypeOK
<1>2. CASE matching = {}
  BY <1>2 DEF Surrogate!Found, Surrogate!Matches, NoSuch
<1>3. CASE matching # {}
  <2>1. PICK i \in matching : TRUE
    BY <1>3
  <2>2. \A j \in matching : i <= j
    BY <1>1 DEF OneInv, Surrogate!Matches
  <2>3. Surrogate!Found(k) = CHOOSE m \in matching : \A j \in matching : m <= j
    BY <1>3 DEF Surrogate!Found
  <2>4. Surrogate!Found(k) \in matching
    BY <2>1, <2>2, <2>3
  <2> QED BY <1>1, <2>4 DEF OfKind, Surrogate!Matches
<1> QED BY <1>2, <1>3

\* A caller goes on: if it keeps what its new place asks for, all is kept.
LEMMA GoesTo ==
    ASSUME SurrogateInv, NEW c \in Callers, NEW place \in Places, NEW x \in Nat,
           pc' = [pc EXCEPT ![c] = place], sid' = [sid EXCEPT ![c] = x],
           UNCHANGED <<cloud, look, mixed>>,
           job' \in [Callers -> {"send", "ensure"}], again' \in [Callers -> BOOLEAN],
           cache' \in [Kinds -> Nat],
           \A k \in Kinds : cache'[k] \in {0, cache[k]} \/ OfKind(cache'[k], k),
           lock' \in [Kinds -> Callers \cup {NoCaller}],
           \A k \in Kinds, d \in Callers \ {c} : lock[k] = d => lock'[k] = d,
           place \notin Unlocked => lock'[Kind[c]] = c,
           stray' \in SUBSET (Callers \X Nat),
           \A s \in stray' : s \in stray \/ OfKind(s[2], Kind[s[1]]),
           place \in InHand \/ (place = "listed" /\ x # 0) => OfKind(x, Kind[c]),
           place = "create" \/ (place = "listed" /\ x = 0) => NoSuch(Kind[c]),
           place # "updated",
           place = "run" => pc[c] = "updated" /\ x = sid[c]
    PROVE  SurrogateInv'
<1> USE DEF SurrogateInv
<1>1. SurrogateTypeOK'
  BY DEF SurrogateTypeOK
<1>2. /\ pc'[c] = place /\ sid'[c] = x
      /\ \A d \in Callers \ {c} : pc'[d] = pc[d] /\ sid'[d] = sid[d]
  BY DEF SurrogateTypeOK
<1>3. HolderInv'
  BY <1>2, KindFacts DEF HolderInv
<1>4. CachedInv' /\ StrayInv'
  BY DEF CachedInv, StrayInv, OfKind
<1>5. InHandInv'
  BY <1>2 DEF InHandInv, OfKind
<1>6. OneInv' /\ NoneInv'
  BY <1>2 DEF OneInv, NoneInv, NoSuch
<1>7. TextInv'
  BY <1>2 DEF TextInv
<1> QED BY <1>1, <1>3, <1>4, <1>5, <1>6, <1>7

\* The end of a call gives back the caller's lock, and no other.
LEMMA LeaveIs ==
    ASSUME SurrogateInv, NEW c \in Callers, Surrogate!Leave(c)
    PROVE  /\ pc' = [pc EXCEPT ![c] = "idle"] /\ again' \in [Callers -> BOOLEAN]
           /\ lock' \in [Kinds -> Callers \cup {NoCaller}]
           /\ \A k \in Kinds, d \in Callers \ {c} : lock[k] = d => lock'[k] = d
BY DEF Surrogate!Leave, Surrogate!Goto, SurrogateInv, SurrogateTypeOK, Kinds

\* A caller goes on and nothing else changes.
LEMMA Moves ==
    ASSUME SurrogateInv, NEW c \in Callers, NEW place \in Places,
           pc' = [pc EXCEPT ![c] = place],
           UNCHANGED <<cloud, cache, lock, sid, look, stray, mixed>>,
           job' \in [Callers -> {"send", "ensure"}], again' \in [Callers -> BOOLEAN],
           place \notin Unlocked => pc[c] \notin Unlocked,
           place \in InHand => pc[c] \in InHand,
           place = "create" => NoSuch(Kind[c]),
           place \notin {"listed", "updated"}, place = "run" => pc[c] = "updated"
    PROVE  SurrogateInv'
<1>1. SurrogateTypeOK'
  BY DEF SurrogateInv, SurrogateTypeOK
<1>2. pc'[c] = place /\ \A d \in Callers \ {c} : pc'[d] = pc[d]
  BY DEF SurrogateInv, SurrogateTypeOK
<1>3. HolderInv' /\ CachedInv' /\ InHandInv' /\ StrayInv'
  BY <1>2 DEF SurrogateInv, HolderInv, CachedInv, InHandInv, StrayInv, OfKind
<1>4. OneInv' /\ NoneInv' /\ TextInv'
  BY <1>2 DEF SurrogateInv, OneInv, NoneInv, TextInv, NoSuch
<1> QED BY <1>1, <1>3, <1>4 DEF SurrogateInv

LEMMA CallSteps ==
    ASSUME SurrogateInv, NEW c \in Callers,
           \/ Surrogate!Call(c) \/ Surrogate!Acquire(c) \/ Surrogate!Updated(c)
           \/ Surrogate!Gone(c) \/ Surrogate!ServeRun(c) \/ Surrogate!Ran(c)
           \/ Surrogate!Fails(c)
    PROVE  SurrogateInv'
<1> USE DEF SurrogateInv, SurrogateTypeOK, Surrogate!Goto, Places, InHand, Unlocked
<1>0. Kind[c] \in Kinds /\ sid[c] \in Nat /\ sid = [sid EXCEPT ![c] = sid[c]]
  BY KindFacts
<1>1. CASE Surrogate!Call(c)
  <2>1. job' \in [Callers -> {"send", "ensure"}]
    BY <1>1 DEF Surrogate!Call
  <2>2. /\ pc[c] = "idle" /\ pc' = [pc EXCEPT ![c] = "wait"]
        /\ UNCHANGED <<cloud, cache, lock, sid, again, look, stray, mixed>>
    BY <1>1 DEF Surrogate!Call
  <2>3. again' \in [Callers -> BOOLEAN]
    BY <2>2
  <2>4. "wait" \in Places /\ "wait" \notin InHand /\ "wait" \in Unlocked
    OBVIOUS
  <2> HIDE DEF SurrogateInv, SurrogateTypeOK, Places, InHand, Unlocked
  <2> QED BY <2>1, <2>2, <2>3, <2>4, Moves
<1>2. CASE Surrogate!Acquire(c)
  <2> DEFINE id == cache[Kind[c]]
  <2>0. id \in Nat /\ UNCHANGED <<cloud, cache, job, look, stray, mixed>>
    BY <1>0, <1>2 DEF Surrogate!Acquire
  <2>1. CASE Surrogate!Leave(c) /\ UNCHANGED sid
    BY <1>0, <2>0, <2>1, LeaveIs, GoesTo
  <2>2. CASE /\ lock' = [lock EXCEPT ![Kind[c]] = c]
             /\ IF id # 0 THEN Surrogate!Goto(c, "update") /\ sid' = [sid EXCEPT ![c] = id]
                ELSE Surrogate!Goto(c, "list") /\ UNCHANGED sid
             /\ UNCHANGED again
    <3>1. /\ lock' \in [Kinds -> Callers \cup {NoCaller}]
          /\ lock'[Kind[c]] = c
          /\ \A k \in Kinds, d \in Callers \ {c} : lock[k] = d => lock'[k] = d
      BY <1>0, <1>2, <2>2, NameAssumption DEF Surrogate!Acquire
    <3>2. CASE id # 0
      BY <1>0, <2>0, <2>2, <3>1, <3>2, GoesTo DEF CachedInv
    <3>3. CASE id = 0
      <4>1. pc' = [pc EXCEPT ![c] = "list"] /\ sid' = [sid EXCEPT ![c] = sid[c]]
            /\ again' = again
        BY <1>0, <2>2, <3>3
      <4> QED BY <1>0, <2>0, <3>1, <4>1, GoesTo
    <3> QED BY <3>2, <3>3
  <2> QED BY <1>2, <2>1, <2>2 DEF Surrogate!Acquire
<1>3. CASE Surrogate!Updated(c)
  <2>1. /\ pc[c] = "updated" /\ pc' = [pc EXCEPT ![c] = "run"]
        /\ UNCHANGED <<cloud, cache, lock, job, sid, again, look, stray, mixed>>
    BY <1>3 DEF Surrogate!Updated, Surrogate!KeepsLock
  <2>2. /\ "run" \in Places /\ pc[c] \in InHand /\ pc[c] \notin Unlocked
        /\ "run" \notin {"listed", "updated", "create"}
        /\ job' \in [Callers -> {"send", "ensure"}] /\ again' \in [Callers -> BOOLEAN]
    BY <2>1
  <2> HIDE DEF SurrogateInv, SurrogateTypeOK, Places, InHand, Unlocked
  <2> QED BY <2>1, <2>2, Moves
<1>4. CASE Surrogate!Gone(c)
  <2>1. UNCHANGED <<cloud, job, sid, look, stray, mixed>>
    BY <1>4 DEF Surrogate!Gone
  <2>2. CASE Surrogate!Leave(c) /\ UNCHANGED cache
    BY <1>0, <2>1, <2>2, LeaveIs, GoesTo
  <2>3. CASE /\ cache' = [cache EXCEPT ![Kind[c]] = 0]
             /\ again' = [again EXCEPT ![c] = TRUE]
             /\ Surrogate!Goto(c, "list")
             /\ UNCHANGED lock
    <3>1. /\ cache' \in [Kinds -> Nat] /\ \A k \in Kinds : cache'[k] \in {0, cache[k]}
          /\ again' \in [Callers -> BOOLEAN]
      BY <1>0, <2>3
    <3>2. lock[Kind[c]] = c
      BY <1>4 DEF Surrogate!Gone, HolderInv
    <3> QED BY <1>0, <2>1, <2>3, <3>1, <3>2, GoesTo
  <2> QED BY <1>4, <2>2, <2>3 DEF Surrogate!Gone
<1>5. CASE Surrogate!ServeRun(c)
  BY <1>5, Moves DEF Surrogate!ServeRun
<1>6. CASE Surrogate!Ran(c)
  BY <1>0, <1>6, LeaveIs, GoesTo DEF Surrogate!Ran
<1>7. CASE Surrogate!Fails(c)
  <2>1. stray' \in {stray, {<<c, sid[c]>>}}
    BY <1>7 DEF Surrogate!Fails
  <2>2. stray' # stray => pc[c] = "update"
    BY <1>7 DEF Surrogate!Fails
  <2>3. stray' \in SUBSET (Callers \X Nat)
    BY <1>0, <2>1
  <2>4. \A s \in stray' : s \in stray \/ OfKind(s[2], Kind[s[1]])
    BY <2>1, <2>2 DEF InHandInv
  <2>5. /\ pc' = [pc EXCEPT ![c] = "idle"] /\ again' \in [Callers -> BOOLEAN]
        /\ lock' \in [Kinds -> Callers \cup {NoCaller}]
        /\ \A k \in Kinds, d \in Callers \ {c} : lock[k] = d => lock'[k] = d
    BY <1>7, LeaveIs DEF Surrogate!Fails
  <2>6. UNCHANGED <<cloud, cache, job, sid, look, mixed>>
    BY <1>7 DEF Surrogate!Fails
  <2> QED BY <1>0, <2>3, <2>4, <2>5, <2>6, GoesTo
<1> QED BY <1>1, <1>2, <1>3, <1>4, <1>5, <1>6, <1>7

\* With the id at hand, of the caller's kind.
LEMMA ReadyStep ==
    ASSUME SurrogateInv, NEW c \in Callers, NEW id \in Nat, OfKind(id, Kind[c]),
           pc[c] \notin Unlocked, Surrogate!Ready(c, id),
           cache' = [cache EXCEPT ![Kind[c]] = id],
           UNCHANGED <<cloud, job, look, stray, mixed>>
    PROVE  SurrogateInv'
<1> USE DEF SurrogateInv, SurrogateTypeOK, Surrogate!Goto, Places, InHand, Unlocked
<1>1. Kind[c] \in Kinds /\ lock[Kind[c]] = c
  BY KindFacts DEF HolderInv
<1>2. /\ sid' = [sid EXCEPT ![c] = id] /\ cache' \in [Kinds -> Nat]
      /\ \A k \in Kinds : cache'[k] = cache[k] \/ OfKind(cache'[k], k)
  BY <1>1 DEF Surrogate!Ready
<1>3. CASE Surrogate!Goto(c, "update") /\ UNCHANGED <<lock, again>>
  BY <1>1, <1>2, <1>3, GoesTo
<1>4. CASE Surrogate!Leave(c)
  BY <1>1, <1>2, <1>4, LeaveIs, GoesTo
<1> QED BY <1>3, <1>4 DEF Surrogate!Ready

LEMMA FindSteps ==
    ASSUME SurrogateInv, NEW c \in Callers,
           Surrogate!ServeList(c) \/ Surrogate!Listed(c) \/ Surrogate!Created(c)
    PROVE  SurrogateInv'
<1> USE DEF SurrogateInv, SurrogateTypeOK, Surrogate!Goto, Places, InHand, Unlocked
<1>0. Kind[c] \in Kinds /\ sid[c] \in Nat /\ sid = [sid EXCEPT ![c] = sid[c]]
  BY KindFacts
<1>1. CASE Surrogate!ServeList(c)
  <2>1. /\ Surrogate!Found(Kind[c]) \in Nat
        /\ Surrogate!Found(Kind[c]) = 0 => NoSuch(Kind[c])
        /\ Surrogate!Found(Kind[c]) # 0 => OfKind(Surrogate!Found(Kind[c]), Kind[c])
    BY <1>0, FoundIs
  <2> QED BY <1>1, <2>1, GoesTo DEF Surrogate!ServeList, HolderInv
<1>2. CASE Surrogate!Listed(c)
  <2>1. CASE sid[c] = 0
    <3>1. /\ pc[c] = "listed" /\ pc' = [pc EXCEPT ![c] = "create"] /\ NoSuch(Kind[c])
          /\ UNCHANGED <<cloud, cache, lock, job, sid, again, look, stray, mixed>>
      BY <1>2, <2>1 DEF Surrogate!Listed, NoneInv
    <3>2. /\ "create" \in Places /\ pc[c] \notin Unlocked
          /\ "create" \notin InHand /\ "create" \notin {"listed", "updated", "run"}
          /\ job' \in [Callers -> {"send", "ensure"}] /\ again' \in [Callers -> BOOLEAN]
      BY <3>1
    <3> HIDE DEF SurrogateInv, SurrogateTypeOK, Places, InHand, Unlocked
    <3> QED BY <3>1, <3>2, Moves
  <2>2. CASE sid[c] # 0
    BY <1>0, <1>2, <2>2, ReadyStep DEF Surrogate!Listed, InHandInv
  <2> QED BY <2>1, <2>2
<1>3. CASE Surrogate!Created(c)
  BY <1>0, <1>3, ReadyStep DEF Surrogate!Created, InHandInv
<1> QED BY <1>1, <1>2, <1>3

\* A scenario is edited or deleted: it stays of its kind, or is gone.
LEMMA CloudReplaced ==
    ASSUME SurrogateInv, NEW i \in DOMAIN cloud, NEW e \in Surrogates,
           e = Surrogate!Deleted \/ (cloud[i] # Surrogate!Deleted /\ e.kind = cloud[i].kind),
           cloud' = [cloud EXCEPT ![i] = e]
    PROVE  /\ cloud' \in Seq(Surrogates) /\ DOMAIN cloud' = DOMAIN cloud
           /\ \A j \in DOMAIN cloud : cloud'[j] = IF j = i THEN e ELSE cloud[j]
           /\ OneInv'
           /\ \A j \in Nat, k \in Kinds : OfKind(j, k) => OfKind(j, k)'
           /\ \A k \in Kinds : NoSuch(k) => NoSuch(k)'
<1>1. DOMAIN cloud = 1 .. Len(cloud) /\ cloud \in Seq(Surrogates)
  BY LenProperties DEF SurrogateInv, SurrogateTypeOK
<1>2. /\ cloud' \in Seq(Surrogates) /\ Len(cloud') = Len(cloud)
      /\ \A j \in 1 .. Len(cloud) : cloud'[j] = IF j = i THEN e ELSE cloud[j]
  BY <1>1, ExceptSeq
<1>3. DOMAIN cloud' = DOMAIN cloud
  BY <1>1, <1>2, LenProperties
<1>4. \A j \in DOMAIN cloud : cloud'[j] = IF j = i THEN e ELSE cloud[j]
  BY <1>1, <1>2
<1>5. OneInv'
  BY <1>3, <1>4, DeletedFacts DEF SurrogateInv, OneInv
<1>6. \A j \in Nat, k \in Kinds : OfKind(j, k) => OfKind(j, k)'
  BY <1>3, <1>4 DEF OfKind
<1>7. \A k \in Kinds : NoSuch(k) => NoSuch(k)'
  BY <1>3, <1>4, DeletedFacts DEF NoSuch
<1> QED BY <1>2, <1>3, <1>4, <1>5, <1>6, <1>7

\* Such a step, while no caller moves.
LEMMA CloudChanges ==
    ASSUME SurrogateInv, NEW i \in DOMAIN cloud, NEW e \in Surrogates,
           e = Surrogate!Deleted \/ (cloud[i] # Surrogate!Deleted /\ e.kind = cloud[i].kind),
           cloud' = [cloud EXCEPT ![i] = e],
           UNCHANGED <<cache, lock, pc, job, sid, again, look>>,
           stray' \subseteq stray, mixed' \in BOOLEAN,
           (e = Surrogate!Deleted /\ mixed' = mixed) \/ mixed'
    PROVE  SurrogateInv'
<1> USE DEF SurrogateInv
<1>1. /\ cloud' \in Seq(Surrogates) /\ DOMAIN cloud' = DOMAIN cloud
      /\ \A j \in DOMAIN cloud : cloud'[j] = IF j = i THEN e ELSE cloud[j]
      /\ OneInv'
      /\ \A j \in Nat, k \in Kinds : OfKind(j, k) => OfKind(j, k)'
      /\ \A k \in Kinds : NoSuch(k) => NoSuch(k)'
  BY CloudReplaced
<1>2. SurrogateTypeOK' /\ HolderInv'
  BY <1>1 DEF SurrogateTypeOK, HolderInv
<1>3. CachedInv' /\ InHandInv' /\ StrayInv' /\ NoneInv'
  <2>1. CachedInv'
    <3> SUFFICES ASSUME NEW k \in Kinds
                 PROVE  /\ cache[k] # 0 => OfKind(cache[k], k)'
                        /\ look[k] > 0 => OfKind(look[k], k)'
      BY DEF CachedInv
    <3>1. cache[k] \in Nat /\ (look[k] > 0 => look[k] \in Nat)
      BY DEF SurrogateTypeOK
    <3>2. /\ cache[k] # 0 => OfKind(cache[k], k)
          /\ look[k] > 0 => OfKind(look[k], k)
      BY DEF CachedInv
    <3> QED BY <1>1, <3>1, <3>2
  <2>2. InHandInv' /\ NoneInv'
    BY <1>1, KindFacts DEF InHandInv, NoneInv, SurrogateTypeOK
  <2>3. StrayInv'
    <3> SUFFICES ASSUME NEW s \in stray' PROVE OfKind(s[2], Kind[s[1]])'
      BY DEF StrayInv
    <3>1. s[1] \in Callers /\ s[2] \in Nat /\ OfKind(s[2], Kind[s[1]])
      BY DEF SurrogateTypeOK, StrayInv
    <3> QED BY <1>1, <3>1, KindFacts
  <2> QED BY <2>1, <2>2, <2>3
<1>4. TextInv'
  <2>1. CASE mixed'
    BY <2>1 DEF TextInv
  <2>2. CASE e = Surrogate!Deleted /\ mixed' = mixed
    <3> SUFFICES ASSUME ~mixed, NEW c \in Callers, pc[c] \in {"updated", "run"},
                        cloud'[sid[c]] # Surrogate!Deleted
                 PROVE  cloud'[sid[c]] = [kind |-> Kind[c], text |-> c]
      BY <2>2 DEF TextInv
    <3>1. sid[c] \in DOMAIN cloud
      BY DEF InHandInv, InHand, OfKind
    <3>2. cloud'[sid[c]] = cloud[sid[c]]
      BY <1>1, <2>2, <3>1
    <3> QED BY <3>2 DEF TextInv
  <2> QED BY <2>1, <2>2
<1> QED BY <1>1, <1>2, <1>3, <1>4

LEMMA NewText ==
    ASSUME NEW r \in Surrogates, NEW c \in Callers
    PROVE  /\ [r EXCEPT !.text = c] \in Surrogates
           /\ [r EXCEPT !.text = c] = [kind |-> r.kind, text |-> c]
BY DEF Surrogates

LEMMA CloudSteps ==
    ASSUME SurrogateInv, Surrogate!LateUpdate \/ Surrogate!UserDeletes
    PROVE  SurrogateInv'
<1> USE DEF SurrogateInv
<1>0. \A i \in DOMAIN cloud : cloud[i] \in Surrogates
  BY LenProperties, ElementOfSeq DEF SurrogateTypeOK
<1>1. CASE Surrogate!UserDeletes
  <2>1. PICK i \in DOMAIN cloud : cloud' = [cloud EXCEPT ![i] = Surrogate!Deleted]
    BY <1>1 DEF Surrogate!UserDeletes
  <2>2. UNCHANGED <<cache, lock, pc, job, sid, again, look, stray, mixed>>
    BY <1>1 DEF Surrogate!UserDeletes
  <2> QED BY <2>1, <2>2, CloudChanges, DeletedFacts DEF SurrogateTypeOK
<1>2. CASE Surrogate!LateUpdate
  <2>1. PICK s \in stray :
            /\ stray' = stray \ {s}
            /\ cloud' = IF cloud[s[2]] = Surrogate!Deleted THEN cloud
                        ELSE [cloud EXCEPT ![s[2]].text = s[1]]
    BY <1>2 DEF Surrogate!LateUpdate
  <2>2. mixed' = TRUE /\ UNCHANGED <<cache, lock, pc, job, sid, again, look>>
    BY <1>2 DEF Surrogate!LateUpdate
  <2>3. s[1] \in Callers /\ s[2] \in DOMAIN cloud
    BY DEF SurrogateTypeOK, StrayInv, OfKind
  <2>4. CASE cloud[s[2]] = Surrogate!Deleted
    BY <2>1, <2>2, <2>4 DEF SurrogateTypeOK, HolderInv, CachedInv, InHandInv, StrayInv, OneInv,
                            NoneInv, TextInv, OfKind, NoSuch
  <2>5. CASE cloud[s[2]] # Surrogate!Deleted
    <3> DEFINE r == cloud[s[2]]
               e == [r EXCEPT !.text = s[1]]
    <3>1. r \in Surrogates
      BY <1>0, <2>3
    <3>2. cloud' = [cloud EXCEPT ![s[2]] = e]
      BY <2>1, <2>5, Zenon
    <3> HIDE DEF r
    <3>3. e \in Surrogates /\ e = [kind |-> r.kind, text |-> s[1]]
      BY <2>3, <3>1, NewText
    <3>4. e.kind = r.kind
      BY <3>3
    <3> HIDE DEF e
    <3> QED BY <2>1, <2>2, <2>3, <2>5, <3>2, <3>3, <3>4, CloudChanges DEF r
  <2> QED BY <2>4, <2>5
<1> QED BY <1>1, <1>2

LEMMA LookSteps ==
    ASSUME SurrogateInv, NEW k \in Kinds,
           \/ Surrogate!Look(k) \/ Surrogate!ServeLook(k)
           \/ Surrogate!Looked(k) \/ Surrogate!LookFails(k)
    PROVE  SurrogateInv'
<1> USE DEF SurrogateInv
<1>1. /\ UNCHANGED <<cloud, lock, pc, job, sid, again, stray, mixed>>
      /\ cache' \in [Kinds -> Nat] /\ look' \in [Kinds -> Int]
      /\ \A q \in Kinds : /\ cache'[q] # 0 => OfKind(cache'[q], q)
                          /\ look'[q] > 0 => OfKind(look'[q], q)
  <2> USE DEF SurrogateTypeOK, CachedInv, Surrogate!NotAsked, Surrogate!Asked
  <2>1. CASE Surrogate!Look(k) \/ Surrogate!LookFails(k)
    <3>1. look' \in [Kinds -> Int] /\ \A q \in Kinds : look'[q] > 0 => look'[q] = look[q]
      BY <2>1 DEF Surrogate!Look, Surrogate!LookFails
    <3>2. UNCHANGED <<cloud, cache, lock, pc, job, sid, again, stray, mixed>>
      BY <2>1 DEF Surrogate!Look, Surrogate!LookFails
    <3> QED BY <3>1, <3>2
  <2>2. CASE Surrogate!ServeLook(k)
    BY <2>2, FoundIs DEF Surrogate!ServeLook
  <2>3. CASE Surrogate!Looked(k)
    BY <2>3 DEF Surrogate!Looked
  <2> QED BY <2>1, <2>2, <2>3
<1>2. SurrogateTypeOK' /\ CachedInv'
  BY <1>1 DEF SurrogateTypeOK, CachedInv, OfKind
<1>3. HolderInv' /\ InHandInv' /\ StrayInv' /\ OneInv' /\ NoneInv' /\ TextInv'
  BY <1>1 DEF HolderInv, InHandInv, StrayInv, OneInv, NoneInv, TextInv, OfKind, NoSuch
<1> QED BY <1>2, <1>3

LEMMA ServeSurrogateUpdate ==
    ASSUME SurrogateInv, NEW c \in Callers, Surrogate!ServeUpdate(c)
    PROVE  SurrogateInv'
<1> USE DEF SurrogateInv
<1>1. /\ pc[c] = "update" /\ UNCHANGED <<cache, lock, job, sid, again, look, stray, mixed>>
      /\ OfKind(sid[c], Kind[c])
  BY DEF Surrogate!ServeUpdate, InHandInv, InHand
<1>2. CASE Surrogate!Goto(c, "gone") /\ UNCHANGED cloud
  <2>1. /\ pc' = [pc EXCEPT ![c] = "gone"] /\ "gone" \in Places
        /\ "gone" \notin Unlocked /\ "gone" \notin InHand /\ "gone" \notin {"listed", "updated"}
        /\ pc[c] \notin Unlocked
    BY <1>1, <1>2 DEF Surrogate!Goto, Places, InHand, Unlocked
  <2>2. /\ UNCHANGED <<cloud, cache, lock, sid, look, stray, mixed>>
        /\ job' \in [Callers -> {"send", "ensure"}] /\ again' \in [Callers -> BOOLEAN]
    BY <1>1, <1>2 DEF SurrogateTypeOK
  <2> QED BY <2>1, <2>2, Moves
<1>3. CASE /\ cloud[sid[c]] # Surrogate!Deleted
           /\ cloud' = [cloud EXCEPT ![sid[c]].text = c]
           /\ Surrogate!Goto(c, "updated")
  <2> DEFINE i == sid[c]
             r == cloud[i]
             e == [r EXCEPT !.text = c]
  <2>1. i \in DOMAIN cloud /\ r \in Surrogates /\ r.kind = Kind[c]
    BY <1>1, <1>3, LenProperties, ElementOfSeq DEF OfKind, SurrogateTypeOK
  <2>2. cloud' = [cloud EXCEPT ![i] = e]
    BY <1>3, Zenon
  <2> HIDE DEF r
  <2>3. e \in Surrogates /\ e = [kind |-> Kind[c], text |-> c] /\ e.kind = r.kind
    BY <2>1, NewText
  <2> HIDE DEF e
  <2>4. /\ cloud' \in Seq(Surrogates) /\ DOMAIN cloud' = DOMAIN cloud
        /\ \A j \in DOMAIN cloud : cloud'[j] = IF j = i THEN e ELSE cloud[j]
        /\ OneInv'
        /\ \A j \in Nat, k \in Kinds : OfKind(j, k) => OfKind(j, k)'
        /\ \A k \in Kinds : NoSuch(k) => NoSuch(k)'
    BY <1>3, <2>1, <2>2, <2>3, CloudReplaced DEF r
  <2>5. /\ pc'[c] = "updated" /\ \A d \in Callers \ {c} : pc'[d] = pc[d]
        /\ pc' \in [Callers -> Places]
    BY <1>3 DEF Surrogate!Goto, SurrogateTypeOK, Places, InHand
  <2>6. SurrogateTypeOK' /\ HolderInv'
    BY <1>1, <2>4, <2>5 DEF SurrogateTypeOK, HolderInv, Unlocked
  <2>7. CachedInv' /\ NoneInv'
    BY <1>1, <2>4, <2>5, KindFacts DEF CachedInv, NoneInv, SurrogateTypeOK
  <2>8. InHandInv'
    BY <1>1, <2>4, <2>5, KindFacts DEF InHandInv, SurrogateTypeOK
  <2>9. StrayInv'
    <3> SUFFICES ASSUME NEW s \in stray PROVE OfKind(s[2], Kind[s[1]])'
      BY <1>1 DEF StrayInv
    <3>1. s[1] \in Callers /\ s[2] \in Nat /\ OfKind(s[2], Kind[s[1]])
      BY DEF SurrogateTypeOK, StrayInv
    <3> QED BY <2>4, <3>1, KindFacts
  <2>10. TextInv'
    <3> SUFFICES ASSUME ~mixed, NEW d \in Callers, pc'[d] \in {"updated", "run"},
                        cloud'[sid[d]] # Surrogate!Deleted
                 PROVE  cloud'[sid[d]] = [kind |-> Kind[d], text |-> d]
      BY <1>1 DEF TextInv
    <3>1. CASE d = c
      BY <2>1, <2>3, <2>4, <3>1
    <3>2. CASE d # c
      <4>1. pc[d] \in {"updated", "run"} /\ OfKind(sid[d], Kind[d])
        BY <2>5, <3>2 DEF InHandInv, InHand
      <4>2. lock[Kind[d]] = d /\ lock[Kind[c]] = c
        BY <1>1, <4>1 DEF HolderInv, Unlocked
      <4>3. CASE sid[d] = i
        BY <2>1, <3>2, <4>1, <4>2, <4>3, <1>3 DEF OfKind, r
      <4>4. CASE sid[d] # i
        BY <2>4, <4>1, <4>4 DEF TextInv, OfKind
      <4> QED BY <4>3, <4>4
    <3> QED BY <3>1, <3>2
  <2> QED BY <2>4, <2>6, <2>7, <2>8, <2>9, <2>10
<1> QED BY <1>2, <1>3 DEF Surrogate!ServeUpdate

LEMMA ServeSurrogateCreate ==
    ASSUME SurrogateInv, NEW c \in Callers, Surrogate!ServeCreate(c)
    PROVE  SurrogateInv'
<1> USE DEF SurrogateInv
<1> DEFINE e == [kind |-> Kind[c], text |-> Blank]
           n == Len(cloud)
<1>1. /\ pc[c] = "create" /\ cloud' = Append(cloud, e)
      /\ sid' = [sid EXCEPT ![c] = n + 1] /\ pc' = [pc EXCEPT ![c] = "created"]
      /\ UNCHANGED <<cache, lock, job, again, look, stray, mixed>>
  BY DEF Surrogate!ServeCreate, Surrogate!Goto
<1>2. Kind[c] \in Kinds /\ e \in Surrogates /\ e.kind = Kind[c]
  BY KindFacts DEF Surrogates
<1> HIDE DEF e
<1>3. DOMAIN cloud = 1 .. n /\ n \in Nat /\ cloud \in Seq(Surrogates)
  BY LenProperties DEF SurrogateTypeOK
<1>4. /\ cloud' \in Seq(Surrogates) /\ DOMAIN cloud' = 1 .. n + 1
      /\ \A i \in 1 .. n : cloud'[i] = cloud[i]
      /\ cloud'[n + 1] = e
  BY <1>1, <1>2, <1>3, AppendProperties, LenProperties
<1> HIDE DEF n
<1>5. /\ pc'[c] = "created" /\ \A d \in Callers \ {c} : pc'[d] = pc[d]
      /\ sid'[c] = n + 1 /\ \A d \in Callers \ {c} : sid'[d] = sid[d]
      /\ pc' \in [Callers -> Places] /\ sid' \in [Callers -> Nat]
  BY <1>1, <1>3 DEF SurrogateTypeOK, Places, InHand
<1>6. NoSuch(Kind[c]) /\ lock[Kind[c]] = c
  BY <1>1 DEF NoneInv, HolderInv, Unlocked
<1>7. SurrogateTypeOK' /\ HolderInv'
  BY <1>1, <1>4, <1>5, <1>6 DEF SurrogateTypeOK, HolderInv
<1>8. \A i, k : OfKind(i, k) => OfKind(i, k)'
  BY <1>3, <1>4 DEF OfKind
<1>9. CachedInv' /\ StrayInv'
  BY <1>1, <1>8 DEF CachedInv, StrayInv
<1>10. InHandInv'
  BY <1>2, <1>3, <1>4, <1>5, <1>8 DEF InHandInv, OfKind
<1>11. OneInv'
  BY <1>2, <1>3, <1>4, <1>6 DEF OneInv, NoSuch
<1>12. NoneInv'
  <2> SUFFICES ASSUME NEW d \in Callers,
                      pc'[d] = "create" \/ (pc'[d] = "listed" /\ sid'[d] = 0)
               PROVE  NoSuch(Kind[d])'
    BY DEF NoneInv
  <2>1. d # c /\ NoSuch(Kind[d]) /\ pc[d] \notin Unlocked
    BY <1>5 DEF NoneInv, Unlocked
  <2>2. Kind[d] # Kind[c]
    BY <1>6, <2>1 DEF HolderInv
  <2> QED BY <1>2, <1>3, <1>4, <2>1, <2>2 DEF NoSuch
<1>13. TextInv'
  BY <1>1, <1>3, <1>4, <1>5 DEF TextInv, InHandInv, InHand, OfKind
<1> QED BY <1>7, <1>9, <1>10, <1>11, <1>12, <1>13

LEMMA SurrogateNext == SurrogateInv /\ Surrogate!Next => SurrogateInv'
BY CallSteps, FindSteps, CloudSteps, LookSteps, ServeSurrogateUpdate, ServeSurrogateCreate
   DEF Surrogate!Next, Kinds

-----------------------------------------------------------------------------
(***************************************************************************)
(* Presses of a button                                                     *)
(***************************************************************************)

\* A press, or the sign for none, which alone has the number 0.
PressAt ==
    {p \in [type : Presses!Types \cup {"none"}, id : 0..MaxPresses] :
        p.id = 0 <=> p.type = "none"}

FiredAt == [id : 1..MaxPresses, born : 0..MaxPresses]

PressesTypeOK ==
    /\ stamped \in BOOLEAN /\ due \in BOOLEAN
    /\ entity \in {"none", "live"}
    /\ server \in PressAt /\ image \in PressAt
    /\ born \in 0..MaxPresses
    /\ fired \in Seq(FiredAt)

\* The copy is the press at Sber or an older one.
ImageInv == image.id <= server.id /\ (image.id = server.id => image = server)

\* The last press that became an event is the one in the copy, which then was seen, or an
\* older one.
FiredInv ==
    Len(fired) > 0 =>
        /\ fired[Len(fired)].id <= image.id
        /\ fired[Len(fired)].id = image.id => lastSeen = Presses!Mark(image)

\* The entity has seen the press it was born with, and the one in the copy unless it is
\* about to be told of it.
BornInv ==
    entity = "live" =>
        /\ born <= image.id
        /\ image.id = born => lastSeen = Presses!Mark(image)
        /\ ~due => lastSeen = Presses!Mark(image)

\* Of a device that tells the time no mark is from a later press, and the press an
\* entity has seen and was not born with became an event.
SeenInv ==
    stamped =>
        /\ \A m \in lastSeen : m[2] \in 0..image.id
        /\ /\ entity = "live" /\ lastSeen = Presses!Mark(image) /\ born < image.id
           /\ image.type \in Presses!EventTypes
           => Len(fired) > 0 /\ fired[Len(fired)].id = image.id

PressesInv ==
    PressesTypeOK /\ Presses!FiresOnce /\ ImageInv /\ FiredInv /\ BornInv /\ SeenInv

LEMMA PressesSound ==
    PressesInv => Presses!TypeOK /\ Presses!FiresOnce /\ Presses!MissesNone
<1> SUFFICES ASSUME PressesInv PROVE Presses!TypeOK /\ Presses!MissesNone
  BY DEF PressesInv
<1>1. Presses!TypeOK
  BY DEF PressesInv, PressesTypeOK, ImageInv, FiredAt, Presses!TypeOK
<1>2. Presses!MissesNone
  BY DEF PressesInv, PressesTypeOK, PressAt, BornInv, SeenInv, Presses!MissesNone
<1> QED BY <1>1, <1>2

LEMMA NoPressIs == Presses!NoPress \in PressAt /\ Presses!NoPress.id = 0
BY BoundAssumption DEF PressAt, Presses!NoPress

LEMMA MarkIs ==
    ASSUME NEW p \in PressAt
    PROVE  /\ Presses!Mark(p) = {} <=> p.id = 0
           /\ stamped => \A m \in Presses!Mark(p) : m[2] = p.id
<1>1. p.id = 0 <=> p = Presses!NoPress
  BY DEF PressAt, Presses!NoPress
<1>2. CASE p.id = 0
  BY <1>1, <1>2 DEF Presses!Mark
<1>3. CASE p.id # 0
  <2>1. Presses!Mark(p) = {<<p.type, IF stamped THEN p.id ELSE 0>>}
    BY <1>1, <1>3 DEF Presses!Mark
  <2>2. stamped => Presses!Mark(p) = {<<p.type, p.id>>}
    BY <2>1
  <2>3. stamped => \A m \in Presses!Mark(p) : m[2] = p.id
    BY <2>2
  <2>4. Presses!Mark(p) # {}
    BY <2>1
  <2> QED BY <1>3, <2>3, <2>4
<1> QED BY <1>2, <1>3

LEMMA LastFired ==
    ASSUME PressesTypeOK
    PROVE  Len(fired) \in Nat /\ (Len(fired) > 0 => fired[Len(fired)].id \in Nat)
<1>1. Len(fired) \in Nat
  BY DEF PressesTypeOK
<1>2. ASSUME Len(fired) > 0 PROVE fired[Len(fired)].id \in Nat
  <2>1. fired[Len(fired)] \in FiredAt
    BY <1>1, <1>2, ElementOfSeq DEF PressesTypeOK
  <2> QED BY <2>1, BoundAssumption DEF FiredAt
<1> QED BY <1>1, <1>2

LEMMA PressesInit == Presses!Init => PressesInv
<1> SUFFICES ASSUME Presses!Init PROVE PressesInv
  OBVIOUS
<1> USE DEF Presses!Init
<1>1. server \in PressAt
  BY NoPressIs, BoundAssumption DEF PressAt, Presses!Types
<1>2. PressesTypeOK
  <2>1. <<>> \in Seq(FiredAt) /\ 0 \in 0..MaxPresses
    BY BoundAssumption
  <2> QED BY <1>1, <2>1 DEF PressesTypeOK
<1>3. ImageInv /\ FiredInv /\ BornInv /\ Presses!FiresOnce
  BY <1>1, BoundAssumption DEF ImageInv, FiredInv, BornInv, PressAt, Presses!FiresOnce
<1>4. SeenInv
  BY DEF SeenInv
<1> QED BY <1>2, <1>3, <1>4 DEF PressesInv

LEMMA PressStep == ASSUME PressesInv, Presses!Press PROVE PressesInv'
<1> USE DEF PressesInv, Presses!Press
<1>1. PICK t \in Presses!Types : server' = [type |-> t, id |-> server.id + 1]
  OBVIOUS
<1>2. server' \in PressAt /\ server'.id = server.id + 1 /\ server.id \in Nat /\ image.id \in Nat
  BY <1>1, BoundAssumption DEF PressesTypeOK, PressAt, Presses!Types
<1>3. PressesTypeOK' /\ ImageInv'
  BY <1>2 DEF PressesTypeOK, ImageInv
<1>4. Presses!FiresOnce' /\ FiredInv' /\ BornInv' /\ SeenInv'
  BY DEF Presses!FiresOnce, FiredInv, BornInv, SeenInv, Presses!Mark
<1> QED BY <1>3, <1>4

LEMMA RenewStep == ASSUME PressesInv, Presses!Renew PROVE PressesInv'
<1> USE DEF PressesInv, Presses!Renew
<1>1. PressesTypeOK' /\ ImageInv' /\ Presses!FiresOnce'
  BY DEF PressesTypeOK, ImageInv, Presses!FiresOnce, PressAt
<1>2. CASE image.id = server.id
  <2>1. image' = image
    BY <1>2 DEF ImageInv
  <2>2. FiredInv' /\ BornInv' /\ SeenInv'
    BY <2>1 DEF FiredInv, BornInv, SeenInv, Presses!Mark
  <2> QED BY <1>1, <2>2
<1>3. CASE image.id < server.id
  <2>1. image' = server /\ server \in PressAt /\ image.id \in Nat /\ server.id \in Nat
    BY DEF PressesTypeOK, PressAt
  <2>2. FiredInv'
    <3>1. Len(fired) > 0 => fired[Len(fired)].id \in Nat
      BY LastFired
    <3>2. fired' = fired /\ lastSeen' = lastSeen
      OBVIOUS
    <3> QED BY <1>3, <2>1, <3>1, <3>2 DEF FiredInv
  <2>3. BornInv'
    BY <1>3, <2>1, BoundAssumption DEF BornInv, PressesTypeOK
  <2>4. SeenInv'
    <3> SUFFICES ASSUME stamped PROVE SeenInv'
      BY DEF SeenInv
    <3>1. \A m \in lastSeen : m[2] \in 0..image.id
      BY DEF SeenInv
    <3>2. Presses!Mark(server) # {} /\ \A m \in Presses!Mark(server) : m[2] = server.id
      BY <1>3, <2>1, MarkIs
    <3>3. lastSeen # Presses!Mark(server)
      <4>1. PICK m \in Presses!Mark(server) : m[2] = server.id
        BY <3>2
      <4>2. m \notin lastSeen
        BY <1>3, <2>1, <3>1, <4>1
      <4> QED BY <4>1, <4>2
    <3>4. \A m \in lastSeen : m[2] \in 0..server.id
      BY <1>3, <2>1, <3>1
    <3> QED BY <2>1, <3>3, <3>4 DEF SeenInv, Presses!Mark
  <2> QED BY <1>1, <2>2, <2>3, <2>4
<1> QED BY <1>2, <1>3 DEF ImageInv, PressesTypeOK, PressAt

LEMMA CreateStep == ASSUME PressesInv, Presses!Create \/ Presses!Remove PROVE PressesInv'
<1> USE DEF PressesInv
<1>1. CASE Presses!Remove
  BY <1>1 DEF Presses!Remove, PressesTypeOK, ImageInv, FiredInv, BornInv, SeenInv,
              Presses!FiresOnce, Presses!Mark
<1>2. CASE Presses!Create
  <2> USE <1>2 DEF Presses!Create, Presses!SeenAtFirst
  <2>1. PressesTypeOK' /\ ImageInv' /\ Presses!FiresOnce'
    BY DEF PressesTypeOK, ImageInv, Presses!FiresOnce, PressAt
  <2>2. lastSeen' = Presses!Mark(image) /\ image' = image /\ stamped' = stamped /\ fired' = fired
    OBVIOUS
  <2>3. Presses!Mark(image)' = Presses!Mark(image)
    BY <2>2 DEF Presses!Mark
  <2>4. FiredInv' /\ BornInv'
    BY <2>2, <2>3 DEF FiredInv, BornInv, PressesTypeOK, PressAt
  <2>5. SeenInv'
    BY <2>2, MarkIs DEF SeenInv, PressesTypeOK, PressAt
  <2> QED BY <2>1, <2>4, <2>5
<1> QED BY <1>1, <1>2

LEMMA UpdateStep == ASSUME PressesInv, Presses!Update PROVE PressesInv'
<1> USE DEF PressesInv
<1> DEFINE News == entity = "live" /\ Presses!Mark(image) # {} /\ Presses!Mark(image) # lastSeen
           item == [id |-> image.id, born |-> born]
           n == Len(fired)
<1>1. UNCHANGED <<stamped, server, image, entity, born>> /\ ~due'
  BY DEF Presses!Update
<1>2. Presses!Mark(image)' = Presses!Mark(image)
  BY <1>1 DEF Presses!Mark
<1>3. ImageInv'
  BY <1>1 DEF ImageInv
<1>4. CASE ~News
  <2>1. UNCHANGED <<lastSeen, fired>>
    BY <1>4 DEF Presses!Update
  <2>2. entity = "live" => lastSeen = Presses!Mark(image)
    <3> SUFFICES ASSUME entity = "live", Presses!Mark(image) = {}
                 PROVE  lastSeen = Presses!Mark(image)
      BY <1>4
    <3>1. image.id = 0
      BY MarkIs DEF PressesTypeOK
    <3> QED BY <3>1 DEF BornInv, PressesTypeOK
  <2>3. PressesTypeOK' /\ Presses!FiresOnce'
    <3>1. due' \in BOOLEAN
      BY DEF Presses!Update
    <3> QED BY <1>1, <2>1, <3>1 DEF PressesTypeOK, Presses!FiresOnce
  <2>4. FiredInv' /\ BornInv' /\ SeenInv'
    BY <1>1, <1>2, <2>1, <2>2 DEF FiredInv, BornInv, SeenInv
  <2> QED BY <1>3, <2>3, <2>4
<1>5. CASE News
  <2>1. /\ lastSeen' = Presses!Mark(image)
        /\ fired' = IF image.type \in Presses!EventTypes THEN Append(fired, item) ELSE fired
    BY <1>5 DEF Presses!Update
  <2>2. /\ image.id \in 0..MaxPresses /\ image.id # 0 /\ born \in 0..MaxPresses
        /\ born < image.id /\ image \in PressAt
    BY <1>5, MarkIs, BoundAssumption DEF BornInv, PressesTypeOK, PressAt
  <2>3. n \in Nat /\ (n > 0 => fired[n].id < image.id /\ fired[n].id \in Nat)
    <3>1. n \in Nat /\ (n > 0 => fired[n].id \in Nat)
      BY LastFired
    <3> QED BY <1>5, <3>1 DEF FiredInv, PressesTypeOK, PressAt
  <2>4. item \in FiredAt /\ item.id = image.id /\ item.born = born
    BY <2>2, BoundAssumption DEF FiredAt
  <2>5. /\ \A i \in 1..n : Append(fired, item)[i] = fired[i]
        /\ Append(fired, item)[n + 1] = item /\ Len(Append(fired, item)) = n + 1
        /\ Append(fired, item) \in Seq(FiredAt)
    BY <2>4, AppendProperties DEF PressesTypeOK
  <2> HIDE DEF item
  <2>6. PressesTypeOK'
    <3>1. due' \in BOOLEAN
      BY DEF Presses!Update
    <3> QED BY <1>1, <2>1, <2>5, <3>1 DEF PressesTypeOK
  <2>7. Presses!FiresOnce'
    <3>1. CASE fired' = fired
      BY <3>1 DEF Presses!FiresOnce
    <3>2. CASE fired' = Append(fired, item)
      <4>1. ASSUME NEW i \in 2..(n + 1) PROVE fired'[i - 1].id < fired'[i].id
        <5>1. CASE i = n + 1
          BY <2>3, <2>4, <2>5, <3>2, <5>1
        <5>2. CASE i # n + 1
          <6>1. i \in 2..n /\ i \in 1..n /\ i - 1 \in 1..n
            BY <2>3, <5>2
          <6> QED BY <2>5, <3>2, <6>1 DEF Presses!FiresOnce
        <5> QED BY <5>1, <5>2
      <4>2. ASSUME NEW i \in 1..(n + 1) PROVE fired'[i].born < fired'[i].id
        <5>1. CASE i = n + 1
          BY <2>2, <2>4, <2>5, <3>2, <5>1
        <5>2. CASE i # n + 1
          <6>1. i \in 1..n
            BY <2>3, <5>2
          <6> QED BY <2>5, <3>2, <6>1 DEF Presses!FiresOnce
        <5> QED BY <5>1, <5>2
      <4> QED BY <2>5, <3>2, <4>1, <4>2 DEF Presses!FiresOnce
    <3> QED BY <2>1, <3>1, <3>2
  <2>8. FiredInv'
    BY <1>1, <1>2, <2>1, <2>2, <2>3, <2>4, <2>5 DEF FiredInv
  <2>9. BornInv'
    BY <1>1, <1>2, <2>1, <2>2 DEF BornInv
  <2>10. SeenInv'
    <3>1. stamped => \A m \in lastSeen' : m[2] \in 0..image.id
      BY <2>1, <2>2, MarkIs
    <3>2. image.type \in Presses!EventTypes =>
             Len(fired') > 0 /\ fired'[Len(fired')].id = image.id
      BY <2>1, <2>3, <2>4, <2>5
    <3> QED BY <1>1, <3>1, <3>2 DEF SeenInv, Presses!EventTypes
  <2> QED BY <1>3, <2>6, <2>7, <2>8, <2>9, <2>10
<1> QED BY <1>4, <1>5

LEMMA PressesNext == PressesInv /\ Presses!Next => PressesInv'
BY PressStep, RenewStep, CreateStep, UpdateStep DEF Presses!Next

-----------------------------------------------------------------------------
(***************************************************************************)
(* Entities of the homes, scenarios and groups                             *)
(***************************************************************************)

\* An entity shows one name, which is put together from what it keeps.
Named(l) == [label |-> l, cached |-> l]

NamedInv ==
    \A e \in DOMAIN entities :
        /\ entities[e] = Named(entities[e].label)
        /\ e[2] \in DOMAIN listed /\ listed[e[2]].name # "" =>
              entities[e].label = listed[e[2]].name

DiscoveryInv ==
    /\ Discovery!Discovered(listed) \subseteq known
    /\ entities = [e \in Discovery!Added(known) |-> entities[e]]
    /\ NamedInv
    /\ refused = 0

\* Each entity belongs to one thing.
LEMMA AddedIs ==
    ASSUME NEW things
    PROVE  \A e : e \in Discovery!Added(things) <=>
                      e[2] \in things /\ e \in Discovery!Added({e[2]})
BY DEF Discovery!Added, Discovery!Switches, Discovery!Buttons

LEMMA NamedFields == ASSUME NEW l PROVE Named(l).label = l /\ Named(l).cached = l
BY DEF Named

LEMMA DiscoverySound == DiscoveryInv => Discovery!EntitiesFollow
<1> SUFFICES ASSUME DiscoveryInv,
                    NEW thing \in Discovery!Discovered(listed),
                    NEW e \in Discovery!Added({thing})
             PROVE  /\ e \in DOMAIN entities
                    /\ listed[thing].name # "" => entities[e].cached = listed[thing].name
  BY DEF Discovery!EntitiesFollow, DiscoveryInv
<1>1. e[2] = thing /\ thing \in known /\ thing \in DOMAIN listed
  <2>1. e[2] \in {thing}
    BY AddedIs
  <2> QED BY <2>1 DEF DiscoveryInv, Discovery!Discovered
<1>2. e \in DOMAIN entities
  BY <1>1, AddedIs DEF DiscoveryInv
<1>3. entities[e] = Named(entities[e].label)
  BY <1>2 DEF DiscoveryInv, NamedInv
<1>4. entities[e].cached = entities[e].label
  BY <1>3, NamedFields
<1> QED BY <1>1, <1>2, <1>4 DEF DiscoveryInv, NamedInv

LEMMA NoneOffered == Discovery!Cardinality({}) = 0
<1>1. Discovery!Cardinality({}) = Cardinality({})
  BY DEF Discovery!Cardinality, Cardinality
<1> QED BY <1>1, FS_EmptySet

LEMMA NameIs ==
    ASSUME NEW list, NEW thing, list[thing].name # ""
    PROVE  Discovery!Name(thing, list) = list[thing].name
BY DEF Discovery!Name, Discovery!GroupName

LEMMA WrittenIs ==
    ASSUME NEW l, NEW e
    PROVE  /\ Discovery!WriteState(e, Named(l)) = Named(l)
           /\ Discovery!WriteState(e, [label |-> l, cached |-> ""]) = Named(l)
BY DEF Discovery!WriteState, Named

\* What a set-up makes.
LEMMA SetUpIs ==
    ASSUME NEW list,
           known' = Discovery!Discovered(list), entities' = Discovery!SetUp(list),
           listed' = list, refused' = 0
    PROVE  DiscoveryInv'
<1>1. entities' = [e \in Discovery!Added(known') |-> Named(Discovery!Name(e[2], list))]
  BY WrittenIs DEF Discovery!SetUp, Discovery!New
<1>2. entities' = [e \in Discovery!Added(known') |-> entities'[e]]
  BY <1>1
<1>3. ASSUME NEW e \in DOMAIN entities'
      PROVE  entities'[e] = Named(entities'[e].label)
             /\ entities'[e].label = Discovery!Name(e[2], list)
  BY <1>1 DEF Named
<1>4. NamedInv'
  BY <1>3, NameIs DEF NamedInv
<1> QED BY <1>2, <1>4 DEF DiscoveryInv, Discovery!Added, Discovery!Switches, Discovery!Buttons

LEMMA DiscoveryInit == Discovery!Init => DiscoveryInv
<1> SUFFICES ASSUME Discovery!Init PROVE DiscoveryInv
  OBVIOUS
<1> USE DEF Discovery!Init
<1>1. entities = [e \in Discovery!Added(known) |-> Named(Discovery!Name(e[2], listed))]
  BY WrittenIs DEF Discovery!SetUp, Discovery!New
<1>2. entities = [e \in Discovery!Added(known) |-> entities[e]]
  BY <1>1
<1>3. ASSUME NEW e \in DOMAIN entities
      PROVE  entities[e] = Named(entities[e].label)
             /\ entities[e].label = Discovery!Name(e[2], listed)
  BY <1>1 DEF Named
<1>4. NamedInv
  BY <1>3, NameIs DEF NamedInv
<1> QED BY <1>2, <1>4 DEF DiscoveryInv

\* Nothing is offered that is there, and what is there is relabelled.
LEMMA AnnounceStep ==
    ASSUME DiscoveryInv, NEW list, Discovery!Announce(list), listed' = list
    PROVE  DiscoveryInv'
<1> DEFINE appearing == Discovery!Added(Discovery!Discovered(list) \ known)
           now == [e \in DOMAIN entities \cup appearing |->
                      IF e \in DOMAIN entities
                      THEN Discovery!HandleUpdate(e, entities[e], list)
                      ELSE Discovery!New(e, list)]
<1>1. /\ known' = known \cup Discovery!Discovered(list)
      /\ entities' = [e \in DOMAIN now |-> Discovery!WriteState(e, now[e])]
      /\ refused' = refused + Discovery!Cardinality(appearing \cap DOMAIN entities)
  BY DEF Discovery!Announce, Discovery!Remembered
<1>2. DOMAIN entities = Discovery!Added(known)
  BY DEF DiscoveryInv
<1>3. DOMAIN now = Discovery!Added(known')
  <2>1. \A e : e \in Discovery!Added(known') <=>
                  e \in Discovery!Added(known) \/ e \in appearing
    BY <1>1, AddedIs
  <2> QED BY <1>2, <2>1
<1>4. refused' = 0
  <2>1. appearing \cap DOMAIN entities = {}
    <3> SUFFICES ASSUME NEW e \in appearing, e \in Discovery!Added(known) PROVE FALSE
      BY <1>2
    <3>1. e[2] \in Discovery!Discovered(list) \ known
      BY AddedIs
    <3>2. e[2] \in known
      BY AddedIs
    <3> QED BY <3>1, <3>2
  <2> QED BY <1>1, <2>1, NoneOffered DEF DiscoveryInv
<1>5. ASSUME NEW e \in DOMAIN now
      PROVE  /\ entities'[e] = Named(entities'[e].label)
             /\ e[2] \in DOMAIN list /\ list[e[2]].name # "" =>
                   entities'[e].label = list[e[2]].name
  <2> DEFINE name == Discovery!Name(e[2], list)
  <2>1. entities'[e] = Discovery!WriteState(e, now[e])
    BY <1>1
  <2>2. CASE e \notin DOMAIN entities
    <3>1. now[e] = [label |-> name, cached |-> ""]
      BY <2>2 DEF Discovery!New
    <3>2. entities'[e] = Named(name)
      BY <2>1, <3>1, WrittenIs
    <3> QED BY <3>2, NameIs, NamedFields
  <2>3. CASE e \in DOMAIN entities
    <3>1. entities[e] = Named(entities[e].label)
      BY <2>3 DEF DiscoveryInv, NamedInv
    <3>2. now[e] = Discovery!HandleUpdate(e, entities[e], list)
      BY <2>3
    <3>3. CASE e[2] \in DOMAIN list /\ list[e[2]].name # ""
      <4>1. now[e] = Discovery!Relabelled(e, entities[e], list)
        BY <3>2, <3>3 DEF Discovery!HandleUpdate
      <4>2. now[e] = Named(name) \/ now[e] = [label |-> name, cached |-> ""]
        BY <3>1, <4>1 DEF Discovery!Relabelled, Discovery!New
      <4>3. entities'[e] = Named(name)
        BY <2>1, <4>2, WrittenIs
      <4> QED BY <4>3, NameIs, NamedFields
    <3>4. CASE ~(e[2] \in DOMAIN list /\ list[e[2]].name # "")
      <4>1. now[e] = entities[e]
        BY <3>2, <3>4 DEF Discovery!HandleUpdate
      <4>2. entities'[e] = Named(entities[e].label)
        BY <2>1, <3>1, <4>1, WrittenIs
      <4> QED BY <3>4, <4>2, NamedFields
    <3> QED BY <3>3, <3>4
  <2> QED BY <2>2, <2>3
<1>6. entities' = [e \in Discovery!Added(known') |-> entities'[e]]
  BY <1>1, <1>3
<1>7. NamedInv'
  BY <1>1, <1>5 DEF NamedInv, Named
<1>8. Discovery!Discovered(listed)' \subseteq known'
  BY <1>1 DEF Discovery!Discovered
<1> QED BY <1>4, <1>6, <1>7, <1>8 DEF DiscoveryInv

LEMMA DiscoveryNext == DiscoveryInv /\ Discovery!Next => DiscoveryInv'
<1> SUFFICES ASSUME DiscoveryInv, Discovery!Next PROVE DiscoveryInv'
  OBVIOUS
<1>1. CASE Discovery!Reload
  BY <1>1, SetUpIs DEF Discovery!Reload, DiscoveryInv
<1>2. ASSUME NEW list \in Lists, Discovery!Update(list) PROVE DiscoveryInv'
  BY <1>2, AnnounceStep DEF Discovery!Update
<1> QED BY <1>1, <1>2 DEF Discovery!Next

-----------------------------------------------------------------------------
(***************************************************************************)
(* The differences and the verdicts of DevTools                            *)
(***************************************************************************)

Maybe == Snapshots \cup {Tools!None}
Differences == {Tools!Diff(d, p, s) : d \in Devices, p \in Snapshots, s \in Snapshots}

Applied(d, state, item) == IF item.device = d THEN Tools!After(state, item) ELSE state

\* The states a device goes through when the differences kept of it are applied in order.
Trail(states, d, from, items) ==
    /\ DOMAIN states = 0..Len(items)
    /\ states[0] = from
    /\ \A n \in 1..Len(items) : states[n] = Applied(d, states[n - 1], items[n])

\* The differences lead from the one state to the other; there are none of a device of
\* which no snapshot is kept.
Told(d, from, to, items) ==
    IF to = Tools!None THEN from = Tools!None /\ \A n \in 1..Len(items) : items[n].device # d
    ELSE /\ to \in Snapshots
         /\ \E states \in [0..Len(items) -> Snapshots] :
               Trail(states, d, from, items) /\ states[Len(items)] = to

ToolsTypeOK ==
    /\ diffs \in Seq(Differences) /\ size \in Nat
    /\ last \in [Devices -> Maybe] /\ start \in [Devices -> Maybe]
    /\ latest \in [Devices -> Maybe]
    /\ byDevice = [d \in Devices |-> byDevice[d]]

ToldInv == \A d \in Devices : Told(d, start[d], last[d], diffs)

ToolsInv == ToolsTypeOK /\ ToldInv /\ Tools!VerdictIsCurrent

\* A set of numbers that is not empty has a least one.
LEMMA LeastOf ==
    ASSUME NEW T \in SUBSET Nat, T # {}
    PROVE  \E x \in T : \A y \in T : x <= y
<1>1. \E R : IsWellFoundedOn(R, Nat) /\ \A x, y \in Nat : y < x => <<y, x>> \in R
  <2>1. \A x, y \in Nat : y < x => <<y, x>> \in OpToRel(<, Nat)
    BY DEF OpToRel
  <2> QED
    BY <2>1, NatLessThanWellFounded, Zenon
<1>2. PICK R : IsWellFoundedOn(R, Nat) /\ \A x, y \in Nat : y < x => <<y, x>> \in R
  BY <1>1
<1>3. PICK x \in T : \A y \in T : ~ (<<y, x>> \in R)
  BY <1>2, WFMin
<1>4. ASSUME NEW y \in T PROVE x <= y
  <2>1. x \in Nat /\ y \in Nat
    OBVIOUS
  <2>2. ~ (y < x)
    BY <1>2, <1>3, <2>1
  <2> QED
    BY <2>1, <2>2
<1> QED
  BY <1>4

\* Two trails of the same differences are one.
LEMMA TrailsAgree ==
    ASSUME NEW items, Len(items) \in Nat, NEW d, NEW from,
           NEW f, Trail(f, d, from, items), NEW g, Trail(g, d, from, items)
    PROVE  f[Len(items)] = g[Len(items)]
<1> DEFINE T == {n \in 0..Len(items) : f[n] # g[n]}
<1> SUFFICES ASSUME T # {} PROVE FALSE
  <2>1. Len(items) \in 0..Len(items)
    OBVIOUS
  <2> QED BY <2>1
<1>1. T \in SUBSET Nat
  OBVIOUS
<1>2. PICK n \in T : \A k \in T : n <= k
  <2> HIDE DEF T
  <2> QED BY <1>1, LeastOf
<1>3. n \in 0..Len(items) /\ f[n] # g[n]
  OBVIOUS
<1>4. n # 0
  BY <1>3 DEF Trail
<1>5. n \in 1..Len(items) /\ n - 1 \in 0..Len(items) /\ ~(n <= n - 1)
  BY <1>3, <1>4
<1>6. f[n - 1] = g[n - 1]
  BY <1>2, <1>5
<1> QED BY <1>3, <1>5, <1>6 DEF Trail

\* What the recursion of Replayed reaches, if there is a trail at all.
LEMMA ReplayedIs ==
    ASSUME NEW items, Len(items) \in Nat, NEW d, NEW from,
           NEW states, states = [n \in DOMAIN states |-> states[n]], Trail(states, d, from, items)
    PROVE  Tools!Replayed(from, d, items) = states[Len(items)]
<1> DEFINE F(f) == [n \in 0..Len(items) |->
                       IF n = 0 THEN from
                       ELSE IF items[n].device = d THEN Tools!After(f[n - 1], items[n])
                       ELSE f[n - 1]]
           state == CHOOSE f : f = F(f)
<1>1. Tools!Replayed(from, d, items) = state[Len(items)]
  BY DEF Tools!Replayed
<1>2. states = F(states)
  <2>1. DOMAIN states = 0..Len(items)
    BY DEF Trail
  <2>2. ASSUME NEW n \in 0..Len(items) PROVE states[n] = F(states)[n]
    <3>1. CASE n = 0
      BY <3>1 DEF Trail
    <3>2. CASE n # 0
      <4>1. n \in 1..Len(items)
        BY <3>2
      <4> QED BY <3>2, <4>1 DEF Trail, Applied
    <3> QED BY <3>1, <3>2
  <2> QED BY <2>1, <2>2
<1>3. state = F(state)
  <2> HIDE DEF F
  <2> QED BY <1>2
<1>4. Trail(state, d, from, items)
  <2> HIDE DEF state
  <2>1. DOMAIN state = 0..Len(items)
    BY <1>3
  <2>2. state[0] = from
    <3>1. 0 \in 0..Len(items)
      OBVIOUS
    <3> QED BY <1>3, <3>1
  <2>3. ASSUME NEW n \in 1..Len(items) PROVE state[n] = Applied(d, state[n - 1], items[n])
    <3>1. n \in 0..Len(items) /\ n # 0
      OBVIOUS
    <3> QED BY <1>3, <3>1 DEF Applied
  <2> QED BY <2>1, <2>2, <2>3 DEF Trail
<1> HIDE DEF state
<1> QED BY <1>1, <1>4, TrailsAgree

LEMMA ToolsSound == ToolsInv => Tools!DiffsAddUp /\ Tools!VerdictIsCurrent
<1> SUFFICES ASSUME ToolsInv, NEW d \in Devices, last[d] # Tools!None
             PROVE  Tools!Replayed(start[d], d, diffs) = last[d]
  BY DEF Tools!DiffsAddUp, ToolsInv
<1>1. PICK states \in [0..Len(diffs) -> Snapshots] :
          Trail(states, d, start[d], diffs) /\ states[Len(diffs)] = last[d]
  BY DEF ToolsInv, ToldInv, Told
<1>2. Len(diffs) \in Nat
  BY DEF ToolsInv, ToolsTypeOK
<1> QED BY <1>1, <1>2, ReplayedIs

\* What a ring keeps, and what it drops.
LEMMA RingIs ==
    ASSUME NEW items \in Seq(Differences), NEW n \in Nat
    PROVE  LET kept == Tools!Ring(items, n)
               m == Len(items) - Len(kept)
               gone == Tools!Dropped(items, kept)
           IN  /\ kept \in Seq(Differences) /\ m \in 0..Len(items)
               /\ \A i \in 1..Len(kept) : kept[i] = items[m + i]
               /\ gone \in Seq(Differences) /\ Len(gone) = m
               /\ \A i \in 1..m : gone[i] = items[i]
<1> DEFINE kept == Tools!Ring(items, n)
           m == Len(items) - Len(kept)
           gone == Tools!Dropped(items, kept)
<1>1. Len(items) \in Nat /\ \A i \in 1..Len(items) : items[i] \in Differences
  BY ElementOfSeq
<1>2. /\ kept \in Seq(Differences) /\ m \in 0..Len(items)
      /\ \A i \in 1..Len(kept) : kept[i] = items[m + i]
  <2>1. CASE Len(items) <= n
    <3>1. kept = items
      BY <2>1 DEF Tools!Ring
    <3> QED BY <1>1, <3>1
  <2>2. CASE ~(Len(items) <= n)
    <3> DEFINE l == Len(items) - n + 1
    <3>1. kept = SubSeq(items, l, Len(items))
      BY <2>2 DEF Tools!Ring
    <3>2. l \in Int /\ Len(items) \in Int /\ \A i \in l..Len(items) : items[i] \in Differences
      BY <1>1, <2>2
    <3>3. /\ SubSeq(items, l, Len(items)) \in Seq(Differences)
          /\ Len(SubSeq(items, l, Len(items))) =
                IF l <= Len(items) THEN Len(items) - l + 1 ELSE 0
          /\ \A i \in 1..Len(items) - l + 1 :
                SubSeq(items, l, Len(items))[i] = items[l + i - 1]
      BY <3>2, SubSeqProperties
    <3>4. Len(kept) = n
      BY <1>1, <2>2, <3>1, <3>3
    <3>5. ASSUME NEW i \in 1..n PROVE kept[i] = items[m + i]
      <4>1. l + i - 1 = m + i /\ i \in 1..Len(items) - l + 1
        BY <1>1, <3>4
      <4> QED BY <3>1, <3>3, <4>1
    <3> QED BY <1>1, <2>2, <3>1, <3>3, <3>4, <3>5
  <2> QED BY <2>1, <2>2
<1>3. gone \in Seq(Differences) /\ Len(gone) = m /\ \A i \in 1..m : gone[i] = items[i]
  <2> HIDE DEF kept
  <2>1. gone = SubSeq(items, 1, m)
    BY DEF Tools!Dropped
  <2>2. m \in Int /\ \A i \in 1..m : items[i] \in Differences
    BY <1>1, <1>2
  <2>3. /\ SubSeq(items, 1, m) \in Seq(Differences)
        /\ Len(SubSeq(items, 1, m)) = IF 1 <= m THEN m - 1 + 1 ELSE 0
        /\ \A i \in 1..m - 1 + 1 : SubSeq(items, 1, m)[i] = items[1 + i - 1]
    BY <2>2, SubSeqProperties
  <2> QED BY <1>1, <1>2, <2>1, <2>3
<1> QED BY <1>2, <1>3

\* The start follows what the ring drops.
LEMMA Trimmed ==
    ASSUME NEW items \in Seq(Differences), NEW n \in Nat, NEW from, NEW to,
           NEW d \in Devices, Told(d, from[d], to, items)
    PROVE  LET kept == Tools!Ring(items, n)
               new == Tools!StartAfter(from, items, kept)
           IN  Told(d, new[d], to, kept) /\ new[d] \in Maybe
<1> DEFINE kept == Tools!Ring(items, n)
           m == Len(items) - Len(kept)
           gone == Tools!Dropped(items, kept)
           new == Tools!StartAfter(from, items, kept)
<1>1. /\ kept \in Seq(Differences) /\ m \in 0..Len(items)
      /\ \A i \in 1..Len(kept) : kept[i] = items[m + i]
      /\ gone \in Seq(Differences) /\ Len(gone) = m
      /\ \A i \in 1..m : gone[i] = items[i]
  BY RingIs
<1>2. Len(items) \in Nat /\ Len(kept) \in Nat /\ m + Len(kept) = Len(items)
  BY <1>1
<1>3. new[d] = IF from[d] = Tools!None THEN Tools!None ELSE Tools!Replayed(from[d], d, gone)
  BY DEF Tools!StartAfter
<1> HIDE DEF kept, gone, new
<1>4. ASSUME to = Tools!None PROVE Told(d, new[d], to, kept) /\ new[d] \in Maybe
  <2>1. from[d] = Tools!None /\ \A i \in 1..Len(items) : items[i].device # d
    BY <1>4 DEF Told
  <2>2. \A i \in 1..Len(kept) : kept[i].device # d
    <3> SUFFICES ASSUME NEW i \in 1..Len(kept) PROVE kept[i].device # d
      OBVIOUS
    <3>1. m + i \in 1..Len(items)
      BY <1>1, <1>2
    <3> QED BY <1>1, <2>1, <3>1
  <2> QED BY <1>3, <1>4, <2>1, <2>2 DEF Told, Maybe
<1>5. ASSUME to # Tools!None PROVE Told(d, new[d], to, kept) /\ new[d] \in Maybe
  <2>1. PICK states \in [0..Len(items) -> Snapshots] :
            Trail(states, d, from[d], items) /\ states[Len(items)] = to
    BY <1>5 DEF Told
  <2>2. from[d] \in Snapshots /\ from[d] # Tools!None
    BY <1>2, <2>1, SnapshotAssumption DEF Trail
  <2> DEFINE first == [i \in 0..m |-> states[i]]
             rest == [i \in 0..Len(kept) |-> states[m + i]]
  <2>3. Trail(first, d, from[d], gone)
    <3>1. ASSUME NEW i \in 1..m PROVE first[i] = Applied(d, first[i - 1], gone[i])
      <4>1. i \in 1..Len(items) /\ i - 1 \in 0..m /\ i \in 0..m
        BY <1>1, <1>2
      <4> QED BY <1>1, <2>1, <4>1 DEF Trail
    <3>2. 0 \in 0..m /\ first[0] = from[d]
      BY <1>1, <1>2, <2>1 DEF Trail
    <3> QED BY <1>1, <3>1, <3>2 DEF Trail
  <2>4. new[d] = states[m] /\ states[m] \in Snapshots
    <3>1. Tools!Replayed(from[d], d, gone) = first[Len(gone)]
      <4>1. Len(gone) \in Nat /\ first = [i \in DOMAIN first |-> first[i]]
        BY <1>1
      <4> HIDE DEF first
      <4> QED BY <2>3, <4>1, ReplayedIs
    <3>2. m \in 0..m /\ m \in 0..Len(items)
      BY <1>1
    <3> QED BY <1>1, <1>3, <2>2, <3>1, <3>2
  <2>5. rest \in [0..Len(kept) -> Snapshots] /\ rest[Len(kept)] = to
    BY <1>1, <1>2, <2>1
  <2>6. Trail(rest, d, states[m], kept)
    <3>1. ASSUME NEW i \in 1..Len(kept) PROVE rest[i] = Applied(d, rest[i - 1], kept[i])
      <4>1. /\ m + i \in 1..Len(items) /\ i - 1 \in 0..Len(kept) /\ i \in 0..Len(kept)
            /\ m + (i - 1) = (m + i) - 1
        BY <1>1, <1>2
      <4> QED BY <1>1, <2>1, <4>1 DEF Trail
    <3>2. 0 \in 0..Len(kept) /\ rest[0] = states[m]
      BY <1>1, <1>2
    <3> QED BY <1>2, <3>1, <3>2 DEF Trail
  <2> HIDE DEF first, rest
  <2>7. to \in Snapshots
    BY <1>5 DEF Told
  <2> QED BY <1>5, <2>4, <2>5, <2>6, <2>7 DEF Told, Maybe
<1> QED BY <1>4, <1>5 DEF kept, new

\* The difference of two snapshots, applied to the first, gives the second.
LEMMA DiffApplies ==
    ASSUME NEW d, NEW p \in Snapshots, NEW s \in Snapshots
    PROVE  /\ Tools!After(p, Tools!Diff(d, p, s)) = s
           /\ Tools!IsEmpty(Tools!Diff(d, p, s)) => p = s
           /\ Tools!Diff(d, p, s).device = d
<1> DEFINE diff == Tools!Diff(d, p, s)
           common == {k \in DOMAIN s \cap DOMAIN p : s[k] # p[k]}
<1>1. /\ diff.device = d
      /\ diff.added = [k \in DOMAIN s \ DOMAIN p |-> s[k]]
      /\ diff.removed = [k \in DOMAIN p \ DOMAIN s |-> p[k]]
      /\ diff.changed = [k \in common |-> <<p[k], s[k]>>]
  BY DEF Tools!Diff, Tools!Restrict
<1>2. p = [k \in DOMAIN p |-> p[k]] /\ s = [k \in DOMAIN s |-> s[k]]
  BY SnapshotAssumption
<1> HIDE DEF diff
<1>3. Tools!After(p, diff) = s
  <2>1. DOMAIN Tools!After(p, diff) = DOMAIN s
    BY <1>1 DEF Tools!After
  <2>2. ASSUME NEW k \in DOMAIN s PROVE Tools!After(p, diff)[k] = s[k]
    BY <1>1 DEF Tools!After
  <2>3. Tools!After(p, diff) = [k \in DOMAIN s |-> Tools!After(p, diff)[k]]
    BY <2>1 DEF Tools!After
  <2> QED BY <1>2, <2>2, <2>3
<1>4. Tools!IsEmpty(diff) => p = s
  <2> SUFFICES ASSUME diff.added = <<>>, diff.removed = <<>>, diff.changed = <<>> PROVE p = s
    BY DEF Tools!IsEmpty
  <2>1. DOMAIN <<>> = {}
    OBVIOUS
  <2>2. DOMAIN s \ DOMAIN p = {} /\ DOMAIN p \ DOMAIN s = {} /\ common = {}
    BY <1>1, <2>1
  <2>3. DOMAIN s = DOMAIN p /\ \A k \in DOMAIN s : s[k] = p[k]
    BY <2>2
  <2> QED BY <1>2, <2>3
<1> QED BY <1>1, <1>3, <1>4 DEF diff

LEMMA ToolsInit == Tools!Init => ToolsInv
<1> SUFFICES ASSUME Tools!Init PROVE ToolsInv
  OBVIOUS
<1> USE DEF Tools!Init
<1>1. size \in Nat
  BY SnapshotAssumption
<1>2. ToolsTypeOK
  BY <1>1 DEF ToolsTypeOK, Maybe
<1>3. ToldInv
  BY DEF ToldInv, Told
<1>4. Tools!VerdictIsCurrent
  BY DEF Tools!VerdictIsCurrent
<1> QED BY <1>2, <1>3, <1>4 DEF ToolsInv

\* What an observation adds to the ring, before the ring is cut.
LEMMA RecordedTells ==
    ASSUME ToolsInv, NEW d \in Devices, NEW s \in Snapshots,
           NEW e \in Devices
    PROVE  LET all == diffs \o Tools!Recorded(d, s)
               from == IF last[d] = Tools!None THEN [start EXCEPT ![d] = s] ELSE start
           IN  all \in Seq(Differences) /\ Told(e, from[e], [last EXCEPT ![d] = s][e], all)
<1> DEFINE all == diffs \o Tools!Recorded(d, s)
           from == IF last[d] = Tools!None THEN [start EXCEPT ![d] = s] ELSE start
           to == [last EXCEPT ![d] = s][e]
           diff == Tools!Diff(d, last[d], s)
           n == Len(diffs)
<1>1. diffs \in Seq(Differences) /\ n \in Nat /\ last \in [Devices -> Maybe]
      /\ start \in [Devices -> Maybe] /\ s # Tools!None
  BY SnapshotAssumption DEF ToolsInv, ToolsTypeOK
<1>2. Told(e, start[e], last[e], diffs)
  BY DEF ToolsInv, ToldInv
<1>3. to = (IF e = d THEN s ELSE last[e])
  BY <1>1
<1>4. CASE last[d] = Tools!None \/ Tools!IsEmpty(diff)
  <2>1. Tools!Recorded(d, s) = <<>>
    BY <1>4 DEF Tools!Recorded
  <2>2. all = diffs
    BY <1>1, <2>1, ConcatEmptySeq
  <2>3. CASE last[d] # Tools!None
    <3>1. last[d] = s
      BY <1>1, <1>4, <2>3, DiffApplies DEF Maybe
    <3>2. to = last[e] /\ from = start
      BY <1>3, <2>3, <3>1
    <3> QED BY <1>1, <1>2, <2>2, <3>2
  <2>4. CASE last[d] = Tools!None /\ e # d
    <3>1. to = last[e] /\ from[e] = start[e]
      BY <1>1, <1>3, <2>4
    <3> QED BY <1>1, <1>2, <2>2, <3>1
  <2>5. CASE last[d] = Tools!None /\ e = d
    <3>1. to = s /\ from[e] = s
      BY <1>1, <1>3, <2>5
    <3>2. \A i \in 1..n : diffs[i].device # d
      BY <1>2, <2>5 DEF Told
    <3> DEFINE states == [i \in 0..n |-> s]
    <3>3. states \in [0..n -> Snapshots] /\ states[n] = s
      BY <1>1
    <3>4. Trail(states, d, s, diffs)
      BY <1>1, <3>2 DEF Trail, Applied
    <3> HIDE DEF states
    <3> QED BY <1>1, <2>2, <2>5, <3>1, <3>3, <3>4 DEF Told
  <2> QED BY <2>3, <2>4, <2>5
<1>5. CASE last[d] # Tools!None /\ ~Tools!IsEmpty(diff)
  <2>1. Tools!Recorded(d, s) = <<diff>> /\ from = start
    BY <1>5 DEF Tools!Recorded
  <2>2. last[d] \in Snapshots
    BY <1>1, <1>5 DEF Maybe
  <2>3. diff \in Differences /\ diff.device = d /\ Tools!After(last[d], diff) = s
    BY <2>2, DiffApplies DEF Differences
  <2> HIDE DEF diff
  <2>4. /\ all \in Seq(Differences) /\ Len(all) = n + 1
        /\ \A i \in 1..n : all[i] = diffs[i]
        /\ all[n + 1] = diff
    <3>1. <<diff>> \in Seq(Differences) /\ Len(<<diff>>) = 1 /\ <<diff>>[1] = diff
      BY <2>3
    <3> QED BY <1>1, <2>1, <3>1, ConcatProperties
  <2> HIDE DEF all
  <2>5. ASSUME to = Tools!None PROVE all \in Seq(Differences) /\ Told(e, from[e], to, all)
    <3>1. e # d /\ last[e] = Tools!None
      BY <1>1, <1>3, <2>5
    <3>2. start[e] = Tools!None /\ \A i \in 1..n : diffs[i].device # e
      BY <1>2, <3>1 DEF Told
    <3>3. \A i \in 1..Len(all) : all[i].device # e
      BY <1>1, <2>3, <2>4, <3>1, <3>2
    <3> QED BY <2>1, <2>4, <2>5, <3>2, <3>3 DEF Told
  <2>6. ASSUME to # Tools!None PROVE all \in Seq(Differences) /\ Told(e, from[e], to, all)
    <3>1. last[e] # Tools!None /\ to \in Snapshots
      BY <1>1, <1>3, <1>5, <2>6 DEF Maybe
    <3>2. PICK states \in [0..n -> Snapshots] :
              Trail(states, e, start[e], diffs) /\ states[n] = last[e]
      BY <1>2, <3>1 DEF Told
    <3> DEFINE longer == [i \in 0..n + 1 |-> IF i = n + 1 THEN to ELSE states[i]]
    <3>3. to = Applied(e, last[e], diff)
      BY <1>3, <2>3 DEF Applied
    <3>4. longer \in [0..n + 1 -> Snapshots] /\ longer[n + 1] = to
      BY <1>1, <3>1, <3>2
    <3>5. Trail(longer, e, start[e], all)
      <4>1. ASSUME NEW i \in 1..n + 1 PROVE longer[i] = Applied(e, longer[i - 1], all[i])
        <5>1. i - 1 \in 0..n /\ i \in 0..n + 1 /\ i - 1 # n + 1 /\ i - 1 \in 0..n + 1
          BY <1>1
        <5>2. longer[i - 1] = states[i - 1]
          BY <5>1
        <5>3. CASE i = n + 1
          <6>1. i - 1 = n
            BY <1>1, <5>3
          <6> QED BY <2>4, <3>2, <3>3, <3>4, <5>2, <5>3, <6>1
        <5>4. CASE i # n + 1
          <6>1. i \in 1..n
            BY <1>1, <5>4
          <6> QED BY <2>4, <3>2, <5>1, <5>2, <5>4, <6>1 DEF Trail
        <5> QED BY <5>3, <5>4
      <4>2. 0 \in 0..n + 1 /\ 0 # n + 1 /\ longer[0] = start[e]
        BY <1>1, <3>2 DEF Trail
      <4> QED BY <2>4, <4>1, <4>2 DEF Trail
    <3> HIDE DEF longer
    <3> QED BY <2>1, <2>4, <2>6, <3>1, <3>4, <3>5 DEF Told
  <2> QED BY <2>5, <2>6 DEF all
<1> QED BY <1>4, <1>5

LEMMA ObserveStep ==
    ASSUME ToolsInv, NEW d \in Devices, NEW s \in Snapshots, Tools!Observe(d, s)
    PROVE  ToolsInv'
<1> DEFINE all == diffs \o Tools!Recorded(d, s)
           from == IF last[d] = Tools!None THEN [start EXCEPT ![d] = s] ELSE start
<1>1. /\ diffs' = Tools!Ring(all, size) /\ last' = [last EXCEPT ![d] = s]
      /\ start' = Tools!StartAfter(from, all, diffs') /\ size' = size
      /\ byDevice' = [byDevice EXCEPT ![d] = Tools!ValidateReportedState(d, s)]
      /\ latest' = [latest EXCEPT ![d] = s]
  BY DEF Tools!Observe
<1>2. all \in Seq(Differences) /\ \A e \in Devices : Told(e, from[e], last'[e], all)
  BY <1>1, RecordedTells
<1> HIDE DEF all, from
<1>3. \A e \in Devices : Told(e, start'[e], last'[e], diffs') /\ start'[e] \in Maybe
  BY <1>1, <1>2, Trimmed DEF ToolsInv, ToolsTypeOK
<1>4. start' \in [Devices -> Maybe]
  BY <1>1, <1>3 DEF Tools!StartAfter
<1>5. diffs' \in Seq(Differences)
  BY <1>1, <1>2, RingIs DEF ToolsInv, ToolsTypeOK
<1>6. ToolsTypeOK'
  BY <1>1, <1>4, <1>5 DEF ToolsInv, ToolsTypeOK, Maybe
<1>7. Tools!VerdictIsCurrent'
  <2> SUFFICES ASSUME NEW e \in Devices
               PROVE  byDevice'[e] = IF latest'[e] = Tools!None THEN {}
                                     ELSE Tools!ValidateReportedState(e, latest'[e])
    BY DEF Tools!VerdictIsCurrent, Tools!ValidateReportedState, Tools!IssuesOf
  <2>1. CASE e = d
    <3>1. byDevice'[e] = Tools!ValidateReportedState(d, s) /\ latest'[e] = s /\ s # Tools!None
      BY <1>1, <2>1, SnapshotAssumption DEF ToolsInv, ToolsTypeOK
    <3> QED BY <2>1, <3>1
  <2>2. CASE e # d
    BY <1>1, <2>2 DEF ToolsInv, ToolsTypeOK, Tools!VerdictIsCurrent
  <2> QED BY <2>1, <2>2
<1> QED BY <1>3, <1>6, <1>7 DEF ToolsInv, ToldInv

LEMMA ResizeStep == ASSUME ToolsInv, NEW n \in Sizes, Tools!Resize(n) PROVE ToolsInv'
<1>1. /\ n \in Nat /\ size' = n /\ diffs' = Tools!Ring(diffs, n)
      /\ start' = Tools!StartAfter(start, diffs, diffs')
      /\ UNCHANGED <<last, byDevice, latest>>
  BY SnapshotAssumption DEF Tools!Resize
<1>2. diffs \in Seq(Differences) /\ \A e \in Devices : Told(e, start[e], last[e], diffs)
  BY DEF ToolsInv, ToolsTypeOK, ToldInv
<1>3. \A e \in Devices : Told(e, start'[e], last[e], diffs') /\ start'[e] \in Maybe
  BY <1>1, <1>2, Trimmed
<1>4. start' \in [Devices -> Maybe]
  BY <1>1, <1>3 DEF Tools!StartAfter
<1>5. diffs' \in Seq(Differences)
  BY <1>1, <1>2, RingIs
<1>6. ToolsTypeOK'
  BY <1>1, <1>4, <1>5 DEF ToolsInv, ToolsTypeOK
<1>7. Tools!VerdictIsCurrent'
  BY <1>1 DEF ToolsInv, Tools!VerdictIsCurrent
<1> QED BY <1>1, <1>3, <1>6, <1>7 DEF ToolsInv, ToldInv

LEMMA ClearSteps ==
    ASSUME ToolsInv, Tools!ClearDiffs \/ Tools!ClearIssues PROVE ToolsInv'
<1>1. CASE Tools!ClearDiffs
  <2> USE <1>1 DEF Tools!ClearDiffs
  <2>1. ToolsTypeOK'
    BY DEF ToolsInv, ToolsTypeOK, Maybe
  <2>2. ToldInv'
    BY DEF ToldInv, Told
  <2>3. Tools!VerdictIsCurrent'
    BY DEF ToolsInv, Tools!VerdictIsCurrent
  <2> QED BY <2>1, <2>2, <2>3 DEF ToolsInv
<1>2. CASE Tools!ClearIssues
  <2> USE <1>2 DEF Tools!ClearIssues
  <2>1. ToolsTypeOK'
    BY DEF ToolsInv, ToolsTypeOK, Maybe
  <2>2. ToldInv'
    BY DEF ToolsInv, ToldInv
  <2>3. Tools!VerdictIsCurrent'
    BY DEF Tools!VerdictIsCurrent
  <2> QED BY <2>1, <2>2, <2>3 DEF ToolsInv
<1> QED BY <1>1, <1>2

LEMMA ToolsNext == ToolsInv /\ Tools!Next => ToolsInv'
BY ObserveStep, ResizeStep, ClearSteps DEF Tools!Next

-----------------------------------------------------------------------------
(***************************************************************************)
(* Listeners                                                               *)
(***************************************************************************)

\* The recursion of InOrder, and what it is to reach.
Selection(f, n, places) ==
    f = [i \in 0..n |->
            IF i = 0 THEN <<>>
            ELSE IF i \in places THEN Append(f[i - 1], i) ELSE f[i - 1]]

Increasing(p, places) ==
    /\ p \in Seq(Nat)
    /\ places = {p[i] : i \in 1..Len(p)}
    /\ \A i, j \in 1..Len(p) : i < j => p[i] < p[j]

LEMMA SelectionExists ==
    ASSUME NEW n \in Nat, NEW places
    PROVE  \E f : Selection(f, n, places)
<1> DEFINE T == {m \in Nat : ~\E f : Selection(f, m, places)}
<1> SUFFICES ASSUME T # {} PROVE FALSE
  OBVIOUS
<1>1. PICK m \in T : \A x \in T : m <= x
  <2> HIDE DEF T
  <2> QED BY LeastOf DEF T
<1>2. m # 0
  <2>1. Selection([i \in 0..0 |-> <<>>], 0, places)
    BY DEF Selection
  <2> QED BY <2>1
<1>3. m - 1 \in Nat /\ m - 1 \notin T
  BY <1>1, <1>2
<1>4. PICK f : Selection(f, m - 1, places)
  BY <1>3
<1> DEFINE g == [i \in 0..m |->
                    IF i < m THEN f[i]
                    ELSE IF i \in places THEN Append(f[i - 1], i) ELSE f[i - 1]]
<1>5. Selection(g, m, places)
  <2> SUFFICES ASSUME NEW i \in 0..m
               PROVE  g[i] = IF i = 0 THEN <<>>
                             ELSE IF i \in places THEN Append(g[i - 1], i) ELSE g[i - 1]
    BY DEF Selection
  <2>1. CASE i = 0
    <3>1. i < m /\ i \in 0..m - 1
      BY <1>2, <1>3, <2>1
    <3> QED BY <1>4, <2>1, <3>1 DEF Selection
  <2>2. CASE i # 0
    <3>1. i - 1 \in 0..m /\ i - 1 < m /\ g[i - 1] = f[i - 1]
      BY <1>3, <2>2
    <3>2. CASE i = m
      BY <2>2, <3>1, <3>2
    <3>3. CASE i # m
      <4>1. i < m /\ i \in 0..m - 1
        BY <3>3
      <4> QED BY <1>4, <2>2, <3>1, <4>1 DEF Selection
    <3> QED BY <3>2, <3>3
  <2> QED BY <2>1, <2>2
<1> QED BY <1>1, <1>5

LEMMA SelectionIs ==
    ASSUME NEW n \in Nat, NEW places, NEW f, Selection(f, n, places)
    PROVE  \A m \in 0..n : Increasing(f[m], places \cap 1..m)
<1> DEFINE T == {m \in 0..n : ~Increasing(f[m], places \cap 1..m)}
<1> SUFFICES ASSUME T # {} PROVE FALSE
  OBVIOUS
<1>1. PICK m \in T : \A x \in T : m <= x
  <2>1. T \in SUBSET Nat
    OBVIOUS
  <2> HIDE DEF T
  <2> QED BY <2>1, LeastOf
<1>2. m # 0
  <2> SUFFICES ASSUME m = 0 PROVE FALSE
    OBVIOUS
  <2>1. f[0] = <<>>
    BY DEF Selection
  <2>2. 1..0 = {} /\ Len(<<>>) = 0 /\ <<>> \in Seq(Nat)
    OBVIOUS
  <2>3. {f[0][i] : i \in 1..0} = {}
    BY <2>2
  <2>4. Increasing(f[0], places \cap 1..0)
    BY <2>1, <2>2, <2>3 DEF Increasing
  <2> QED BY <2>4
<1> DEFINE p == f[m - 1]
<1>3. m \in 1..n /\ m - 1 \in 0..n /\ Increasing(p, places \cap 1..m - 1)
  BY <1>1, <1>2
<1>4. f[m] = IF m \in places THEN Append(p, m) ELSE p
  BY <1>2, <1>3 DEF Selection
<1> HIDE DEF p
<1>5. Increasing(f[m], places \cap 1..m)
  <2>1. CASE m \notin places
    <3>1. places \cap 1..m = places \cap 1..m - 1
      BY <1>3, <2>1
    <3> QED BY <1>3, <1>4, <2>1, <3>1
  <2>2. CASE m \in places
    <3> DEFINE q == Append(p, m)
               l == Len(p)
    <3>1. /\ p \in Seq(Nat) /\ l \in Nat
          /\ q \in Seq(Nat) /\ Len(q) = l + 1 /\ q[l + 1] = m
          /\ \A i \in 1..l : q[i] = p[i]
      BY <1>3 DEF Increasing
    <3> HIDE DEF q, l
    <3>2. \A i \in 1..l : q[i] \in places /\ q[i] \in 1..m - 1
      BY <1>3, <3>1 DEF Increasing, l
    <3>3. places \cap 1..m = {q[i] : i \in 1..l + 1}
      <4>1. ASSUME NEW x \in places \cap 1..m PROVE \E i \in 1..l + 1 : x = q[i]
        <5>1. CASE x = m
          <6>1. l + 1 \in 1..l + 1
            BY <3>1
          <6> QED BY <3>1, <5>1, <6>1
        <5>2. CASE x # m
          <6>1. x \in places \cap 1..m - 1
            BY <1>3, <5>2
          <6>2. PICK i \in 1..l : x = p[i]
            BY <1>3, <6>1 DEF Increasing, l
          <6>3. i \in 1..l + 1
            BY <3>1
          <6> QED BY <3>1, <6>2, <6>3
        <5> QED BY <5>1, <5>2
      <4>2. ASSUME NEW i \in 1..l + 1 PROVE q[i] \in places \cap 1..m
        <5>1. CASE i = l + 1
          BY <1>3, <2>2, <3>1, <5>1
        <5>2. CASE i # l + 1
          <6>1. i \in 1..l
            BY <3>1, <5>2
          <6> QED BY <1>3, <3>2, <6>1
        <5> QED BY <5>1, <5>2
      <4> QED BY <4>1, <4>2
    <3>4. ASSUME NEW i \in 1..l + 1, NEW j \in 1..l + 1, i < j PROVE q[i] < q[j]
      <4>1. i \in 1..l
        BY <3>1, <3>4
      <4>2. CASE j = l + 1
        BY <1>3, <3>1, <3>2, <4>1, <4>2
      <4>3. CASE j # l + 1
        <5>1. j \in 1..l
          BY <3>1, <4>3
        <5> QED BY <1>3, <3>1, <3>4, <4>1, <5>1 DEF Increasing, l
      <4> QED BY <4>2, <4>3
    <3>5. f[m] = q
      BY <1>4, <2>2 DEF q
    <3> QED BY <3>1, <3>3, <3>4, <3>5 DEF Increasing
  <2> QED BY <2>1, <2>2
<1> QED BY <1>1, <1>5

\* InOrder lists the places it is given, from the first to the last.
LEMMA InOrderIs ==
    ASSUME NEW n \in Nat, NEW places \in SUBSET (1..n)
    PROVE  Increasing(Listening!InOrder(n, places), places)
<1> DEFINE taken == CHOOSE f : Selection(f, n, places)
<1>1. Listening!InOrder(n, places) = taken[n]
  BY DEF Listening!InOrder, Selection
<1>2. Selection(taken, n, places)
  BY SelectionExists
<1> HIDE DEF taken
<1>3. Increasing(taken[n], places \cap 1..n)
  BY <1>2, SelectionIs
<1>4. places \cap 1..n = places
  OBVIOUS
<1> QED BY <1>1, <1>3, <1>4

\* The listeners in force are those of the last good file, resolved with the homes of
\* then, by which FiresAsWritten knows them.
ListenersInv ==
    /\ file \in DOMAIN Files /\ homeList \in HomeLists
    /\ basis = <<basis[1], basis[2]>>
    /\ basis[1] \in {0} \cup DOMAIN Files /\ basis[2] \in HomeLists
    /\ loaded = Listening!Load(basis[1])
    /\ registry = Listening!Apply(loaded, basis[2])

LEMMA ListenersInit == Listening!Init => ListenersInv
BY DEF Listening!Init, ListenersInv

LEMMA ListenersNext == ListenersInv /\ Listening!Next => ListenersInv'
<1> SUFFICES ASSUME ListenersInv, Listening!Next PROVE ListenersInv'
  OBVIOUS
<1> USE DEF ListenersInv
<1>1. ASSUME NEW f \in DOMAIN Files, Listening!EditFile(f) PROVE ListenersInv'
  BY <1>1 DEF Listening!EditFile
<1>2. ASSUME NEW list \in HomeLists, Listening!HomesChange(list) PROVE ListenersInv'
  BY <1>2 DEF Listening!HomesChange
<1>3. CASE Listening!ReloadIntents
  BY <1>3 DEF Listening!ReloadIntents
<1>4. CASE Listening!ReloadEntry
  BY <1>4 DEF Listening!ReloadEntry
<1>5. ASSUME NEW event \in Events, Listening!FireEvent(event) PROVE ListenersInv'
  BY <1>5 DEF Listening!FireEvent
<1> QED BY <1>1, <1>2, <1>3, <1>4, <1>5 DEF Listening!Next

\* The listeners of a file, as a sequence.
LEMMA ContentIs ==
    ASSUME NEW f \in {0} \cup DOMAIN Files
    PROVE  LET entries == Listening!Content(f).listeners
           IN  \E n \in Nat : DOMAIN entries = 1..n
<1>1. CASE f = 0
  <2>1. Listening!Content(f).listeners = <<>>
    BY <1>1 DEF Listening!Content
  <2> QED BY <2>1
<1>2. CASE f # 0
  <2>1. Listening!Content(f).listeners = Files[f].listeners
    BY <1>2 DEF Listening!Content
  <2>2. IsSequence(Files[f].listeners)
    BY <1>2, ListenerAssumption
  <2> QED BY <2>1, <2>2 DEF IsSequence
<1> QED BY <1>1, <1>2

\* A home that is given by its id is not missing, nor another one's.
LEMMA HomeIdIs ==
    ASSUME NEW home, NEW id, home = <<id, "">>
    PROVE  /\ Listening!Word(home) = id
           /\ home = Listening!NoName <=> id = ""
           /\ \A other : home = <<other, "">> <=> id = other
<1>1. home[1] = id
  OBVIOUS
<1>2. \A other : <<other, "">>[1] = other
  OBVIOUS
<1>3. ASSUME NEW other, home = <<other, "">> PROVE id = other
  BY <1>1, <1>2, <1>3
<1> QED BY <1>1, <1>3 DEF Listening!Word, Listening!NoName

\* What is made of an entry matches an event exactly when the entry asks for it.
LEMMA AskedForIs ==
    ASSUME NEW f \in {0} \cup DOMAIN Files, NEW list \in HomeLists, NEW event,
           NEW i \in DOMAIN Listening!Content(f).listeners
    PROVE  LET good == Listening!Content(f)
               item == good.listeners[i]
               spec == Listening!Resolved(Listening!ListenerOf(item, good.intents), list)
           IN  /\ spec.slug = Listening!SlugOf(item)
               /\ Listening!MatchListener(spec, event)
                     <=> Listening!AskedFor(item, good, list, event)
<1> DEFINE good == Listening!Content(f)
           item == good.listeners[i]
           plain == Listening!ListenerOf(item, good.intents)
           spec == Listening!Resolved(plain, list)
           named == Listening!HomesNamed(list, plain.home)
<1> SUFFICES /\ spec.slug = Listening!SlugOf(item)
             /\ Listening!MatchListener(spec, event)
                   <=> Listening!AskedFor(item, good, list, event)
  OBVIOUS
<1>1. f # 0 /\ item = Files[f].listeners[i] /\ i \in DOMAIN Files[f].listeners
  <2>1. f # 0
    <3>1. f = 0 => DOMAIN good.listeners = 1..0
      BY DEF Listening!Content
    <3> QED BY <3>1
  <2> QED BY <2>1 DEF Listening!Content
<1>2. \A h \in list :
         /\ h.id # "" /\ item.home # <<h.id, "">> /\ item.homeId # Listening!Word(h.name)
         /\ \A x \in list : Listening!Word(x.name) = Listening!Word(h.name) => x.id = h.id
  <2>1. f \in DOMAIN Files
    BY <1>1
  <2> SUFFICES ASSUME NEW h \in list
               PROVE  /\ h.id # "" /\ item.home # <<h.id, "">> /\ item.homeId # h.name[1]
                      /\ \A x \in list : x.name[1] = h.name[1] => x.id = h.id
    BY DEF Listening!Word
  <2> HIDE DEF item
  <2> QED BY <1>1, <2>1, ListenerAssumption
<1> HIDE DEF item, good
<1>3. /\ plain.slug = Listening!SlugOf(item)
      /\ plain.enabled <=> item.enabled /\ Listening!SlugOf(item) \notin good.intents
      /\ plain.triggers = item.triggers /\ plain.scenario = item.scenario
      /\ plain.home = Listening!HomeOf(item)
  BY DEF Listening!ListenerOf, Listening!Listener
<1> HIDE DEF plain
<1> DEFINE Rest == /\ plain.enabled
                   /\ plain.triggers = {} \/ event.trigger \in plain.triggers
                   /\ \/ plain.scenario = Listening!NoName
                      \/ Listening!Word(plain.scenario) = Listening!Word(event.name)
           AtHome == /\ item.homeId # "" =>
                           event.home = item.homeId /\ \E h \in list : h.id = item.homeId
                     /\ item.homeId = "" /\ item.home # Listening!NoName =>
                           \E h \in list : /\ h.id = event.home
                                           /\ Listening!Word(h.name) = Listening!Word(item.home)
           here == <<event.home, "">>
<1>4. Listening!AskedFor(item, good, list, event) <=> Rest /\ AtHome
  BY <1>3 DEF Listening!AskedFor
<1>5. /\ item.homeId # "" => plain.home = <<item.homeId, "">>
      /\ item.homeId = "" => plain.home = item.home
  BY <1>3 DEF Listening!HomeOf
<1>6. \A x : x \in named <=>
          \E h \in list : h.id = x /\ Listening!Word(h.name) = Listening!Word(plain.home)
  BY DEF Listening!HomesNamed
<1> HIDE DEF named
<1>7. CASE Listening!Settled(list, plain.home)
  <2>1. spec = plain
    BY <1>7 DEF Listening!Resolved
  <2> HIDE DEF spec
  <2>2. Listening!MatchListener(spec, event)
           <=> Rest /\ (plain.home = Listening!NoName \/ plain.home = here)
    BY <2>1 DEF Listening!MatchListener
  <2>3. AtHome <=> plain.home = Listening!NoName \/ plain.home = here
    <3>1. CASE item.homeId # ""
      <4>1. plain.home = <<item.homeId, "">> /\ plain.home # Listening!NoName
        BY <1>5, <3>1, HomeIdIs
      <4>2. PICK h \in list : <<h.id, "">> = plain.home
        BY <1>7, <4>1 DEF Listening!Settled
      <4>3. h.id = item.homeId
        <5>1. \A other : plain.home = <<other, "">> <=> item.homeId = other
          BY <4>1, HomeIdIs
        <5>2. plain.home = <<h.id, "">>
          BY <4>2
        <5> QED BY <5>1, <5>2
      <4>4. plain.home = here <=> event.home = item.homeId
        BY <4>1, HomeIdIs
      <4> QED BY <3>1, <4>1, <4>3, <4>4
    <3>2. CASE item.homeId = ""
      <4>1. item.home = Listening!NoName
        BY <1>2, <1>5, <1>7, <3>2 DEF Listening!Settled
      <4> QED BY <1>5, <3>2, <4>1
    <3> QED BY <3>1, <3>2
  <2> HIDE DEF Rest, AtHome, here
  <2> QED BY <1>3, <1>4, <2>1, <2>2, <2>3
<1>8. CASE ~Listening!Settled(list, plain.home)
  <2>1. plain.home # Listening!NoName /\ \A h \in list : <<h.id, "">> # plain.home
    BY <1>8 DEF Listening!Settled
  <2> DEFINE only == CHOOSE id \in named : TRUE
  <2>2. /\ spec.slug = plain.slug
        /\ spec.enabled <=> plain.enabled /\ named # {}
        /\ spec.triggers = plain.triggers /\ spec.scenario = plain.scenario
        /\ named # {} => spec.home = <<only, "">>
    <3> DEFINE place == IF named = {} THEN plain.home ELSE <<only, "">>
               on == plain.enabled /\ named # {}
    <3>1. spec = [slug |-> plain.slug, enabled |-> on, triggers |-> plain.triggers,
                  scenario |-> plain.scenario, home |-> place]
      BY <1>8 DEF Listening!Resolved, Listening!Listener, named
    <3>2. named # {} => place = <<only, "">>
      OBVIOUS
    <3> HIDE DEF place, spec, only
    <3> QED BY <3>1, <3>2
  <2>3. named # {} => only \in named
    OBVIOUS
  <2> HIDE DEF spec, only
  <2>4. AtHome <=> event.home \in named
    <3>1. CASE item.homeId # ""
      <4>1. Listening!Word(plain.home) = item.homeId
        BY <1>5, <3>1, HomeIdIs
      <4>2. named = {}
        BY <1>2, <1>6, <4>1
      <4>3. ASSUME NEW h \in list PROVE h.id # item.homeId
        BY <1>5, <2>1, <3>1
      <4> QED BY <3>1, <4>2, <4>3
    <3>2. CASE item.homeId = ""
      <4>1. plain.home = item.home /\ item.home # Listening!NoName
        BY <1>5, <2>1, <3>2
      <4> QED BY <1>6, <3>2, <4>1
    <3> QED BY <3>1, <3>2
  <2>5. CASE named = {}
    <3>1. ~Listening!MatchListener(spec, event)
      BY <2>2, <2>5 DEF Listening!MatchListener
    <3>2. ~AtHome
      BY <2>4, <2>5
    <3> HIDE DEF Rest, AtHome
    <3> QED BY <1>3, <1>4, <2>2, <3>1, <3>2
  <2>6. CASE named # {}
    <3>1. \A x \in named : x = only /\ x # ""
      <4> SUFFICES ASSUME NEW x \in named PROVE x = only /\ x # ""
        OBVIOUS
      <4>1. PICK h \in list : h.id = x /\ Listening!Word(h.name) = Listening!Word(plain.home)
        BY <1>6
      <4>2. PICK g \in list :
                g.id = only /\ Listening!Word(g.name) = Listening!Word(plain.home)
        BY <1>6, <2>3, <2>6
      <4> QED BY <1>2, <4>1, <4>2
    <3>2. spec.home # Listening!NoName
      BY <2>2, <2>3, <2>6, <3>1, HomeIdIs
    <3>3. event.home \in named <=> spec.home = here
      <4>1. spec.home = here <=> only = event.home
        BY <2>2, <2>6, HomeIdIs
      <4> QED BY <2>3, <2>6, <3>1, <4>1
    <3>4. Listening!MatchListener(spec, event) <=> Rest /\ spec.home = here
      BY <2>2, <2>6, <3>2 DEF Listening!MatchListener
    <3> HIDE DEF Rest, AtHome, here
    <3> QED BY <1>3, <1>4, <2>2, <2>4, <3>3, <3>4
  <2> QED BY <2>5, <2>6
<1> QED BY <1>7, <1>8

\* A sequence put after one element.
LEMMA AfterOne ==
    ASSUME NEW x, NEW k \in Nat, NEW tail, tail = [i \in 1..k |-> tail[i]]
    PROVE  LET all == <<x>> \o tail
           IN  /\ Len(all) = k + 1 /\ DOMAIN all = 1..k + 1 /\ all[1] = x
               /\ \A i \in 1..k : all[1 + i] = tail[i]
<1> DEFINE S == {x} \cup {tail[i] : i \in 1..k}
           all == <<x>> \o tail
<1>1. tail \in Seq(S) /\ Len(tail) = k
  <2>1. tail \in [1..k -> S]
    BY Zenon
  <2> HIDE DEF S
  <2> QED BY <2>1
<1>2. <<x>> \in Seq(S) /\ Len(<<x>>) = 1 /\ <<x>>[1] = x
  OBVIOUS
<1> HIDE DEF S
<1>3. all \in Seq(S) /\ Len(all) = 1 + k
  BY <1>1, <1>2
<1>4. \A i \in 1..1 + k : all[i] = IF i <= 1 THEN <<x>>[i] ELSE tail[i - 1]
  BY <1>1, <1>2
<1>5. ASSUME NEW i \in 1..k PROVE all[1 + i] = tail[i]
  <2>1. 1 + i \in 1..1 + k /\ ~(1 + i <= 1) /\ 1 + i - 1 = i
    OBVIOUS
  <2> HIDE DEF all
  <2>2. \A j \in 1..1 + k : ~(j <= 1) => all[j] = tail[j - 1]
    BY <1>4
  <2>3. \A j : j \in 1..1 + k /\ ~(j <= 1) /\ j - 1 = i => all[j] = tail[i]
    BY <2>2
  <2> QED BY <2>1, <2>3
<1>6. all[1] = x
  <2>1. 1 \in 1..1 + k
    OBVIOUS
  <2> HIDE DEF all
  <2> QED BY <1>2, <1>4, <2>1
<1> QED BY <1>3, <1>5, <1>6

LEMMA ListenersFire == ListenersInv /\ Listening!Next => Listening!FiresAsWritten
<1> SUFFICES ASSUME ListenersInv, Listening!Next, bus' # bus
             PROVE  Listening!FiresAsWritten
  BY DEF Listening!FiresAsWritten
<1>1. PICK event \in Events : Listening!FireEvent(event)
  BY DEF Listening!Next, Listening!EditFile, Listening!HomesChange, Listening!ReloadIntents,
         Listening!ReloadEntry
<1> DEFINE good == Listening!Content(basis[1])
           entries == good.listeners
           Asked(i) == Listening!AskedFor(entries[i], good, basis[2], event)
           asked == {i \in DOMAIN entries : Asked(i)}
           Made(i) == Listening!Resolved(Listening!ListenerOf(entries[i], good.intents), basis[2])
           matches == Listening!InOrder(Len(registry),
                          {i \in DOMAIN registry : Listening!MatchListener(registry[i], event)})
           k == Len(matches)
           Heard(i) == Listening!ListenerEvent(registry[matches[i]], event)
           tail == [i \in DOMAIN matches |-> Heard(i)]
<1>2. basis[1] \in {0} \cup DOMAIN Files /\ basis[2] \in HomeLists
  BY DEF ListenersInv
<1>3. PICK n \in Nat : DOMAIN entries = 1..n
  BY <1>2, ContentIs
<1>4. registry = [i \in 1..n |-> Made(i)]
  <2>1. loaded = [i \in DOMAIN entries |->
                     Listening!ListenerOf(entries[i], good.intents)]
    BY DEF ListenersInv, Listening!Load
  <2>2. registry = [i \in DOMAIN loaded |-> Listening!Resolved(loaded[i], basis[2])]
    BY DEF ListenersInv, Listening!Apply
  <2> HIDE DEF good
  <2> QED BY <1>3, <2>1, <2>2
<1>5. ASSUME NEW i \in 1..n
      PROVE  /\ registry[i].slug = Listening!SlugOf(entries[i])
             /\ Listening!MatchListener(registry[i], event) <=> Asked(i)
  <2>1. registry[i] = Made(i)
    BY <1>4
  <2>2. i \in DOMAIN Listening!Content(basis[1]).listeners
    BY <1>3
  <2> QED BY <1>2, <2>1, <2>2, AskedForIs
<1> HIDE DEF good, Asked, Made
<1>6. Len(registry) = n /\ DOMAIN registry = 1..n
  BY <1>4
<1>7. {i \in DOMAIN registry : Listening!MatchListener(registry[i], event)} = asked
  BY <1>3, <1>5, <1>6
<1>8. Increasing(matches, asked)
  <2>1. asked \in SUBSET (1..n)
    BY <1>3
  <2> HIDE DEF asked
  <2> QED BY <1>6, <1>7, <2>1, InOrderIs
<1>9. bus' = <<Listening!BaseEvent(event)>> \o tail
  BY <1>1 DEF Listening!FireEvent
<1> HIDE DEF matches
<1>10. /\ k \in Nat /\ DOMAIN matches = 1..k
       /\ asked = {matches[i] : i \in 1..k}
       /\ \A i, j \in 1..k : i < j => matches[i] < matches[j]
  BY <1>8 DEF Increasing
<1>11. matches \in [1..k -> asked]
  <2>1. matches \in Seq(Nat)
    BY <1>8 DEF Increasing
  <2>2. matches = [i \in 1..k |-> matches[i]]
    BY <2>1
  <2> HIDE DEF asked, k
  <2> QED BY <1>10, <2>2
<1>12. /\ Len(bus') = k + 1 /\ bus'[1] = Listening!BaseEvent(event)
       /\ \A i \in 1..k : bus'[1 + i] = Heard(i)
  <2>1. tail = [i \in 1..k |-> tail[i]] /\ \A i \in 1..k : tail[i] = Heard(i)
    <3> HIDE DEF k, Heard
    <3> QED BY <1>10
  <2> HIDE DEF tail, k, Heard
  <2> QED BY <1>9, <1>10, <2>1, AfterOne
<1>13. bus'[1].event = event
  <2>1. bus'[1] = Listening!BaseEvent(event)
    BY <1>12
  <2>2. Listening!BaseEvent(event).event = event
    BY DEF Listening!BaseEvent
  <2> QED BY <2>1, <2>2
<1>14. ASSUME NEW i \in 1..k
       PROVE  /\ bus'[1 + i].slug = Listening!SlugOf(entries[matches[i]])
              /\ bus'[1 + i].event = event
  <2>1. matches[i] \in 1..n
    BY <1>3, <1>11
  <2>2. bus'[1 + i] = Heard(i)
    BY <1>12
  <2>3. Heard(i).slug = registry[matches[i]].slug /\ Heard(i).event = event
    BY DEF Listening!ListenerEvent
  <2> HIDE DEF Heard
  <2> QED BY <1>5, <2>1, <2>2, <2>3
<1>15. 1..Len(bus') - 1 = 1..k
  BY <1>10, <1>12
<1> HIDE DEF k
<1>16. asked = {i \in DOMAIN good.listeners :
                   Listening!AskedFor(good.listeners[i], good, basis[2], bus'[1].event)}
  BY <1>13 DEF Asked
<1> HIDE DEF asked, entries
<1>17. \E place \in [1..Len(bus') - 1 -> asked] :
          /\ asked = {place[i] : i \in 1..Len(bus') - 1}
          /\ \A i, j \in 1..Len(bus') - 1 : i < j => place[i] < place[j]
          /\ \A i \in 1..Len(bus') - 1 :
                /\ bus'[1 + i].slug = Listening!SlugOf(entries[place[i]])
                /\ bus'[1 + i].event = bus'[1].event
  BY <1>10, <1>11, <1>13, <1>14, <1>15
<1> QED BY <1>12, <1>13, <1>16, <1>17 DEF good, entries, Listening!FiresAsWritten

-----------------------------------------------------------------------------
(***************************************************************************)
(* Repair of unique ids                                                    *)
(***************************************************************************)

Once(s) == \A i, j \in 1..Len(s) : s[i] = s[j] => i = j
Listed  == Entities \ Unlisted

\* Every record is of an entity of the device and bears its key; a listed entity has one,
\* another one has one under each id.
SoundRecords(list) ==
    /\ Len(list) \in Nat /\ list = [i \in 1..Len(list) |-> list[i]]
    /\ \A i \in 1..Len(list) :
          list[i].of \in offered /\ list[i] = Repair!RecordOf(list[i].uid[1], list[i].of)
    /\ \A i, j \in 1..Len(list) :
          list[i].of = list[j].of /\ (list[i].of \in Listed \/ list[i].uid[1] = list[j].uid[1])
             => i = j

RepairInv == offered \subseteq Entities /\ SoundRecords(records)

\* The records of listed entities among the first n are under the live id.
Moved(list, n, live) == \A i \in 1..n : list[i].of \in Listed => list[i].uid[1] = live

\* A finite set is listed without repetition.
LEMMA ListedIs ==
    ASSUME NEW S, IsFiniteSet(S)
    PROVE  LET s == Repair!SetToSeq(S)
           IN  s \in Seq(S) /\ S = {s[i] : i \in 1..Len(s)} /\ Once(s)
<1> DEFINE s == Repair!SetToSeq(S)
           n == Cardinality(S)
<1>1. Repair!Cardinality(S) = n
  BY DEF Repair!Cardinality, Cardinality
<1>2. s = CHOOSE f \in [1..n -> S] : Repair!IsInjective(f)
  BY <1>1 DEF Repair!SetToSeq
<1>3. n \in Nat
  BY FS_CardinalityType
<1>4. \E f \in [1..n -> S] : Repair!IsInjective(f)
  <2>1. PICK f : f \in Bijection(1..n, S)
    BY FS_CardinalityType DEF ExistsBijection
  <2>2. f \in [1..n -> S] /\ \A i, j \in 1..n : f[i] = f[j] => i = j
    BY <2>1 DEF Bijection, Injection, IsInjective
  <2> QED BY <2>2 DEF Repair!IsInjective
<1> HIDE DEF s, n
<1>5. s \in [1..n -> S] /\ Repair!IsInjective(s)
  BY <1>2, <1>4
<1>6. s \in Seq(S) /\ Len(s) = n /\ DOMAIN s = 1..n
  BY <1>3, <1>5
<1>7. Once(s)
  BY <1>5, <1>6 DEF Once, Repair!IsInjective
<1>8. S = {s[i] : i \in 1..n}
  <2>1. s \in Injection(1..n, S)
    BY <1>5, <1>6, <1>7 DEF Once, Injection, IsInjective
  <2>2. IsFiniteSet(1..n) /\ Cardinality(1..n) = n
    <3>1. /\ IsFiniteSet(1..n)
          /\ Cardinality(1..n) = IF 1 > n THEN 0 ELSE n - 1 + 1
      BY <1>3, FS_Interval
    <3> QED BY <1>3, <3>1
  <2>3. s \in Surjection(1..n, S)
    BY <2>1, <2>2, FS_Injection DEF n
  <2> QED BY <1>5, <2>3 DEF Surjection
<1> QED BY <1>6, <1>7, <1>8 DEF s

\* A key is a sequence, and a unique id one that begins with the id.
LEMMA UidIs ==
    ASSUME NEW key, IsSequence(key), NEW id
    PROVE  LET whole == Repair!UniqueId(id, key)
           IN  \E l \in Nat :
                  /\ Len(key) = l /\ key = [i \in 1..l |-> key[i]]
                  /\ Len(whole) = l + 1 /\ whole[1] = id
                  /\ \A i \in 1..l : whole[i + 1] = key[i]
                  /\ whole = [i \in 1..l + 1 |-> whole[i]]
<1> DEFINE W == {key[i] : i \in DOMAIN key}
           S == W \cup {id}
           l == Len(key)
           whole == Repair!UniqueId(id, key)
<1> SUFFICES /\ l \in Nat /\ key = [i \in 1..l |-> key[i]]
             /\ Len(whole) = l + 1 /\ whole[1] = id
             /\ \A i \in 1..l : whole[i + 1] = key[i]
             /\ whole = [i \in 1..l + 1 |-> whole[i]]
  OBVIOUS
<1>1. key \in Seq(W)
  BY DEF IsSequence
<1> HIDE DEF W
<1>2. l \in Nat /\ key = [i \in 1..l |-> key[i]] /\ \A i \in 1..l : key[i] \in W
  BY <1>1
<1>3. key \in Seq(S) /\ <<id>> \in Seq(S) /\ Len(<<id>>) = 1 /\ <<id>>[1] = id
  BY <1>1
<1> HIDE DEF S, l
<1>4. whole = <<id>> \o key
  BY DEF Repair!UniqueId
<1>5. /\ whole \in Seq(S) /\ Len(whole) = 1 + l
      /\ \A i \in 1..1 + l : whole[i] = IF i <= 1 THEN <<id>>[i] ELSE key[i - 1]
  BY <1>3, <1>4 DEF l
<1> HIDE DEF whole
<1>6. whole[1] = id
  <2>1. 1 \in 1..1 + l
    BY <1>2
  <2> QED BY <1>3, <1>5, <2>1
<1>7. ASSUME NEW i \in 1..l PROVE whole[i + 1] = key[i]
  <2>1. i + 1 \in 1..1 + l /\ ~(i + 1 <= 1) /\ i + 1 - 1 = i
    BY <1>2
  <2>2. \A j : j \in 1..1 + l /\ ~(j <= 1) /\ j - 1 = i => whole[j] = key[i]
    BY <1>5
  <2> QED BY <2>1, <2>2
<1>8. whole = [i \in 1..l + 1 |-> whole[i]]
  BY <1>2, <1>5
<1>9. Len(whole) = l + 1
  BY <1>2, <1>5
<1> QED BY <1>2, <1>6, <1>7, <1>8, <1>9, Zenon

LEMMA UidsDiffer ==
    ASSUME NEW a, IsSequence(a), NEW b, IsSequence(b), NEW id, NEW other,
           Repair!UniqueId(id, a) = Repair!UniqueId(other, b)
    PROVE  id = other /\ a = b
<1> DEFINE whole == Repair!UniqueId(id, a)
<1>1. PICK l \in Nat : /\ Len(a) = l /\ a = [i \in 1..l |-> a[i]]
                       /\ Len(whole) = l + 1 /\ whole[1] = id
                       /\ \A i \in 1..l : whole[i + 1] = a[i]
  BY UidIs
<1>2. PICK m \in Nat : /\ Len(b) = m /\ b = [i \in 1..m |-> b[i]]
                       /\ Len(whole) = m + 1 /\ whole[1] = other
                       /\ \A i \in 1..m : whole[i + 1] = b[i]
  BY UidIs
<1> HIDE DEF whole
<1>3. l = m
  BY <1>1, <1>2
<1>4. \A i \in 1..l : a[i] = b[i]
  BY <1>1, <1>2, <1>3
<1> QED BY <1>1, <1>2, <1>3, <1>4

LEMMA KeyIsEmpty == ASSUME NEW key, IsSequence(key) PROVE key = <<>> <=> Len(key) = 0
<1> DEFINE W == {key[i] : i \in DOMAIN key}
<1>1. key \in Seq(W)
  BY DEF IsSequence
<1> HIDE DEF W
<1> QED BY <1>1

\* Of the keys a unique id ends with its own is the longest.
LEMMA EndsIs ==
    ASSUME NEW key, IsSequence(key), NEW id
    PROVE  /\ Repair!EndsWith(Repair!UniqueId(id, key), key)
           /\ \A other : IsSequence(other) /\ Repair!EndsWith(Repair!UniqueId(id, key), other) =>
                     /\ Len(other) <= Len(key)
                     /\ Len(other) = Len(key) => other = key
                     /\ other # <<>> => key # <<>> /\ other[Len(other)] = key[Len(key)]
<1> DEFINE whole == Repair!UniqueId(id, key)
<1>1. PICK l \in Nat : /\ Len(key) = l /\ key = [i \in 1..l |-> key[i]]
                       /\ Len(whole) = l + 1
                       /\ \A i \in 1..l : whole[i + 1] = key[i]
                       /\ whole = [i \in 1..l + 1 |-> whole[i]]
  BY UidIs
<1> HIDE DEF whole
<1> DEFINE end == SubSeq(whole, Len(whole) - l + 1, Len(whole))
<1>2. end = key
  <2> DEFINE S == {whole[i] : i \in 1..l + 1}
  <2>1. whole \in Seq(S)
    <3>1. whole \in [1..l + 1 -> S]
      BY <1>1
    <3> HIDE DEF S
    <3> QED BY <1>1, <3>1
  <2>2. Len(whole) - l + 1 = 2 /\ Len(whole) = l + 1
    BY <1>1
  <2>3. \A i \in 2..l + 1 : whole[i] \in S
    OBVIOUS
  <2> HIDE DEF S
  <2>4. /\ SubSeq(whole, 2, l + 1) \in Seq(S)
        /\ Len(SubSeq(whole, 2, l + 1)) = IF 2 <= l + 1 THEN l + 1 - 2 + 1 ELSE 0
        /\ \A i \in 1..l + 1 - 2 + 1 : SubSeq(whole, 2, l + 1)[i] = whole[2 + i - 1]
    BY <2>3, SubSeqProperties
  <2>5. /\ Len(SubSeq(whole, 2, l + 1)) = l
        /\ \A i \in 1..l : SubSeq(whole, 2, l + 1)[i] = key[i]
    <3>1. l + 1 - 2 + 1 = l
      OBVIOUS
    <3>2. ASSUME NEW i \in 1..l PROVE SubSeq(whole, 2, l + 1)[i] = key[i]
      <4>1. 2 + i - 1 = i + 1
        OBVIOUS
      <4> QED BY <1>1, <2>4, <3>1, <4>1
    <3> QED BY <2>4, <3>1, <3>2
  <2>6. SubSeq(whole, 2, l + 1) = [i \in 1..l |-> SubSeq(whole, 2, l + 1)[i]]
    BY <2>4, <2>5
  <2>7. SubSeq(whole, 2, l + 1) = key
    BY <1>1, <2>5, <2>6
  <2> QED BY <2>2, <2>7
<1>3. Repair!EndsWith(whole, key)
  <2>1. Len(whole) > Len(key) /\ Len(key) = l
    BY <1>1
  <2> QED BY <1>2, <2>1 DEF Repair!EndsWith
<1>4. ASSUME NEW other, IsSequence(other), Repair!EndsWith(whole, other)
      PROVE  /\ Len(other) <= Len(key) /\ (Len(other) = Len(key) => other = key)
             /\ other # <<>> => key # <<>> /\ other[Len(other)] = key[Len(key)]
  <2>1. Len(other) \in Nat
    BY <1>4, UidIs
  <2>2. Len(whole) > Len(other) /\ SubSeq(whole, Len(whole) - Len(other) + 1, Len(whole)) = other
    BY <1>4 DEF Repair!EndsWith
  <2>3. Len(other) <= Len(key)
    BY <1>1, <2>1, <2>2
  <2>4. Len(other) = Len(key) => other = key
    BY <1>1, <1>2, <2>2
  <2>5. ASSUME other # <<>> PROVE key # <<>> /\ other[Len(other)] = key[Len(key)]
    <3> DEFINE k == Len(other)
    <3>1. k \in 1..l
      BY <1>1, <1>4, <2>1, <2>3, <2>5, KeyIsEmpty
    <3>2. Len(whole) - k + 1 = l - k + 2 /\ Len(whole) = l + 1
      BY <1>1, <3>1
    <3>3. SubSeq(whole, l - k + 2, l + 1) = other
      BY <2>2, <3>2
    <3> DEFINE W == {whole[i] : i \in 1..l + 1}
    <3>4. whole \in Seq(W) /\ \A i \in (l - k + 2)..(l + 1) : whole[i] \in W
      <4>1. whole \in [1..l + 1 -> W] /\ l + 1 \in Nat
        BY <1>1
      <4>2. \A i \in (l - k + 2)..(l + 1) : i \in 1..l + 1
        BY <3>1
      <4> HIDE DEF W
      <4> QED BY <4>1, <4>2
    <3> HIDE DEF W, k
    <3>5. \A i \in 1..(l + 1 - (l - k + 2) + 1) :
              SubSeq(whole, l - k + 2, l + 1)[i] = whole[l - k + 2 + i - 1]
      BY <3>1, <3>4, SubSeqProperties
    <3>6. l + 1 - (l - k + 2) + 1 = k /\ l - k + 2 + k - 1 = l + 1 /\ k \in 1..k
      BY <3>1
    <3>7. other[k] = whole[l + 1]
      BY <3>3, <3>5, <3>6
    <3>8. whole[l + 1] = key[l] /\ l # 0
      <4>1. l \in 1..l /\ l # 0
        BY <3>1
      <4> QED BY <1>1, <4>1
    <3> QED BY <1>1, <3>7, <3>8, KeyIsEmpty DEF k
  <2> QED BY <2>3, <2>4, <2>5
<1> QED BY <1>3, <1>4 DEF whole

LEMMA EntityIs ==
    ASSUME NEW e \in Entities, NEW id
    PROVE  /\ e = [domain |-> e.domain, key |-> e.key] /\ IsSequence(e.key)
           /\ LET r == Repair!RecordOf(id, e) IN
                 /\ r.of = e /\ r.domain = e.domain /\ r.uid = Repair!UniqueId(id, e.key)
                 /\ r.uid[1] = id
<1>1. e = [domain |-> e.domain, key |-> e.key] /\ IsSequence(e.key)
  BY KeyAssumption
<1>2. Repair!UniqueId(id, e.key)[1] = id
  BY <1>1, UidIs
<1> QED BY <1>1, <1>2 DEF Repair!RecordOf

\* A record of a listed entity that was left behind is given the live id and its own key,
\* one of another entity nothing.
LEMMA RetargetIs ==
    ASSUME offered \subseteq Entities, NEW e \in offered, NEW id, NEW live
    PROVE  Repair!Retarget(Repair!UniqueId(id, e.key), live) =
               IF e \in Listed THEN {Repair!UniqueId(live, e.key)} ELSE {}
<1> DEFINE key == e.key
           whole == Repair!UniqueId(id, key)
           fits == {k \in Repair!KnownSuffixes : Repair!EndsWith(whole, k)}
<1>1. IsSequence(key) /\ Len(key) \in Nat /\ Len(whole) = Len(key) + 1
  BY UidIs, EntityIs
<1>2. \A other \in fits :
         /\ other # <<>> /\ Len(other) \in Nat /\ \E x \in Listed : other = x.key
         /\ Len(other) <= Len(key)
         /\ Len(other) = Len(key) => other = key
         /\ key # <<>> /\ other[Len(other)] = key[Len(key)]
  <2> SUFFICES ASSUME NEW other \in fits
               PROVE  /\ other # <<>> /\ Len(other) \in Nat /\ \E x \in Listed : other = x.key
                      /\ Len(other) <= Len(key)
                      /\ Len(other) = Len(key) => other = key
                      /\ key # <<>> /\ other[Len(other)] = key[Len(key)]
    OBVIOUS
  <2>1. /\ other # <<>> /\ Repair!EndsWith(whole, other)
        /\ \E x \in offered \ Unlisted : other = x.key
    BY DEF Repair!KnownSuffixes
  <2>2. PICK x \in Listed : other = x.key
    BY <2>1 DEF Listed
  <2>3. IsSequence(other)
    BY <2>2, KeyAssumption DEF Listed
  <2>4. Len(other) \in Nat
    BY <2>3, UidIs
  <2> HIDE DEF fits, key
  <2> QED BY <1>1, <2>1, <2>2, <2>3, <2>4, EndsIs
<1>3. CASE e \notin Listed
  <2>1. e \in Unlisted /\ key # <<>>
    BY <1>3, KeyAssumption DEF Listed
  <2>2. fits = {}
    <3> SUFFICES ASSUME NEW other \in fits PROVE FALSE
      OBVIOUS
    <3>1. PICK x \in Listed : other = x.key
      BY <1>2
    <3>2. other # <<>> /\ other[Len(other)] = key[Len(key)]
      BY <1>2
    <3> QED BY <2>1, <3>1, <3>2, KeyAssumption DEF Listed
  <2>3. Len(whole) # 1
    BY <1>1, <2>1, KeyIsEmpty
  <2> HIDE DEF whole
  <2> QED BY <1>3, <2>2, <2>3 DEF Repair!Retarget, whole, fits
<1>4. CASE e \in Listed /\ key = <<>>
  <2>1. Len(key) = 0 /\ Len(whole) = 1
    BY <1>1, <1>4
  <2>2. fits = {}
    BY <1>2, <1>4
  <2> HIDE DEF whole
  <2> QED BY <1>4, <2>1, <2>2 DEF Repair!Retarget, whole
<1>5. CASE e \in Listed /\ key # <<>>
  <2>1. key \in fits
    BY <1>1, <1>5, EndsIs DEF Repair!KnownSuffixes, Listed
  <2> DEFINE first == Repair!First(fits)
  <2>2. first = CHOOSE k \in fits : \A other \in fits : ~Repair!Before(other, k)
    BY DEF Repair!First
  <2> HIDE DEF fits, first, key
  <2>3. \A other \in fits : ~Repair!Before(other, key)
    BY <1>1, <1>2 DEF Repair!Before
  <2>4. first \in fits /\ \A other \in fits : ~Repair!Before(other, first)
    BY <2>1, <2>2, <2>3
  <2>5. first = key
    BY <1>1, <1>2, <2>1, <2>4 DEF Repair!Before
  <2>6. fits # {}
    BY <2>1
  <2> HIDE DEF whole
  <2> QED BY <1>5, <2>5, <2>6 DEF Repair!Retarget, whole, first, fits, key
<1> QED BY <1>3, <1>4, <1>5

\* What the records are once the first n have been repaired.
Stage(list, n, live) ==
    [i \in 1..Len(list) |-> IF i <= n /\ list[i].of \in Listed
                            THEN Repair!RecordOf(live, list[i].of) ELSE list[i]]

LEMMA StageIs ==
    ASSUME offered \subseteq Entities, NEW list, SoundRecords(list), NEW live, NEW n \in Nat
    PROVE  LET stage_n == Stage(list, n, live) IN
           /\ SoundRecords(stage_n) /\ Len(stage_n) = Len(list)
           /\ \A i \in 1..Len(list) :
                 /\ stage_n[i].of = list[i].of
                 /\ i <= n /\ list[i].of \in Listed => stage_n[i].uid[1] = live
<1> DEFINE m == Len(list)
           l == Stage(list, n, live)
<1>1. /\ m \in Nat /\ list = [i \in 1..m |-> list[i]]
      /\ \A i \in 1..m : /\ list[i].of \in offered /\ list[i].of \in Entities
                         /\ list[i] = Repair!RecordOf(list[i].uid[1], list[i].of)
  BY DEF SoundRecords
<1>2. l = [i \in 1..m |-> l[i]] /\ Len(l) = m
  BY <1>1 DEF Stage
<1>3. ASSUME NEW i \in 1..m
      PROVE  /\ l[i].of = list[i].of /\ l[i] = Repair!RecordOf(l[i].uid[1], l[i].of)
             /\ list[i].of \notin Listed => l[i] = list[i]
             /\ i <= n /\ list[i].of \in Listed => l[i].uid[1] = live
  <2>1. l[i] = IF i <= n /\ list[i].of \in Listed
               THEN Repair!RecordOf(live, list[i].of) ELSE list[i]
    BY DEF Stage
  <2> HIDE DEF l
  <2>2. LET r == Repair!RecordOf(live, list[i].of) IN r.of = list[i].of /\ r.uid[1] = live
    BY <1>1, EntityIs
  <2> QED BY <1>1, <2>1, <2>2
<1> HIDE DEF l
<1>4. ASSUME NEW i \in 1..m, NEW j \in 1..m, l[i].of = l[j].of,
             l[i].of \in Listed \/ l[i].uid[1] = l[j].uid[1]
      PROVE  i = j
  <2>1. list[i].of = list[j].of
    BY <1>3, <1>4
  <2>2. CASE list[i].of \in Listed
    BY <2>1, <2>2 DEF SoundRecords
  <2>3. CASE list[i].of \notin Listed
    BY <1>3, <1>4, <2>1, <2>3 DEF SoundRecords
  <2> QED BY <2>2, <2>3
<1>5. SoundRecords(l)
  BY <1>1, <1>2, <1>3, <1>4 DEF SoundRecords
<1> QED BY <1>2, <1>3, <1>5 DEF l

LEMMA RepairOneIs ==
    ASSUME offered \subseteq Entities, NEW list, SoundRecords(list), NEW live,
           NEW n \in 1..Len(list)
    PROVE  Repair!RepairOne(Stage(list, n - 1, live), n, live) = Stage(list, n, live)
<1> DEFINE m == Len(list)
           l == Stage(list, n - 1, live)
           next == Stage(list, n, live)
           id == l[n].uid[1]
           e == l[n].of
           target == Repair!UniqueId(live, e.key)
<1>1. /\ m \in Nat /\ n \in 1..m /\ n - 1 \in Nat
      /\ l = [i \in 1..m |-> l[i]] /\ DOMAIN l = 1..m
      /\ next = [i \in 1..m |-> next[i]]
  BY DEF SoundRecords, Stage
<1>2. /\ SoundRecords(l) /\ Len(l) = m
      /\ \A i \in 1..m : /\ l[i].of \in Entities /\ l[i].of \in offered
                         /\ l[i] = Repair!RecordOf(l[i].uid[1], l[i].of)
  <2>1. SoundRecords(l) /\ Len(l) = m
    BY <1>1, StageIs
  <2> QED BY <2>1 DEF SoundRecords
<1>3. /\ \A i \in 1..m : i # n => next[i] = l[i]
      /\ next[n] = IF e \in Listed THEN Repair!RecordOf(live, e) ELSE l[n]
      /\ e = list[n].of
  <2>1. \A i \in 1..m : i # n => (i <= n <=> i <= n - 1)
    BY <1>1
  <2>2. ~(n <= n - 1) /\ n <= n
    BY <1>1
  <2> QED BY <1>1, <2>1, <2>2 DEF Stage
<1> HIDE DEF l, next
<1>4. /\ e \in offered /\ e \in Entities /\ l[n] = Repair!RecordOf(id, e)
      /\ l[n].uid = Repair!UniqueId(id, e.key) /\ l[n].domain = e.domain
  <2>1. e \in offered /\ e \in Entities /\ l[n] = Repair!RecordOf(id, e)
    BY <1>1, <1>2
  <2> HIDE DEF id, e
  <2>2. LET r == Repair!RecordOf(id, e) IN r.uid = Repair!UniqueId(id, e.key) /\ r.domain = e.domain
    BY <2>1, EntityIs
  <2> QED BY <2>1, <2>2
<1>5. Repair!Retarget(l[n].uid, live) = IF e \in Listed THEN {target} ELSE {}
  <2>1. Repair!Retarget(Repair!UniqueId(id, e.key), live) =
            IF e \in Listed THEN {Repair!UniqueId(live, e.key)} ELSE {}
    <3> HIDE DEF id, e
    <3> QED BY <1>4, RetargetIs
  <2> QED BY <1>4, <2>1
<1>6. CASE e \notin Listed \/ id = live
  <2>1. Repair!RepairOne(l, n, live) = l
    <3> HIDE DEF target, e
    <3> QED BY <1>5, <1>6 DEF Repair!RepairOne
  <2>2. next[n] = l[n]
    <3> HIDE DEF id, e
    <3> QED BY <1>3, <1>4, <1>6
  <2>3. \A i \in 1..m : next[i] = l[i]
    BY <1>3, <2>2
  <2>4. l = next
    BY <1>1, <2>3
  <2> QED BY <2>1, <2>4 DEF l, next
<1>7. CASE e \in Listed /\ id # live
  <2>1. ~Repair!Taken(l, target, l[n].domain)
    <3> SUFFICES ASSUME NEW i \in 1..m, l[i].uid = target, l[i].domain = e.domain
                 PROVE  FALSE
      BY <1>1, <1>4 DEF Repair!Taken
    <3> DEFINE x == l[i].of
               under == l[i].uid[1]
    <3>1. /\ x \in Entities /\ l[i] = Repair!RecordOf(under, x)
          /\ l[i].domain = x.domain /\ l[i].uid = Repair!UniqueId(under, x.key)
      <4>1. x \in Entities /\ l[i] = Repair!RecordOf(under, x)
        BY <1>2
      <4> HIDE DEF x, under
      <4>2. LET r == Repair!RecordOf(under, x)
            IN  r.uid = Repair!UniqueId(under, x.key) /\ r.domain = x.domain
        BY <4>1, EntityIs
      <4> QED BY <4>1, <4>2
    <3>2. under = live /\ x.key = e.key
      <4>1. Repair!UniqueId(under, x.key) = Repair!UniqueId(live, e.key)
        BY <3>1
      <4>2. IsSequence(x.key) /\ IsSequence(e.key)
        BY <1>4, <3>1, EntityIs
      <4> HIDE DEF under, x, e
      <4> QED BY <4>1, <4>2, UidsDiffer
    <3>3. x = e
      <4>1. x = [domain |-> x.domain, key |-> x.key] /\ e = [domain |-> e.domain, key |-> e.key]
        BY <1>4, <3>1, EntityIs
      <4>2. x.domain = e.domain
        BY <3>1
      <4> HIDE DEF x, e
      <4> QED BY <3>2, <4>1, <4>2
    <3>4. i = n
      BY <1>1, <1>2, <1>7, <3>3 DEF SoundRecords
    <3> QED BY <1>7, <3>2, <3>4
  <2>2. Repair!RepairOne(l, n, live) = [l EXCEPT ![n].uid = target]
    <3> HIDE DEF target, e
    <3> QED BY <1>5, <1>7, <2>1 DEF Repair!RepairOne
  <2>3. [l[n] EXCEPT !.uid = target] = next[n]
    <3>1. next[n] = Repair!RecordOf(live, e)
      BY <1>3, <1>7
    <3> HIDE DEF id, e
    <3> QED BY <1>4, <3>1 DEF Repair!RecordOf
  <2>4. [l EXCEPT ![n].uid = target] = next
    <3> HIDE DEF target
    <3> QED BY <1>1, <1>3, <2>3
  <2> QED BY <2>2, <2>4 DEF l, next
<1> QED BY <1>6, <1>7

LEMMA RepairedIs ==
    ASSUME offered \subseteq Entities, NEW list, SoundRecords(list), NEW live
    PROVE  Repair!Repaired(list, live) = Stage(list, Len(list), live)
<1> DEFINE m == Len(list)
           At(n) == Stage(list, n, live)
           F(f) == [n \in 0..m |->
                       IF n = 0 THEN list ELSE Repair!RepairOne(f[n - 1], n, live)]
           stages == [n \in 0..m |-> At(n)]
           done == CHOOSE f : f = F(f)
<1>1. m \in Nat
  BY DEF SoundRecords
<1>2. At(0) = list
  <2>1. \A i \in 1..m : ~(i <= 0)
    BY <1>1
  <2>2. list = [i \in 1..m |-> list[i]]
    BY DEF SoundRecords
  <2> QED BY <2>1, <2>2 DEF Stage
<1>3. Repair!Repaired(list, live) = done[m]
  <2> HIDE DEF m
  <2>1. Repair!Repaired(list, live) =
            LET g == CHOOSE f : f = [n \in 0..Len(list) |->
                          IF n = 0 THEN list ELSE Repair!RepairOne(f[n - 1], n, live)]
            IN  g[Len(list)]
    BY DEF Repair!Repaired
  <2> QED BY <2>1 DEF m
<1> HIDE DEF At
<1>4. \A n \in 1..m : Repair!RepairOne(At(n - 1), n, live) = At(n)
  BY RepairOneIs DEF At
<1>5. stages = F(stages)
  <2> SUFFICES ASSUME NEW n \in 0..m PROVE stages[n] = F(stages)[n]
    OBVIOUS
  <2>1. CASE n = 0
    BY <1>2, <2>1
  <2>2. CASE n # 0
    <3>1. n \in 1..m /\ n - 1 \in 0..m
      BY <1>1, <2>2
    <3> QED BY <1>4, <2>2, <3>1
  <2> QED BY <2>1, <2>2
<1>6. done = F(done)
  <2> HIDE DEF F, stages
  <2> QED BY <1>5
<1> HIDE DEF done, m, stages
<1> DEFINE T == {n \in 0..m : done[n] # At(n)}
<1>7. T = {}
  <2> SUFFICES ASSUME T # {} PROVE FALSE
    OBVIOUS
  <2>1. PICK n \in T : \A x \in T : n <= x
    <3>1. T \in SUBSET Nat
      OBVIOUS
    <3> HIDE DEF T
    <3> QED BY <3>1, LeastOf
  <2>2. done[n] = IF n = 0 THEN list ELSE Repair!RepairOne(done[n - 1], n, live)
    BY <1>6
  <2>3. n # 0
    BY <1>2, <2>2
  <2>4. n \in 1..m /\ n - 1 \in 0..m /\ n - 1 \notin T
    BY <1>1, <2>1, <2>3
  <2>5. done[n - 1] = At(n - 1)
    BY <2>4
  <2> QED BY <1>4, <2>2, <2>3, <2>4, <2>5
<1>8. m \in 0..m
  BY <1>1
<1>9. done[m] = At(m)
  BY <1>7, <1>8
<1> QED BY <1>3, <1>9 DEF At, m

\* Creating the entities that have no record under the live id adds theirs, in some order.
LEMMA CreatedIs ==
    ASSUME offered \subseteq Entities, NEW list, SoundRecords(list), NEW live,
           \A i \in 1..Len(list) : list[i].of \in Listed => list[i].uid[1] = live
    PROVE  LET all == Repair!Created(list, live) IN
           /\ SoundRecords(all)
           /\ \A i \in 1..Len(all) : all[i].of \in Listed => all[i].uid[1] = live
           /\ \A e \in offered : \E i \in 1..Len(all) : all[i].of = e /\ all[i].uid[1] = live
<1> DEFINE m == Len(list)
           missing == {e \in offered : ~Repair!Taken(list, Repair!UniqueId(live, e.key), e.domain)}
           S == {Repair!RecordOf(live, e) : e \in missing}
           fresh == Repair!SetToSeq(S)
           k == Len(fresh)
           all == list \o fresh
<1>1. /\ m \in Nat /\ list = [i \in 1..m |-> list[i]] /\ DOMAIN list = 1..m
      /\ \A i \in 1..m : /\ list[i].of \in offered /\ list[i].of \in Entities
                         /\ list[i] = Repair!RecordOf(list[i].uid[1], list[i].of)
  BY DEF SoundRecords
<1>2. Repair!Created(list, live) = all
  BY DEF Repair!Created
<1>3. ASSUME NEW e \in offered
      PROVE  e \notin missing <=> \E i \in 1..m : list[i].of = e /\ list[i].uid[1] = live
  <2> DEFINE uid_e == Repair!UniqueId(live, e.key)
  <2>1. e \in Entities
    OBVIOUS
  <2>2. ASSUME NEW i \in 1..m
        PROVE  list[i].uid = uid_e /\ list[i].domain = e.domain
                  <=> list[i].of = e /\ list[i].uid[1] = live
    <3> DEFINE x == list[i].of
               under == list[i].uid[1]
    <3>1. /\ x \in Entities
          /\ list[i].domain = x.domain /\ list[i].uid = Repair!UniqueId(under, x.key)
      <4>1. x \in Entities /\ list[i] = Repair!RecordOf(under, x)
        BY <1>1
      <4> HIDE DEF x, under
      <4>2. LET r == Repair!RecordOf(under, x)
            IN  r.uid = Repair!UniqueId(under, x.key) /\ r.domain = x.domain
        BY <4>1, EntityIs
      <4> QED BY <4>1, <4>2
    <3>2. /\ IsSequence(x.key) /\ IsSequence(e.key)
          /\ x = [domain |-> x.domain, key |-> x.key] /\ e = [domain |-> e.domain, key |-> e.key]
      BY <2>1, <3>1, EntityIs
    <3> HIDE DEF x, under
    <3>3. ASSUME list[i].uid = uid_e, list[i].domain = e.domain
          PROVE  x = e /\ under = live
      <4>1. under = live /\ x.key = e.key
        BY <3>1, <3>2, <3>3, UidsDiffer
      <4> QED BY <3>1, <3>2, <3>3, <4>1
    <3>4. x = e /\ under = live => list[i].uid = uid_e /\ list[i].domain = e.domain
      BY <3>1
    <3> QED BY <3>3, <3>4 DEF x, under
  <2> HIDE DEF uid_e
  <2> QED BY <1>1, <2>2 DEF Repair!Taken, uid_e
<1>4. IsFiniteSet(S)
  <2>1. IsFiniteSet(missing)
    <3>1. missing \subseteq Entities /\ IsFiniteSet(Entities)
      BY KeyAssumption
    <3> HIDE DEF missing
    <3> QED BY <3>1, FS_Subset
  <2> DEFINE g == [e \in missing |-> Repair!RecordOf(live, e)]
  <2>2. g \in Surjection(missing, S)
    BY DEF Surjection
  <2> HIDE DEF g, S
  <2> QED BY <2>1, <2>2, FS_Surjection
<1>5. fresh \in Seq(S) /\ S = {fresh[i] : i \in 1..k} /\ Once(fresh)
  <2> HIDE DEF S
  <2> QED BY <1>4, ListedIs
<1>6. k \in Nat /\ \A j \in 1..k : fresh[j] \in S
  <2> HIDE DEF S, fresh
  <2> QED BY <1>5, ElementOfSeq
<1>7. ASSUME NEW j \in 1..k
      PROVE  /\ fresh[j].of \in missing /\ fresh[j].of \in offered
             /\ fresh[j].uid[1] = live /\ fresh[j] = Repair!RecordOf(live, fresh[j].of)
  <2>1. PICK e \in missing : fresh[j] = Repair!RecordOf(live, e)
    BY <1>6
  <2>2. LET r == Repair!RecordOf(live, e) IN r.of = e /\ r.uid[1] = live
    BY <2>1, EntityIs
  <2> HIDE DEF fresh
  <2> QED BY <2>1, <2>2
<1>8. \A e \in missing : \E j \in 1..k : fresh[j].of = e
  <2> SUFFICES ASSUME NEW e \in missing PROVE \E j \in 1..k : fresh[j].of = e
    OBVIOUS
  <2>1. Repair!RecordOf(live, e).of = e
    BY DEF Repair!RecordOf
  <2>2. Repair!RecordOf(live, e) \in S
    OBVIOUS
  <2> HIDE DEF S, fresh
  <2> QED BY <1>5, <2>1, <2>2
<1> HIDE DEF S, fresh, missing
<1>9. /\ Len(all) = m + k /\ all = [i \in 1..m + k |-> all[i]]
      /\ \A i \in 1..m : all[i] = list[i]
      /\ \A j \in 1..k : all[m + j] = fresh[j]
  <2> DEFINE R == {list[i] : i \in 1..m} \cup S
  <2>1. list \in Seq(R) /\ fresh \in Seq(R)
    <3>1. list \in [1..m -> R]
      BY <1>1
    <3>2. fresh \in [1..k -> R]
      BY <1>5, <1>6
    <3> HIDE DEF R
    <3> QED BY <1>1, <1>6, <3>1, <3>2
  <2> HIDE DEF R
  <2>2. /\ all \in Seq(R) /\ Len(all) = m + k
        /\ \A i \in 1..m + k : all[i] = IF i <= m THEN list[i] ELSE fresh[i - m]
    BY <2>1, <1>1, <1>6
  <2> HIDE DEF all, k
  <2>3. \A i \in 1..m : i \in 1..m + k /\ i <= m
    BY <1>1, <1>6
  <2>4. \A j \in 1..k : m + j \in 1..m + k /\ ~(m + j <= m) /\ m + j - m = j
    BY <1>1, <1>6
  <2> QED BY <1>1, <1>6, <2>2, <2>3, <2>4
<1>10. /\ \A i \in 1..m + k : i \in 1..m \/ \E j \in 1..k : i = m + j
       /\ \A i \in 1..m : i \in 1..m + k
       /\ \A j \in 1..k : m + j \in 1..m + k
  <2> HIDE DEF m, k
  <2>1. ASSUME NEW i \in 1..m + k, i \notin 1..m PROVE \E j \in 1..k : i = m + j
    <3>1. i - m \in 1..k /\ i = m + (i - m)
      BY <1>1, <1>6, <2>1
    <3> QED BY <3>1
  <2> QED BY <1>1, <1>6, <2>1
<1> HIDE DEF all, m, k
<1>11. ASSUME NEW i \in 1..m + k
       PROVE  /\ all[i].of \in offered /\ all[i] = Repair!RecordOf(all[i].uid[1], all[i].of)
              /\ all[i].of \in Listed => all[i].uid[1] = live
  <2>1. CASE i \in 1..m
    BY <1>1, <1>9, <2>1 DEF m
  <2>2. CASE i \notin 1..m
    <3>1. PICK j \in 1..k : i = m + j
      BY <1>10, <2>2
    <3>2. all[i] = fresh[j]
      BY <1>9, <3>1
    <3> QED BY <1>7, <3>2
  <2> QED BY <2>1, <2>2
<1>12. ASSUME NEW i \in 1..m, NEW j \in 1..k, all[i].of = all[m + j].of,
              all[i].of \in Listed \/ all[i].uid[1] = all[m + j].uid[1]
       PROVE  FALSE
  <2>1. list[i].of = fresh[j].of /\ list[i].uid[1] = live
    BY <1>7, <1>9, <1>12 DEF m
  <2> QED BY <1>3, <1>7, <2>1
<1>13. ASSUME NEW i \in 1..m + k, NEW j \in 1..m + k, all[i].of = all[j].of,
              all[i].of \in Listed \/ all[i].uid[1] = all[j].uid[1]
       PROVE  i = j
  <2>1. CASE i \in 1..m /\ j \in 1..m
    BY <1>9, <1>13, <2>1 DEF SoundRecords, m
  <2>2. CASE i \in 1..m /\ j \notin 1..m
    BY <1>10, <1>12, <1>13, <2>2
  <2>3. CASE i \notin 1..m /\ j \in 1..m
    BY <1>10, <1>12, <1>13, <2>3
  <2>4. CASE i \notin 1..m /\ j \notin 1..m
    <3>1. PICK a \in 1..k : i = m + a
      BY <1>10, <2>4
    <3>2. PICK b \in 1..k : j = m + b
      BY <1>10, <2>4
    <3>3. fresh[a].of = fresh[b].of
      BY <1>9, <1>13, <3>1, <3>2
    <3>4. fresh[a] = fresh[b]
      BY <1>7, <3>3
    <3> QED BY <1>5, <3>1, <3>2, <3>4 DEF Once, k
  <2> QED BY <2>1, <2>2, <2>3, <2>4
<1>14. ASSUME NEW e \in offered PROVE \E i \in 1..m + k : all[i].of = e /\ all[i].uid[1] = live
  <2>1. CASE e \in missing
    <3>1. PICK j \in 1..k : fresh[j].of = e
      BY <1>8, <2>1
    <3>2. m + j \in 1..m + k /\ all[m + j] = fresh[j]
      BY <1>9, <1>10
    <3>3. fresh[j].uid[1] = live
      BY <1>7
    <3> QED BY <3>1, <3>2, <3>3
  <2>2. CASE e \notin missing
    <3>1. PICK i \in 1..m : list[i].of = e /\ list[i].uid[1] = live
      BY <1>3, <2>2
    <3>2. i \in 1..m + k /\ all[i] = list[i]
      BY <1>9, <1>10
    <3> QED BY <3>1, <3>2
  <2> QED BY <2>1, <2>2
<1>15. m + k \in Nat
  BY <1>1, <1>6 DEF m
<1> QED BY <1>2, <1>9, <1>11, <1>13, <1>14, <1>15 DEF SoundRecords

\* After a setup every listed record is under the live id, and every entity has one there.
LEMMA LoadIs ==
    ASSUME RepairInv, Repair!Load
    PROVE  /\ offered' = offered /\ SoundRecords(records')
           /\ \A i \in 1..Len(records') :
                 records'[i].of \in Listed => records'[i].uid[1] = Repair!Live
           /\ \A e \in offered : \E i \in 1..Len(records') :
                 records'[i].of = e /\ records'[i].uid[1] = Repair!Live
<1> DEFINE done == Stage(records, Len(records), Repair!Live)
<1>1. offered \subseteq Entities /\ SoundRecords(records) /\ Len(records) \in Nat
  BY DEF RepairInv, SoundRecords
<1>2. Repair!Repaired(records, Repair!Live) = done
  BY <1>1, RepairedIs
<1>3. records' = Repair!Created(done, Repair!Live) /\ offered' = offered
  BY <1>2 DEF Repair!Load
<1>4. /\ SoundRecords(done) /\ Len(done) = Len(records)
      /\ \A i \in 1..Len(records) :
            /\ done[i].of = records[i].of
            /\ i <= Len(records) /\ records[i].of \in Listed => done[i].uid[1] = Repair!Live
  BY <1>1, StageIs
<1>5. \A i \in 1..Len(done) : done[i].of \in Listed => done[i].uid[1] = Repair!Live
  <2>1. \A i \in 1..Len(records) : i <= Len(records)
    BY <1>1
  <2> HIDE DEF done
  <2> QED BY <1>4, <2>1
<1> HIDE DEF done
<1> QED BY <1>1, <1>3, <1>4, <1>5, CreatedIs

LEMMA RepairInit == Repair!Init => RepairInv
<1> SUFFICES ASSUME Repair!Init PROVE RepairInv
  OBVIOUS
<1>1. offered \subseteq Entities /\ records = <<>>
  BY DEF Repair!Init
<1>2. Len(<<>>) = 0 /\ 1..0 = {} /\ <<>> = [i \in 1..0 |-> <<>>[i]]
  OBVIOUS
<1> QED BY <1>1, <1>2 DEF RepairInv, SoundRecords

LEMMA RepairNext == RepairInv /\ Repair!Next => RepairInv'
<1> SUFFICES ASSUME RepairInv, Repair!Next PROVE RepairInv'
  OBVIOUS
<1>1. CASE Repair!Load
  <2>1. offered' = offered /\ SoundRecords(records')
    BY <1>1, LoadIs
  <2> QED BY <2>1 DEF RepairInv, SoundRecords
<1>2. CASE Repair!Rotate
  BY <1>2 DEF Repair!Rotate, RepairInv, SoundRecords
<1>3. ASSUME NEW e \in Entities, Repair!Offer(e) PROVE RepairInv'
  <2>1. offered' = offered \cup {e} /\ records' = records
    BY <1>3 DEF Repair!Offer
  <2> QED BY <2>1 DEF RepairInv, SoundRecords
<1> QED BY <1>1, <1>2, <1>3 DEF Repair!Next

LEMMA RecordsKept == RepairInv /\ Repair!Next => Repair!RecordsKeepTheirEntity
<1> SUFFICES ASSUME RepairInv, Repair!Next, records' # records
             PROVE  Repair!RecordsKeepTheirEntity
  BY DEF Repair!RecordsKeepTheirEntity
<1>1. Repair!Load
  BY DEF Repair!Next, Repair!Rotate, Repair!Offer
<1>2. /\ SoundRecords(records') /\ offered \subseteq Entities
      /\ \A i \in 1..Len(records') :
            records'[i].of \in Listed => records'[i].uid[1] = Repair!Live
      /\ \A e \in offered : \E i \in 1..Len(records') :
            records'[i].of = e /\ records'[i].uid[1] = Repair!Live
  BY <1>1, LoadIs DEF RepairInv
<1>3. DOMAIN records' = 1..Len(records')
  BY <1>2 DEF SoundRecords
<1>4. ASSUME NEW i \in DOMAIN records'
      PROVE  /\ records'[i].uid = Repair!UniqueId(records'[i].uid[1], records'[i].of.key)
             /\ records'[i].of \notin Unlisted => records'[i].uid[1] = Repair!Live
  <2> DEFINE e == records'[i].of
             under == records'[i].uid[1]
  <2>1. e \in Entities /\ records'[i] = Repair!RecordOf(under, e)
    BY <1>2, <1>3 DEF SoundRecords
  <2> HIDE DEF e, under
  <2>2. Repair!RecordOf(under, e).uid = Repair!UniqueId(under, e.key)
    BY DEF Repair!RecordOf
  <2> QED BY <1>2, <1>3, <2>1, <2>2 DEF Listed, e, under
<1>5. ASSUME NEW e \in offered
      PROVE  \E i \in DOMAIN records' : \A j \in DOMAIN records' :
                records'[j].of = e /\ records'[j].uid[1] = Repair!Live <=> j = i
  BY <1>2, <1>3 DEF SoundRecords
<1> QED BY <1>4, <1>5 DEF Repair!RecordsKeepTheirEntity

-----------------------------------------------------------------------------
(***************************************************************************)
(* The whole                                                               *)
(***************************************************************************)

ServicesInv ==
    /\ part = "speaker"    => SpeakerInv
    /\ part = "equalizer"  => EqualizerInv
    /\ part = "variables"  => VariablesInv
    /\ part = "life"       => LifeInv
    /\ part = "login"      => LoginInv
    /\ part = "sync"       => SyncInv
    /\ part = "surrogates" => SurrogateInv
    /\ part = "presses"    => PressesInv
    /\ part = "discovery"  => DiscoveryInv
    /\ part = "devtools"   => ToolsInv
    /\ part = "listeners"  => ListenersInv
    /\ part = "repair"     => RepairInv

LEMMA ServicesInit == Init => ServicesInv
BY SpeakerInit, EqualizerInit, VariablesInit, LifeInit, LoginInit, SyncInit, SurrogateInit,
   PressesInit, DiscoveryInit, ToolsInit, ListenersInit, RepairInit
   DEF Init, ServicesInv

LEMMA ServicesNext == ServicesInv /\ Next => ServicesInv'
BY SpeakerNext, EqualizerNext, VariablesNext, LifeNext, LoginNext, SyncNext, SurrogateNext,
   PressesNext, DiscoveryNext, ToolsNext, ListenersNext, RepairNext
   DEF Next, ServicesInv

\* While nothing moves, every part keeps its invariant.
LEMMA SpeakerStays == ASSUME SpeakerInv, UNCHANGED <<value, speakerOnly>> PROVE SpeakerInv'
BY DEF speakerOnly, SpeakerInv, Speaker!TypeOK, SpeakerOrder, SpeakerPause, SpeakerReads

LEMMA EqualizerStays == ASSUME EqualizerInv, UNCHANGED equalizerOnly PROVE EqualizerInv'
<1>1. echo' \in Equal!Held /\ paused' \in BOOLEAN
  BY DEF equalizerOnly, EqualizerInv, EqualizerTypeOK
<1>2. /\ EqualizerTypeOK' /\ PanelInv' /\ AloneInv' /\ SwitchInv' /\ OursInv'
      /\ Equal!Busy' = Equal!Busy /\ Equal!EqPuts' = Equal!EqPuts
  BY <1>1, ShownStays DEF equalizerOnly
<1>3. ReadTypeOK'
  BY DEF equalizerOnly, EqualizerInv, ReadTypeOK, Ours, Equal!Exact
<1>4. EchoInv'
  BY <1>2 DEF equalizerOnly, EqualizerInv, EchoInv, Alike
<1>5. ReadingInv'
  <2>1. UNCHANGED <<reading, reported, echo, held, paused, loose, astray>>
    BY DEF equalizerOnly
  <2>2. ReadingInv
    BY DEF EqualizerInv
  <2>3. CASE reading.stage = "idle" \/ reading.met
    BY <2>1, <2>3 DEF ReadingInv
  <2>4. CASE reading.stage # "idle" /\ ~reading.met
    BY <1>2, <2>1, <2>2, <2>4 DEF ReadingInv, Alike, Equal!SameEqualizer
  <2> QED BY <2>3, <2>4
<1> QED BY <1>2, <1>3, <1>4, <1>5 DEF EqualizerInv

LEMMA VariablesStay ==
    ASSUME VariablesInv, UNCHANGED <<pending, value, variablesOnly>> PROVE VariablesInv'
BY DEF variablesOnly, VariablesInv, VariablesTypeOK, TaskInv, HeardInv, ReadInv

LEMMA LifeStays == ASSUME LifeInv, UNCHANGED <<stage, lifeOnly>> PROVE LifeInv'
BY DEF lifeOnly, LifeInv, LifeTypeOK, LifeSnapshot, LifeListening, LifeBuilt, LifeForce,
       LifeChoice, LifeChosen, Life!ReloadsForCause, Life!NothingSurvives

LEMMA LoginStays == ASSUME LoginInv, UNCHANGED <<stage, pending, loginOnly>> PROVE LoginInv'
BY DEF loginOnly, LoginInv, LoginTypeOK, WayInv, TokenInv, EntryInv, Login!TokenAfter,
       Login!LastReceived, Login!Newest

LEMMA SyncStays == ASSUME SyncInv, UNCHANGED syncOnly PROVE SyncInv'
BY DEF syncOnly, SyncInv, SyncTypeOK, OneEach, LeftInv, TurnInv, SentInv, ClaimInv, NoneOf, Was,
       Sync!Wanted, Sync!Content

LEMMA SurrogatesStay == ASSUME SurrogateInv, UNCHANGED surrogateOnly PROVE SurrogateInv'
BY DEF surrogateOnly, SurrogateInv, SurrogateTypeOK, HolderInv, CachedInv, InHandInv, StrayInv,
       OneInv, NoneInv, TextInv, OfKind, NoSuch

LEMMA PressesStay == ASSUME PressesInv, UNCHANGED pressesOnly PROVE PressesInv'
BY DEF pressesOnly, PressesInv, PressesTypeOK, ImageInv, FiredInv, BornInv, SeenInv,
       Presses!FiresOnce, Presses!Mark

LEMMA DiscoveryStays == ASSUME DiscoveryInv, UNCHANGED discoveryOnly PROVE DiscoveryInv'
BY DEF discoveryOnly, DiscoveryInv, NamedInv

LEMMA ToolsStay == ASSUME ToolsInv, UNCHANGED toolsOnly PROVE ToolsInv'
BY DEF toolsOnly, ToolsInv, ToolsTypeOK, ToldInv, Tools!VerdictIsCurrent

LEMMA ListenersStay == ASSUME ListenersInv, UNCHANGED listenersOnly PROVE ListenersInv'
BY DEF listenersOnly, ListenersInv

LEMMA RepairStays == ASSUME RepairInv, UNCHANGED repairOnly PROVE RepairInv'
BY DEF repairOnly, RepairInv, SoundRecords, Repair!RecordOf, Repair!UniqueId

LEMMA ServicesStep == ServicesInv /\ [Next]_vars => ServicesInv'
<1> SUFFICES ASSUME ServicesInv, UNCHANGED vars PROVE ServicesInv'
  BY ServicesNext
<1> QED
  BY SpeakerStays, EqualizerStays, VariablesStay, LifeStays, LoginStays, SyncStays,
     SurrogatesStay, PressesStay, DiscoveryStays, ToolsStay, ListenersStay, RepairStays
     DEF vars, ServicesInv

LEMMA ServicesAlways == Spec => []ServicesInv
BY ServicesInit, ServicesStep, PTL DEF Spec

-----------------------------------------------------------------------------

\* Of the home variables every home that is still there shows what it had at the last
\* push that was heard, or newer, once the task of the pushes has ended
\* (_schedule_at_home_refresh() in coordinator.py).
THEOREM PushesAlwaysRead == Spec => []PushesAreRead
<1>1. ServicesInv => PushesAreRead
  BY VariablesRead DEF ServicesInv, PushesAreRead
<1> QED BY <1>1, ServicesAlways, PTL

\* A loaded entry runs with the stored options, nothing of an entry survives its unload
\* or a broken-off setup, and every reload has an edit of the choice of its own
\* (__init__.py).
THEOREM EntryAlwaysSound == Spec => []EntrySound
<1>1. ServicesInv => EntrySound
  BY LifeSound DEF ServicesInv, EntrySound
<1> QED BY <1>1, ServicesAlways, PTL

\* What the reconciliation of the YAML reports of a slug is so in the cloud until the
\* user changes it, and no slug has two scenarios (intents/yaml_sync.py).
THEOREM ScenariosAlwaysSound == Spec => []ScenariosSound
<1>1. ServicesInv => ScenariosSound
  BY SyncSound DEF ServicesInv, ScenariosSound
<1> QED BY <1>1, ServicesAlways, PTL

\* Every announcement is spoken with its own text and a home has one surrogate of a
\* kind, however callers overlap, requests fail and the user deletes (the TTS and TTC
\* surrogates).
THEOREM AnnouncementsAlwaysSound == Spec => []AnnouncementsSound
<1>1. ServicesInv => AnnouncementsSound
  BY SurrogateSound DEF ServicesInv, AnnouncementsSound
<1> QED BY <1>1, ServicesAlways, PTL

\* A press of a button fires one event and none is made up after a reload (event.py), the
\* entities of homes, scenarios and groups exist once and follow the cloud's names
\* (switch.py, button.py), the differences kept for DevTools add up and its verdicts are
\* those of the last snapshot (state_diff.py, schema_validator.py).
THEOREM NothingHappensTwice == Spec => []NothingTwice
<1>1. ServicesInv => NothingTwice
  BY PressesSound, DiscoverySound, ToolsSound DEF ServicesInv, NothingTwice
<1> QED BY <1>1, ServicesAlways, PTL

\* A setting of the speaker that was written stays shown, and the equalizer is shown as
\* the speaker has it, its presets exact (coordinator.py).
THEOREM WritesStayShown == Spec => WriteStaysShown
<1> DEFINE Shows ==
        /\ part = "speaker" => Speaker!StaysShown /\ Speaker!TypeOK'
        /\ part = "equalizer" => (Equal!PanelIsHeld /\ Equal!PresetIsExact)'
<1>1. ServicesInv /\ Next => Shows
  <2>1. EqualizerInv' => (Equal!PanelIsHeld /\ Equal!PresetIsExact)'
    BY EqualizerSound, PTL
  <2> QED BY <2>1, SpeakerShows, EqualizerNext DEF Next, ServicesInv
<1>2. ServicesInv /\ [Next]_vars => [Shows]_vars
  BY <1>1
<1> QED BY <1>2, ServicesAlways, PTL DEF Spec, WriteStaysShown

\* What a login saves is the last token of its chain that reached it, Sber's newest unless
\* a rotation was lost on the way, and of the account of the entry (config_flow.py).
THEOREM LoginsAlwaysWork == Spec => SavedLoginWorks
<1> DEFINE Saves == part = "login" => Login!SavesWhatWorks
<1>1. ServicesInv /\ [Next]_vars => [Saves]_vars
  BY LoginSaves DEF Next, ServicesInv
<1> QED BY <1>1, ServicesAlways, PTL DEF Spec, SavedLoginWorks

\* A run of a scenario fires the events the YAML asks for and those only, in the order of
\* the file (intent_dispatcher.py, the listeners); a setup after the cloud gave the device
\* a new id renames the record of every entity that the coordinator lists, and no record
\* passes to another entity (unique_id_repair.py).
THEOREM StepsAlwaysSound == Spec => StepsSound
<1> DEFINE Steps == /\ part = "listeners" => Listening!FiresAsWritten
                    /\ part = "repair" => Repair!RecordsKeepTheirEntity
<1>1. ServicesInv /\ Next => Steps
  BY ListenersFire, RecordsKept DEF Next, ServicesInv
<1>2. ServicesInv /\ UNCHANGED vars => [Steps]_vars
  OBVIOUS
<1> QED BY <1>1, <1>2, ServicesAlways, PTL DEF Spec, StepsSound
===============================================================================
