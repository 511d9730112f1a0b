----------------------------- MODULE GuildSpaces -----------------------------
(***************************************************************************)
(* The channels of the guild, the tools that create, move, rename and      *)
(* archive them, the channel profiles, and the views that describe the     *)
(* guild.  Tool calls and message handlers are goroutines; each request to *)
(* Discord and each statement of the store is a step.                      *)
(*                                                                         *)
(* Channel i is the i-th of the guild; parent 0 is the root.  A name is a  *)
(* stem, whether it has capitals, and how often the archive prefix stands  *)
(* before it.  Topics, texts and times of messages are left out.  Forum,   *)
(* announcement and stage channels behave as voice channels do here.       *)
(***************************************************************************)
EXTENDS Naturals, Sequences, FiniteSets

CONSTANTS
  GsCallers,     \* goroutines of tool calls and message handlers
  GsCategories,  \* stems of the names tools give categories
  GsTexts,       \* and text channels
  GsFirst,       \* the channels at first
  GsMaxChannels, \* bound: channels
  GsLimit,       \* ChannelActivitySince: rows given, 256
  GsSome,        \* SuggestChannelProfiles: messages of an active channel, 6
  GsMany,        \* and of one in the main flow, 12
  GsBudgets      \* bound: how often each operation may happen in one behaviour

GsKinds == {"category", "text", "voice"}
GsOps == {"space", "archive", "edit", "profile", "speak", "survey"}
GsIds == 1..GsMaxChannels

ASSUME GsAssumption ==
  /\ GsMaxChannels \in Nat /\ Len(GsFirst) <= GsMaxChannels
  /\ GsCategories \cup GsTexts \subseteq STRING
  /\ GsFirst \in Seq([kind : GsKinds, name : [stem : STRING, upper : BOOLEAN, prefixes : Nat], parent : Nat])
  /\ \A i \in DOMAIN GsFirst :
       GsFirst[i].parent \in {0} \cup {k \in DOMAIN GsFirst : GsFirst[k].kind = "category"}
  /\ GsLimit \in Nat \ {0} /\ GsSome \in Nat \ {0} /\ GsMany \in Nat /\ GsSome <= GsMany
  /\ GsBudgets \subseteq [GsOps -> Nat]

VARIABLES
  gsGuild,    \* the channels as Discord has them
  gsProfile,  \* channel_profiles, by channel
  gsTalk,     \* messages in the window, by channel and the name it had then
  gsCall,     \* the call of each goroutine
  gsLeft,     \* what is left of the budget
  gsSeen,     \* history: channels there were when the call that created one listed them, 0 at first
  gsRenamed   \* history: channels that were renamed

gsVars == <<gsGuild, gsProfile, gsTalk, gsCall, gsLeft, gsSeen, gsRenamed>>
gsOthers == <<gsProfile, gsTalk>>

GsIdle == [at |-> "idle"]
GsNone == [kind |-> "none", level |-> "none"]
GsDefaults == [kind |-> "default", level |-> "default"]
GsName(stem, upper) == [stem |-> stem, upper |-> upper, prefixes |-> 0]

GsInit ==
  /\ gsGuild = GsFirst /\ gsProfile = [i \in GsIds |-> GsNone]
  /\ gsTalk = [g \in {} |-> 0] /\ gsCall = [c \in GsCallers |-> GsIdle]
  /\ gsLeft \in GsBudgets /\ gsSeen = [i \in GsIds |-> 0] /\ gsRenamed = {}

GsChannels == DOMAIN gsGuild
GsOfKind(kind) == {i \in GsChannels : gsGuild[i].kind = kind}
GsMovable == GsChannels \ GsOfKind("category")  \* Discord moves no category into another
GsSpend(op) == gsLeft[op] > 0 /\ gsLeft' = [gsLeft EXCEPT ![op] = @ - 1]
GsGoTo(c, call) == gsCall' = [gsCall EXCEPT ![c] = call]
GsBegin(c, op, call) == gsCall[c] = GsIdle /\ GsSpend(op) /\ GsGoTo(c, call)

-----------------------------------------------------------------------------
(* sanitizeChannelName, of names that have no other character for it to    *)
(* replace, are not empty and have at most 90.                             *)
GsSanitized(name) == [name EXCEPT !.upper = FALSE]

(* ensure_space and create_category, with at most one channel to come;     *)
(* create_channel; archive_channels, with one channel.                     *)
GsEnsure(kind, name, parent, next) ==
  [at |-> "list", kind |-> kind, name |-> name, parent |-> parent, next |-> next, seen |-> 0]

GsSpace(c) ==
  \E s \in GsCategories, upper \in BOOLEAN, t \in GsTexts, next \in {"none", "text"} :
    /\ GsBegin(c, "space", GsEnsure("category", GsName(s, upper), 0, [do |-> next, name |-> GsName(t, FALSE)]))
    /\ UNCHANGED <<gsGuild, gsOthers, gsSeen, gsRenamed>>

GsCreateChannel(c) ==
  \E t \in GsTexts, upper \in BOOLEAN, parent \in {0} \cup GsOfKind("category") :
    /\ GsBegin(c, "space", GsEnsure("text", GsSanitized(GsName(t, upper)), parent, [do |-> "none"]))
    /\ UNCHANGED <<gsGuild, gsOthers, gsSeen, gsRenamed>>

GsArchive(c) ==
  \E i \in GsMovable, prefix \in {"none", "old", "Old"} :
    /\ GsBegin(c, "archive", GsEnsure("category", GsName("archive", FALSE), 0,
                                      [do |-> "file", chan |-> i, prefix |-> prefix]))
    /\ UNCHANGED <<gsGuild, gsOthers, gsSeen, gsRenamed>>

(* What follows once the channel is there.                                 *)
GsProceed(c, i) ==
  LET next == gsCall[c].next IN
  GsGoTo(c, CASE next.do = "none" -> GsIdle
              [] next.do = "text" -> GsEnsure("text", next.name, i, [do |-> "none"])
              [] next.do = "file" -> [at |-> "fetch", chan |-> next.chan, prefix |-> next.prefix, into |-> i])

(* A plausible bug: the names are compared as they are.                    *)
GsSameCase(a, b) == a = b

(* strings.EqualFold                                                       *)
GsSame(a, b) == [a EXCEPT !.upper = FALSE] = [b EXCEPT !.upper = FALSE]

(* ListChannels of EnsureCategory and EnsureTextChannel.                   *)
GsList(c) ==
  LET call == gsCall[c]
      found == {i \in GsOfKind(call.kind) : GsSame(gsGuild[i].name, call.name)}
  IN
  /\ call.at = "list"
  /\ \/ found = {} /\ GsGoTo(c, [call EXCEPT !.at = "create", !.seen = Len(gsGuild)])
     \/ \E i \in found :
          IF call.parent = 0 \/ gsGuild[i].parent = call.parent THEN GsProceed(c, i)
          ELSE GsGoTo(c, [at |-> "move", chan |-> i, parent |-> call.parent])
  /\ UNCHANGED <<gsGuild, gsOthers, gsLeft, gsSeen, gsRenamed>>

GsCreate(c) ==
  LET call == gsCall[c]  new == Len(gsGuild) + 1 IN
  /\ call.at = "create" /\ new <= GsMaxChannels
  /\ gsGuild' = Append(gsGuild, [kind |-> call.kind, name |-> call.name, parent |-> call.parent])
  /\ gsSeen' = [gsSeen EXCEPT ![new] = call.seen]
  /\ GsProceed(c, new) /\ UNCHANGED <<gsOthers, gsLeft, gsRenamed>>

GsMoveFound(c) ==
  LET call == gsCall[c] IN
  /\ call.at = "move"
  /\ gsGuild' = [gsGuild EXCEPT ![call.chan].parent = call.parent]
  /\ GsGoTo(c, GsIdle) /\ UNCHANGED <<gsOthers, gsLeft, gsSeen, gsRenamed>>

(* archive_channels: GetChannel, MoveChannel, and RenameChannel when the   *)
(* name it got lacks the prefix as it was given.                           *)
GsFetch(c) ==
  LET call == gsCall[c] IN
  /\ call.at = "fetch"
  /\ GsGoTo(c, [at |-> "file", chan |-> call.chan, into |-> call.into, prefix |-> call.prefix,
                name |-> gsGuild[call.chan].name])
  /\ UNCHANGED <<gsGuild, gsOthers, gsLeft, gsSeen, gsRenamed>>

GsLacksPrefix(call) == call.prefix = "Old" \/ (call.prefix = "old" /\ call.name.prefixes = 0)

GsFile(c) ==
  LET call == gsCall[c] IN
  /\ call.at = "file"
  /\ gsGuild' = [gsGuild EXCEPT ![call.chan].parent = call.into]
  /\ GsGoTo(c, IF GsLacksPrefix(call) THEN [call EXCEPT !.at = "prefix"] ELSE GsIdle)
  /\ UNCHANGED <<gsOthers, gsLeft, gsSeen, gsRenamed>>

GsPrefix(c) ==
  LET call == gsCall[c] IN
  /\ call.at = "prefix"
  /\ gsGuild' = [gsGuild EXCEPT ![call.chan].name = GsSanitized([call.name EXCEPT !.prefixes = @ + 1])]
  /\ gsRenamed' = gsRenamed \cup {call.chan}
  /\ GsGoTo(c, GsIdle) /\ UNCHANGED <<gsOthers, gsLeft, gsSeen>>

(* A request or a statement fails; what was done before stays.             *)
GsFails(c) ==
  /\ gsCall[c].at \in {"list", "create", "move", "fetch", "file", "prefix", "default", "set"}
  /\ GsGoTo(c, GsIdle) /\ UNCHANGED <<gsGuild, gsOthers, gsLeft, gsSeen, gsRenamed>>

(* move_channel and each move of move_channels_batch; rename_channel.      *)
GsMove ==
  \E i \in GsMovable, parent \in GsOfKind("category") :
    /\ GsSpend("edit") /\ gsGuild' = [gsGuild EXCEPT ![i].parent = parent]
    /\ UNCHANGED <<gsOthers, gsCall, gsSeen, gsRenamed>>

GsRename ==
  \E i \in GsChannels, t \in GsTexts, upper \in BOOLEAN :
    /\ GsSpend("edit") /\ gsGuild' = [gsGuild EXCEPT ![i].name = GsSanitized(GsName(t, upper))]
    /\ gsRenamed' = gsRenamed \cup {i}
    /\ UNCHANGED <<gsOthers, gsCall, gsSeen>>

-----------------------------------------------------------------------------
(* A message is stored with the name its channel has; the window moves on. *)
GsCount(g) == IF g \in DOMAIN gsTalk THEN gsTalk[g] ELSE 0

GsSave(i) ==
  LET g == <<i, gsGuild[i].name>> IN
  gsTalk' = [h \in DOMAIN gsTalk \cup {g} |-> GsCount(h) + IF h = g THEN 1 ELSE 0]

(* processMessage: the message, and the profile of its channel.            *)
GsSpeak(c) ==
  \E i \in GsOfKind("text") :
    /\ GsBegin(c, "speak", IF gsProfile[i] = GsNone THEN [at |-> "default", chan |-> i, read |-> GsNone] ELSE GsIdle)
    /\ GsSave(i) /\ UNCHANGED <<gsGuild, gsProfile, gsSeen, gsRenamed>>

GsWindow ==
  /\ gsTalk' = [g \in {} |-> 0]
  /\ gsCall' = [c \in GsCallers |-> IF gsCall[c].at = "survey" THEN [gsCall[c] EXCEPT !.heard = {}] ELSE gsCall[c]]
  /\ UNCHANGED <<gsGuild, gsProfile, gsLeft, gsSeen, gsRenamed>>

(* resolveChannelProfile: a channel without a profile gets the defaults.   *)
GsDefault(c) ==
  LET call == gsCall[c] IN
  /\ call.at = "default"
  /\ gsProfile' = [gsProfile EXCEPT ![call.chan] = GsDefaults]
  /\ GsGoTo(c, GsIdle) /\ UNCHANGED <<gsGuild, gsTalk, gsLeft, gsSeen, gsRenamed>>

(* set_channel_profile reads the profile, ...                              *)
GsSetProfile(c) ==
  \E i \in GsOfKind("text"), fields \in SUBSET {"kind", "level"} :
    /\ GsBegin(c, "profile", [at |-> "set", chan |-> i, read |-> gsProfile[i], fields |-> fields])
    /\ UNCHANGED <<gsGuild, gsOthers, gsSeen, gsRenamed>>

(* A plausible bug: the fields left out get their defaults again.          *)
GsFilled(call) == [f \in {"kind", "level"} |-> IF f \in call.fields THEN "chosen" ELSE "default"]

(* ... and writes it whole: fields given, else as read, else defaults.     *)
GsMerged(call) ==
  [f \in {"kind", "level"} |->
     IF f \in call.fields THEN "chosen" ELSE IF call.read = GsNone THEN "default" ELSE call.read[f]]

GsSet(c) ==
  LET call == gsCall[c] IN
  /\ call.at = "set"
  /\ gsProfile' = [gsProfile EXCEPT ![call.chan] = GsMerged(call)]
  /\ GsGoTo(c, GsIdle) /\ UNCHANGED <<gsGuild, gsTalk, gsLeft, gsSeen, gsRenamed>>

-----------------------------------------------------------------------------
(* ChannelActivitySince: the busiest groups of channel and name.           *)
GsActivities ==
  LET groups == DOMAIN gsTalk
      size == IF Cardinality(groups) < GsLimit THEN Cardinality(groups) ELSE GsLimit
  IN {rows \in SUBSET groups :
        Cardinality(rows) = size /\ \A g \in rows, h \in groups \ rows : gsTalk[g] >= gsTalk[h]}

GsHeard(rows) == {g[1] : g \in rows}

(* The map by channel that every view makes of the rows: the last row of a *)
(* channel stays, which is the one with the fewest messages.               *)
GsShown(rows, i) ==
  LET counts == {gsTalk[g] : g \in {h \in rows : h[1] = i}} IN
  CHOOSE n \in counts : \A m \in counts : n <= m

(* FindStaleTextChannels, DescribeIdleChannels and, of channels with a     *)
(* profile, DescribeSpaceCandidates.                                       *)
GsStale(texts, active) == texts \ active

(* SuggestChannelProfiles, for a text channel without a profile.           *)
GsSuggest(i, active, count) ==
  CASE active /\ count >= GsMany /\ gsGuild[i].parent = 0 -> "main flow"
    [] active /\ count >= GsSome -> "responsive"
    [] active -> "default"
    [] OTHER -> "quiet"

(* Empty categories: DescribeSpaceCandidates and PlanRefresh count every   *)
(* channel in them, DescribeCategoryMap and DescribeOrphans text channels. *)
GsChildren(category) == {i \in GsChannels : gsGuild[i].kind # "category" /\ gsGuild[i].parent = category}
GsTextChildren(category) == {i \in GsOfKind("text") : gsGuild[i].parent = category}
GsPlannedEmpty == {k \in GsOfKind("category") : GsChildren(k) = {}}
GsMappedEmpty == {k \in GsOfKind("category") : GsTextChildren(k) = {}}

(* The channels DescribeServer lists: under each category, and roots.      *)
GsServerLists == {l \in ({0} \cup GsOfKind("category")) \X GsChannels : l[2] \in GsChildren(l[1])}

(* A plausible bug: the activity is read before the channels are.          *)
GsOrderBack == <<"activity", "channels">>

(* find_stale_channels and the other views: what is read, in order.  The   *)
(* call keeps, as history, the channels heard of when it listed them.      *)
GsOrder == <<"channels", "activity">>

GsSurvey(c) ==
  /\ GsBegin(c, "survey", [at |-> "survey", step |-> 1, texts |-> {}, heard |-> {}, active |-> {}, cut |-> FALSE])
  /\ UNCHANGED <<gsGuild, gsOthers, gsSeen, gsRenamed>>

GsLook(c) ==
  LET call == gsCall[c]  next == [call EXCEPT !.step = @ + 1] IN
  /\ call.at = "survey" /\ call.step <= Len(GsOrder)
  /\ \/ /\ GsOrder[call.step] = "channels"
        /\ GsGoTo(c, [next EXCEPT !.texts = GsOfKind("text"), !.heard = GsHeard(DOMAIN gsTalk)])
     \/ /\ GsOrder[call.step] = "activity"
        /\ \E rows \in GsActivities :
             GsGoTo(c, [next EXCEPT !.active = GsHeard(rows), !.cut = (Cardinality(DOMAIN gsTalk) > GsLimit)])
  /\ UNCHANGED <<gsGuild, gsOthers, gsLeft, gsSeen, gsRenamed>>

GsTold(call) == call.at = "survey" /\ call.step > Len(GsOrder)
GsAnswer(c) ==
  /\ GsTold(gsCall[c]) /\ GsGoTo(c, GsIdle)
  /\ UNCHANGED <<gsGuild, gsOthers, gsLeft, gsSeen, gsRenamed>>

GsNext ==
  \/ GsMove \/ GsRename \/ GsWindow
  \/ \E c \in GsCallers :
       \/ GsSpace(c) \/ GsCreateChannel(c) \/ GsArchive(c) \/ GsList(c) \/ GsCreate(c) \/ GsMoveFound(c)
       \/ GsFetch(c) \/ GsFile(c) \/ GsPrefix(c) \/ GsFails(c)
       \/ GsSpeak(c) \/ GsDefault(c) \/ GsSetProfile(c) \/ GsSet(c)
       \/ GsSurvey(c) \/ GsLook(c) \/ GsAnswer(c)

GsSpec == GsInit /\ [][GsNext]_gsVars

-----------------------------------------------------------------------------
GsTypeOK ==
  /\ Len(gsGuild) <= GsMaxChannels
  /\ \A i \in GsChannels :
       gsGuild[i].kind \in GsKinds /\ gsGuild[i].parent \in {0} \cup GsOfKind("category")
  /\ \A i \in GsIds : gsProfile[i] # GsNone => i \in GsChannels
  /\ \A g \in DOMAIN gsTalk : g[1] \in GsChannels /\ gsTalk[g] > 0
  /\ gsRenamed \subseteq GsChannels

(* Two categories, or two text channels, that tools gave the same name but *)
(* for its case exist only when the second was created by a call that had  *)
(* listed the channels before the first was there.                         *)
GsTwinsOverlapped ==
  \A i, j \in GsChannels \ gsRenamed :
    i < j /\ gsGuild[i].kind = gsGuild[j].kind /\ gsGuild[i].kind # "voice"
      /\ [gsGuild[i].name EXCEPT !.upper = FALSE] = [gsGuild[j].name EXCEPT !.upper = FALSE]
    => gsSeen[j] < i

(* What the views say of the guild: a channel told stale had no message in *)
(* the window when the channels were listed, unless the rows were cut; a   *)
(* suggestion is the one for all its messages, unless the channel had two  *)
(* names or rows were cut; and the views differ on empty categories only   *)
(* when voice channels are in them, and list each channel in one place.    *)
GsViewsHonest ==
  \A c \in GsCallers : GsTold(gsCall[c]) =>
    /\ gsCall[c].cut \/ GsStale(gsCall[c].texts, gsCall[c].active) \cap gsCall[c].heard = {}
    /\ \A i \in GsOfKind("text"), rows \in GsActivities :
         LET groups == {g \in DOMAIN gsTalk : g[1] = i}
             all == IF groups = {} THEN 0 ELSE gsTalk[CHOOSE g \in groups : TRUE]
         IN Cardinality(groups) <= 1 /\ Cardinality(DOMAIN gsTalk) <= GsLimit =>
              GsSuggest(i, i \in GsHeard(rows), IF i \in GsHeard(rows) THEN GsShown(rows, i) ELSE 0)
                = GsSuggest(i, groups # {}, all)
    /\ GsPlannedEmpty \subseteq GsMappedEmpty
    /\ \A k \in GsMappedEmpty \ GsPlannedEmpty : \A i \in GsChildren(k) : gsGuild[i].kind = "voice"
    /\ \A i \in GsChannels : gsGuild[i].kind # "category" => Cardinality({l \in GsServerLists : l[2] = i}) = 1

(* A field of a profile that was chosen falls back to its default only by  *)
(* a write of a call that had read the profile before the choice.          *)
GsChosenKept ==
  [][gsProfile' # gsProfile => \A i \in GsIds, f \in {"kind", "level"} :
       gsProfile[i][f] = "chosen" /\ gsProfile'[i][f] # "chosen" =>
         \E c \in GsCallers :
           /\ gsCall[c].at \in {"default", "set"} /\ gsCall[c].chan = i
           /\ gsCall'[c] = GsIdle /\ gsCall[c].read[f] # "chosen"]_gsVars
=============================================================================
