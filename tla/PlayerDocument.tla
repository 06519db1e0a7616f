--------------------------- MODULE PlayerDocument ---------------------------
(***************************************************************************)
(* The document of one account as the game's endpoints edit it             *)
(* (src/handlers, through src/protocol/router.js): the wardrobe, the look  *)
(* the lobby shows, the clan, the elite pass and the mails.                *)
(*                                                                         *)
(* A request loads the document, its handler changes the copy in one go,   *)
(* and the router writes the whole copy back: requests of one account      *)
(* overlap.  A request that saves nothing leaves no trace, so it is not a  *)
(* step.  Avatars are numbered in the order the profiles are stored in;    *)
(* skin and clothes are one value; a skill has the id of its avatar.       *)
(***************************************************************************)
EXTENDS Integers, FiniteSets

CONSTANTS Calls, Avatars, Hidden, Outfits, Slots, Mails, MaxCalls

ASSUME DocumentAssumption ==
    /\ Avatars \subseteq Nat \ {0} /\ Hidden \subseteq Avatars /\ Avatars \ Hidden # {}
    /\ Outfits \subseteq Nat \ {0} /\ Outfits # {} /\ 0 \in Slots /\ MaxCalls \in Nat

VARIABLES
    doc,    \* the account's document as it is stored
    held,   \* request -> the copy it has changed and not yet written, <<>> if none
    calls   \* handler calls so far, at most MaxCalls

documentVars == <<doc, held, calls>>

First(S) == CHOOSE a \in S : \A b \in S : a <= b

NoClan == [id |-> 0, members |-> {}]

\* The profiles of a new player: the first of them flagged, each with its own skill.
DefaultProfiles ==
    [flagged |-> {First(Avatars)}, outfit |-> [a \in Avatars |-> First(Outfits)],
     skills |-> [a \in Avatars |-> [s \in Slots |-> IF s = 0 THEN a ELSE 0]]]

\* "forced" remembers that GetProfiles flagged a profile since the last SelectProfile.
Default ==
    [flagged |-> DefaultProfiles.flagged, outfit |-> DefaultProfiles.outfit,
     skills |-> DefaultProfiles.skills,
     look |-> [avatar |-> First(Avatars), outfit |-> First(Outfits)],
     slots |-> [s \in Slots |-> IF s = 0 THEN First(Avatars) ELSE 0],
     chosen |-> {}, clan |-> NoClan, badges |-> 0, elite |-> FALSE,
     read |-> {}, forced |-> FALSE]

DocumentInit == doc = Default /\ held = [c \in Calls |-> <<>>] /\ calls = 0

-----------------------------------------------------------------------------
(* A request.                                                              *)

\* Loaded, authenticated by its token and handled: d is what it will write.
Handled(c, d) ==
    /\ held[c] = <<>> /\ calls < MaxCalls
    /\ held' = [held EXCEPT ![c] = <<d>>] /\ calls' = calls + 1
    /\ UNCHANGED doc

\* The router writes the copy; the write may fail, and the client is then told so.
Written(c) ==
    /\ held[c] # <<>>
    /\ doc' \in {doc, held[c][1]}
    /\ held' = [held EXCEPT ![c] = <<>>]
    /\ UNCHANGED calls

-----------------------------------------------------------------------------
(* Wardrobe.                                                               *)

Worn(d, a) == [avatar |-> a, outfit |-> d.outfit[a]]

\* selected_items takes over what the profile has; a slot it equips nothing in keeps its skill.
Synced(d, a) ==
    [d EXCEPT !.look = Worn(d, a),
              !.slots = [s \in Slots |-> IF d.skills[a][s] # 0 THEN d.skills[a][s] ELSE @[s]]]

\* Mutant: the look is left to the next GetBackpack.
SelectUnsynced(d, a) == [d EXCEPT !.flagged = {a}, !.forced = FALSE]

Selected(d, a) == Synced([d EXCEPT !.flagged = {a}, !.forced = FALSE], a)

SelectProfile(c) == \E a \in Avatars : Handled(c, Selected(doc, a))

Shown(d) == {a \in Avatars : a \notin Hidden /\ d.skills[a][0] \notin Hidden}

\* GetProfiles flags the first profile it shows when none of those it shows is flagged.
GetProfiles(c) ==
    /\ Shown(doc) # {} /\ Shown(doc) \cap doc.flagged = {}
    /\ Handled(c, [doc EXCEPT !.flagged = @ \cup {First(Shown(doc))}, !.forced = TRUE])

selectedProfile(d) == First(IF d.flagged = {} THEN Avatars ELSE d.flagged)

GetBackpack(c) == Handled(c, [doc EXCEPT !.look = Worn(doc, selectedProfile(doc))])

\* Mutant: the look is changed with any profile's clothes.
DressAny(d, a, outfit) ==
    LET dressed == [d EXCEPT !.outfit[a] = outfit] IN [dressed EXCEPT !.look = Worn(dressed, a)]

Dressed(d, a, outfit) ==
    LET dressed == [d EXCEPT !.outfit[a] = outfit] IN
    IF a \in d.flagged THEN [dressed EXCEPT !.look = Worn(dressed, a)] ELSE dressed

\* Without an avatar the first flagged one is meant.
ChangeClothes(c) ==
    \E a \in Avatars \cup {First(doc.flagged)}, outfit \in Outfits : Handled(c, Dressed(doc, a, outfit))

EquipSkill(c) == \E a, skill \in Avatars, s \in Slots : Handled(c, [doc EXCEPT !.skills[a][s] = skill])

ChooseSlots(c) == \E skill \in Avatars \cup {0} : Handled(c, [doc EXCEPT !.slots = [s \in Slots |-> skill]])

\* The other choices are kept apart from all of this: only that one was made is recorded.
Chosen(c, field) == Handled(c, [doc EXCEPT !.chosen = @ \cup {field}])
ChooseBanner(c) == Chosen(c, "banner_id")
ChooseHeadPic(c) == Chosen(c, "head_pic")
ChooseLoadout(c) == Chosen(c, "loadouts")
ChooseEmote(c) == Chosen(c, "emotes")
ChooseShow(c) == Chosen(c, "shows")
ChooseRegion(c) == Chosen(c, "region")
SetShowRank(c) == Chosen(c, "show_rank")

-----------------------------------------------------------------------------
(* Clan, elite pass and mails.                                             *)

Me == 1

\* The id is the clock's second, so a clan of the same second has the same id.
CreateClan(c) == \E id \in {1, 2} : Handled(c, [doc EXCEPT !.clan = [id |-> id, members |-> {Me}]])

DismissClan(c) == doc.clan.id # 0 /\ Handled(c, [doc EXCEPT !.clan = NoClan])

QuitClan(c) == Handled(c, [doc EXCEPT !.clan = NoClan])

ModifyClanInfo(c) == Chosen(c, "announcement")

ModifyClanName(c) == doc.clan.id # 0 /\ Chosen(c, "clan_name")

RemoveClanMember(c) ==
    /\ Me \in doc.clan.members
    /\ Handled(c, [doc EXCEPT !.clan.members = @ \ {Me}])

EPPurchase(c) == Handled(c, [doc EXCEPT !.elite = TRUE])
EPPurchaseBadge(c) == Handled(c, [doc EXCEPT !.badges = @ + 9999])
EPClaimBadge(c) == Handled(c, [doc EXCEPT !.badges = @ + 10])

ReadMail(c) == \E mail \in Mails : Handled(c, [doc EXCEPT !.read = @ \cup {mail}])

DocumentNext ==
    \E c \in Calls :
        \/ SelectProfile(c) \/ GetProfiles(c) \/ GetBackpack(c) \/ ChangeClothes(c)
        \/ EquipSkill(c) \/ ChooseSlots(c) \/ ChooseBanner(c) \/ ChooseHeadPic(c)
        \/ ChooseLoadout(c) \/ ChooseEmote(c) \/ ChooseShow(c) \/ ChooseRegion(c)
        \/ SetShowRank(c) \/ CreateClan(c) \/ DismissClan(c) \/ QuitClan(c)
        \/ ModifyClanInfo(c) \/ ModifyClanName(c) \/ RemoveClanMember(c)
        \/ EPPurchase(c) \/ EPPurchaseBadge(c) \/ EPClaimBadge(c) \/ ReadMail(c)
        \/ Written(c)

-----------------------------------------------------------------------------
(* Properties.                                                             *)

SoundLook(d) ==
    /\ d.look.avatar \in d.flagged
    /\ d.look.outfit = d.outfit[d.look.avatar]
    /\ Cardinality(d.flagged) = 1 \/ d.forced

DocumentTypeOK ==
    /\ \A d \in {doc} \cup {held[c][1] : c \in {x \in Calls : held[x] # <<>>}} :
           /\ d.flagged \subseteq Avatars /\ d.look.avatar \in Avatars
           /\ d.badges \in Nat /\ d.read \subseteq Mails
           /\ d.clan.id = 0 => d.clan.members = {}
    /\ calls \in 0 .. MaxCalls

\* The look the lobby and the match show is a flagged profile's, with the
\* clothes that profile wears, whatever order a wardrobe's requests come and
\* overlap in; and exactly one profile is flagged (GetProfiles.js: "Ensure
\* exactly one profile is flagged selected") unless GetProfiles itself had to
\* flag one beside a hidden avatar that is in use.
LookFollowsProfile == SoundLook(doc)

=============================================================================
