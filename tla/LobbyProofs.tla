---------------------------- MODULE LobbyProofs ----------------------------
(***************************************************************************)
(* What lies around the rooms, for any number of requests that overlap and *)
(* of steps: the look of a document, what the login gates let in, the two  *)
(* buses, the cutover to Postgres and the move of the guests; and all of   *)
(* it, with ServiceProofs and TrafficProofs, as MCLobby puts it together.  *)
(***************************************************************************)
EXTENDS MCLobby, ServiceProofs

-----------------------------------------------------------------------------
(* LookFollowsProfile for any avatars, clothes and slots, and for any      *)
(* number of requests of one account that overlap: every copy a request    *)
(* holds is sound by itself, so whichever is written last leaves a sound   *)
(* document.                                                               *)

ChosenFields == {"banner_id", "head_pic", "loadouts", "emotes", "shows", "region", "show_rank", "announcement", "clan_name"}

\* A clan that is none has no members.
Clans == {m \in [id : Nat, members : SUBSET Nat] : m.id = 0 => m.members = {}}

Documents ==
    [flagged : SUBSET Avatars, outfit : [Avatars -> Outfits],
     skills : [Avatars -> [Slots -> Nat]], look : [avatar : Avatars, outfit : Outfits],
     slots : [Slots -> Nat], chosen : SUBSET ChosenFields,
     clan : Clans, badges : Nat, elite : BOOLEAN,
     read : SUBSET Mails, forced : BOOLEAN]

SoundDocuments == {d \in Documents : SoundLook(d)}

LookInv ==
    /\ doc \in SoundDocuments
    /\ held \in [Calls -> {<<>>} \cup {<<d>> : d \in SoundDocuments}]
    /\ calls \in 0 .. MaxCalls

\* The first of some numbers is one of them.
LEMMA FirstIn == ASSUME NEW S \in SUBSET Nat, S # {} PROVE First(S) \in S
<1>1. PICK m \in S : \A k \in S : <<k, m>> \notin OpToRel(<, Nat)
  BY WFMin, NatLessThanWellFounded, Zenon
<1>2. \A k \in S : ~ (k < m)
  BY <1>1 DEF OpToRel
<1>3. \A k \in S : m <= k
  BY <1>2
<1> QED
  BY <1>3 DEF First

\* One flag is one.
LEMMA OneFlag == ASSUME NEW a PROVE Cardinality({a}) = 1
  BY FS_Singleton

\* A change of anything but the flags, the clothes and the look.
LEMMA Elsewhere ==
    ASSUME NEW d \in SoundDocuments, NEW e \in Documents,
           e.flagged = d.flagged, e.outfit = d.outfit, e.look = d.look, e.forced = d.forced
    PROVE  e \in SoundDocuments
  BY DEF SoundDocuments, SoundLook

\* A request that has handled its copy, still to be written.
LEMMA HandledStep ==
    ASSUME LookInv, NEW c \in Calls, NEW d \in SoundDocuments, Handled(c, d)
    PROVE  LookInv'
<1>1. calls' \in 0 .. MaxCalls
  BY DocumentAssumption DEF LookInv, Handled
<1>2. doc' \in SoundDocuments /\ held' \in [Calls -> {<<>>} \cup {<<x>> : x \in SoundDocuments}]
  BY DEF LookInv, Handled
<1> QED
  BY <1>1, <1>2 DEF LookInv

\* A request that writes its copy.
LEMMA WrittenStep ==
    ASSUME LookInv, NEW c \in Calls, Written(c)
    PROVE  LookInv'
<1>1. PICK d \in SoundDocuments : held[c] = <<d>>
  BY DEF LookInv, Written
<1>2. held[c][1] \in SoundDocuments
  BY <1>1
<1>3. doc' \in SoundDocuments
  BY <1>2 DEF LookInv, Written
<1>4. held' \in [Calls -> {<<>>} \cup {<<x>> : x \in SoundDocuments}]
  BY DEF LookInv, Written
<1>5. calls' \in 0 .. MaxCalls
  BY DEF LookInv, Written
<1> QED
  BY <1>3, <1>4, <1>5 DEF LookInv

\* The default document is sound.
LEMMA DefaultSound == Default \in SoundDocuments
<1> DEFINE a == First(Avatars)
           o == First(Outfits)
<1>1. a \in Avatars /\ o \in Outfits /\ a \in Nat /\ o \in Nat
  BY DocumentAssumption, FirstIn
<1>2. Cardinality({a}) = 1
  BY OneFlag
<1> HIDE DEF a, o
<1>3. Default =
        [flagged |-> {a}, outfit |-> [x \in Avatars |-> o],
         skills |-> [x \in Avatars |-> [s \in Slots |-> IF s = 0 THEN x ELSE 0]],
         look |-> [avatar |-> a, outfit |-> o],
         slots |-> [s \in Slots |-> IF s = 0 THEN a ELSE 0],
         chosen |-> {}, clan |-> NoClan, badges |-> 0, elite |-> FALSE,
         read |-> {}, forced |-> FALSE]
  BY DEF Default, DefaultProfiles, a, o
<1>4. NoClan \in Clans
  BY DEF NoClan, Clans
<1>5. [x \in Avatars |-> [s \in Slots |-> IF s = 0 THEN x ELSE 0]] \in [Avatars -> [Slots -> Nat]]
  BY DocumentAssumption
<1>6. Default \in Documents
  BY <1>1, <1>3, <1>4, <1>5 DEF Documents
<1>7. SoundLook(Default)
  BY <1>1, <1>2, <1>3 DEF SoundLook
<1> QED
  BY <1>6, <1>7 DEF SoundDocuments

\* Selecting an avatar leaves a document sound.
LEMMA SelectedSound ==
    ASSUME NEW d \in SoundDocuments, NEW a \in Avatars
    PROVE  Selected(d, a) \in SoundDocuments
<1> DEFINE s == Selected(d, a)
           slots == [x \in Slots |-> IF d.skills[a][x] # 0 THEN d.skills[a][x] ELSE d.slots[x]]
<1>1. d \in Documents
  BY DEF SoundDocuments
<1>2. slots \in [Slots -> Nat]
  BY <1>1 DEF Documents
<1>3. s = [d EXCEPT !.flagged = {a}, !.forced = FALSE, !.look = [avatar |-> a, outfit |-> d.outfit[a]],
                    !.slots = slots]
  BY <1>1 DEF Selected, Synced, Worn, Documents
<1>4. [avatar |-> a, outfit |-> d.outfit[a]] \in [avatar : Avatars, outfit : Outfits]
  BY <1>1 DEF Documents
<1> HIDE DEF s, slots
<1>5. s \in Documents
  BY <1>1, <1>2, <1>3, <1>4 DEF Documents
<1>6. s.flagged = {a} /\ s.outfit = d.outfit /\ s.look = [avatar |-> a, outfit |-> d.outfit[a]]
  BY <1>1, <1>3 DEF Documents
<1>7. Cardinality(s.flagged) = 1
  BY <1>6, OneFlag
<1>8. SoundLook(s)
  BY <1>6, <1>7 DEF SoundLook
<1> QED
  BY <1>5, <1>8 DEF SoundDocuments, s

\* Dressing an avatar leaves a document sound.
LEMMA DressedSound ==
    ASSUME NEW d \in SoundDocuments, NEW a \in Avatars, NEW outfit \in Outfits
    PROVE  Dressed(d, a, outfit) \in SoundDocuments
<1> DEFINE e == [d EXCEPT !.outfit[a] = outfit]
<1>1. d \in Documents /\ SoundLook(d)
  BY DEF SoundDocuments
<1>2. /\ e \in Documents /\ e.flagged = d.flagged /\ e.look = d.look /\ e.forced = d.forced
      /\ e.outfit = [d.outfit EXCEPT ![a] = outfit]
  BY <1>1 DEF Documents
<1> HIDE DEF e
<1>3. CASE a \in d.flagged
  <2> DEFINE f == [e EXCEPT !.look = Worn(e, a)]
  <2>1. Worn(e, a) \in [avatar : Avatars, outfit : Outfits] /\ Worn(e, a).avatar = a /\ Worn(e, a).outfit = e.outfit[a]
    BY <1>2 DEF Worn, Documents
  <2>2. /\ f \in Documents /\ f.flagged = d.flagged /\ f.look = Worn(e, a) /\ f.forced = d.forced
        /\ f.outfit = e.outfit
    BY <1>2, <2>1 DEF Documents
  <2>3. SoundLook(f)
    BY <1>1, <1>3, <2>1, <2>2 DEF SoundLook
  <2>4. Dressed(d, a, outfit) = f
    BY <1>3 DEF Dressed, e
  <2> QED
    BY <2>2, <2>3, <2>4 DEF SoundDocuments
<1>4. CASE a \notin d.flagged
  <2>1. d.look.avatar # a /\ d.look.avatar \in Avatars
    BY <1>1, <1>4 DEF SoundLook, Documents
  <2>2. e.outfit[d.look.avatar] = d.outfit[d.look.avatar]
    BY <1>1, <1>2, <2>1 DEF Documents
  <2>3. SoundLook(e)
    BY <1>1, <1>2, <2>2 DEF SoundLook
  <2>4. Dressed(d, a, outfit) = e
    BY <1>4 DEF Dressed, e
  <2> QED
    BY <1>2, <2>3, <2>4 DEF SoundDocuments
<1> QED
  BY <1>3, <1>4

\* GetProfiles.js keeps it.
LEMMA GetProfilesStep == ASSUME LookInv, NEW c \in Calls, GetProfiles(c) PROVE LookInv'
<1> DEFINE a == First(Shown(doc))
           d == [doc EXCEPT !.flagged = @ \cup {a}, !.forced = TRUE]
<1>1. doc \in Documents /\ SoundLook(doc)
  BY DEF LookInv, SoundDocuments
<1>2. Shown(doc) \subseteq Avatars /\ Shown(doc) # {} /\ Handled(c, d)
  BY DEF GetProfiles, Shown
<1>3. a \in Avatars
  BY <1>2, FirstIn, DocumentAssumption
<1> HIDE DEF a
<1>4. /\ d \in Documents /\ d.flagged = doc.flagged \cup {a} /\ d.outfit = doc.outfit
      /\ d.look = doc.look /\ d.forced = TRUE
  BY <1>1, <1>3 DEF Documents
<1>5. d \in SoundDocuments
  BY <1>1, <1>4 DEF SoundDocuments, SoundLook
<1> QED
  BY <1>2, <1>5, HandledStep

\* GetBackpack.js keeps it.
LEMMA GetBackpackStep == ASSUME LookInv, NEW c \in Calls, GetBackpack(c) PROVE LookInv'
<1> DEFINE a == selectedProfile(doc)
           d == [doc EXCEPT !.look = Worn(doc, a)]
<1>1. doc \in Documents /\ SoundLook(doc) /\ Handled(c, d)
  BY DEF LookInv, SoundDocuments, GetBackpack
<1>2. doc.flagged \subseteq Avatars /\ doc.flagged # {}
  BY <1>1 DEF Documents, SoundLook
<1>3. a \in doc.flagged /\ a \in Avatars
  BY <1>2, FirstIn, DocumentAssumption DEF selectedProfile
<1> HIDE DEF a
<1>4. Worn(doc, a) \in [avatar : Avatars, outfit : Outfits] /\ Worn(doc, a).avatar = a /\ Worn(doc, a).outfit = doc.outfit[a]
  BY <1>1, <1>3 DEF Worn, Documents
<1>5. /\ d \in Documents /\ d.flagged = doc.flagged /\ d.outfit = doc.outfit
      /\ d.look = Worn(doc, a) /\ d.forced = doc.forced
  BY <1>1, <1>4 DEF Documents
<1>6. d \in SoundDocuments
  BY <1>1, <1>3, <1>4, <1>5 DEF SoundDocuments, SoundLook
<1> QED
  BY <1>1, <1>6, HandledStep

\* The endpoints of the wardrobe keep it.
LEMMA WardrobeStep ==
    ASSUME LookInv, NEW c \in Calls, SelectProfile(c) \/ ChangeClothes(c)
    PROVE  LookInv'
<1>1. ASSUME SelectProfile(c) PROVE LookInv'
  BY <1>1, SelectedSound, HandledStep DEF SelectProfile, LookInv
<1>2. ASSUME ChangeClothes(c) PROVE LookInv'
  <2>1. doc.flagged \subseteq Avatars /\ doc.flagged # {}
    BY DEF LookInv, SoundDocuments, Documents, SoundLook
  <2>2. First(doc.flagged) \in Avatars
    BY <2>1, FirstIn, DocumentAssumption
  <2> QED
    BY <1>2, <2>2, DressedSound, HandledStep DEF ChangeClothes, LookInv
<1> QED
  BY <1>1, <1>2

\* The requests that leave flags, clothes and look alone.
LEMMA OtherStep ==
    ASSUME LookInv, NEW c \in Calls,
           \/ EquipSkill(c) \/ ChooseSlots(c) \/ ChooseBanner(c) \/ ChooseHeadPic(c)
           \/ ChooseLoadout(c) \/ ChooseEmote(c) \/ ChooseShow(c) \/ ChooseRegion(c)
           \/ SetShowRank(c) \/ CreateClan(c) \/ DismissClan(c) \/ QuitClan(c)
           \/ ModifyClanInfo(c) \/ ModifyClanName(c) \/ RemoveClanMember(c)
           \/ EPPurchase(c) \/ EPPurchaseBadge(c) \/ EPClaimBadge(c) \/ ReadMail(c)
    PROVE  LookInv'
<1>1. doc \in SoundDocuments /\ doc \in Documents
  BY DEF LookInv, SoundDocuments
<1>2. ASSUME EquipSkill(c) PROVE LookInv'
  <2>1. PICK a \in Avatars, skill \in Avatars, s \in Slots : Handled(c, [doc EXCEPT !.skills[a][s] = skill])
    BY <1>2 DEF EquipSkill
  <2> DEFINE d == [doc EXCEPT !.skills[a][s] = skill]
             skills == [doc.skills EXCEPT ![a][s] = skill]
  <2>2. skills \in [Avatars -> [Slots -> Nat]]
    BY <1>1, <2>1, DocumentAssumption DEF Documents
  <2>3. d = [doc EXCEPT !.skills = skills]
    BY <1>1 DEF Documents
  <2> HIDE DEF skills
  <2>4. d \in Documents /\ d.flagged = doc.flagged /\ d.outfit = doc.outfit /\ d.look = doc.look /\ d.forced = doc.forced
    BY <1>1, <2>2, <2>3 DEF Documents
  <2> HIDE DEF d
  <2>5. Handled(c, d)
    BY <2>1 DEF d
  <2> QED
    BY <1>1, <2>4, <2>5, Elsewhere, HandledStep
<1>3. ASSUME ChooseSlots(c) PROVE LookInv'
  <2>1. PICK skill \in Avatars \cup {0} : Handled(c, [doc EXCEPT !.slots = [s \in Slots |-> skill]])
    BY <1>3 DEF ChooseSlots
  <2> DEFINE slots == [s \in Slots |-> skill]
             d == [doc EXCEPT !.slots = slots]
  <2>0. slots \in [Slots -> Nat]
    BY DocumentAssumption
  <2> HIDE DEF slots
  <2>2. d \in Documents /\ d.flagged = doc.flagged /\ d.outfit = doc.outfit /\ d.look = doc.look /\ d.forced = doc.forced
    BY <1>1, <2>0 DEF Documents
  <2>3. Handled(c, d)
    BY <2>1 DEF slots
  <2> HIDE DEF d
  <2> QED
    BY <1>1, <2>2, <2>3, Elsewhere, HandledStep
<1>4. ASSUME NEW field \in ChosenFields, Chosen(c, field) PROVE LookInv'
  <2> DEFINE d == [doc EXCEPT !.chosen = @ \cup {field}]
  <2>1. d \in Documents /\ d.flagged = doc.flagged /\ d.outfit = doc.outfit /\ d.look = doc.look /\ d.forced = doc.forced
    BY <1>1 DEF Documents
  <2>2. Handled(c, d)
    BY <1>4 DEF Chosen
  <2> HIDE DEF d
  <2> QED
    BY <1>1, <2>1, <2>2, Elsewhere, HandledStep
<1>5. ASSUME NEW clan \in Clans, Handled(c, [doc EXCEPT !.clan = clan]) PROVE LookInv'
  <2> DEFINE d == [doc EXCEPT !.clan = clan]
  <2>1. d \in Documents /\ d.flagged = doc.flagged /\ d.outfit = doc.outfit /\ d.look = doc.look /\ d.forced = doc.forced
    BY <1>1 DEF Documents
  <2> QED
    BY <1>1, <1>5, <2>1, Elsewhere, HandledStep
<1>6. ASSUME EPPurchase(c) \/ EPPurchaseBadge(c) \/ EPClaimBadge(c) \/ ReadMail(c) PROVE LookInv'
  <2>1. ASSUME NEW d \in Documents, Handled(c, d),
               d.flagged = doc.flagged, d.outfit = doc.outfit, d.look = doc.look, d.forced = doc.forced
        PROVE  LookInv'
    BY <1>1, <2>1, Elsewhere, HandledStep
  <2>2. CASE EPPurchase(c)
    <3> DEFINE d == [doc EXCEPT !.elite = TRUE]
    <3>1. d \in Documents /\ d.flagged = doc.flagged /\ d.outfit = doc.outfit /\ d.look = doc.look /\ d.forced = doc.forced
      BY <1>1 DEF Documents
    <3>2. Handled(c, d)
      BY <2>2 DEF EPPurchase
    <3> HIDE DEF d
    <3> QED
      BY <2>1, <3>1, <3>2
  <2>3. ASSUME NEW n \in Nat, Handled(c, [doc EXCEPT !.badges = @ + n]) PROVE LookInv'
    <3> DEFINE sum == doc.badges + n
               d == [doc EXCEPT !.badges = sum]
    <3>0. sum \in Nat
      BY <1>1 DEF Documents
    <3>3. Handled(c, d)
      BY <2>3
    <3> HIDE DEF sum
    <3>1. d \in Documents /\ d.flagged = doc.flagged /\ d.outfit = doc.outfit /\ d.look = doc.look /\ d.forced = doc.forced
      BY <1>1, <3>0 DEF Documents
    <3> HIDE DEF d
    <3> QED
      BY <2>1, <3>1, <3>3
  <2>5. CASE EPPurchaseBadge(c)
    BY <2>3, <2>5 DEF EPPurchaseBadge
  <2>6. CASE EPClaimBadge(c)
    BY <2>3, <2>6 DEF EPClaimBadge
  <2>4. CASE ReadMail(c)
    <3>1. PICK mail \in Mails : Handled(c, [doc EXCEPT !.read = @ \cup {mail}])
      BY <2>4 DEF ReadMail
    <3> DEFINE d == [doc EXCEPT !.read = @ \cup {mail}]
    <3>2. d \in Documents /\ d.flagged = doc.flagged /\ d.outfit = doc.outfit /\ d.look = doc.look /\ d.forced = doc.forced
      BY <1>1 DEF Documents
    <3>3. Handled(c, d)
      BY <3>1
    <3> HIDE DEF d
    <3> QED
      BY <2>1, <3>2, <3>3
  <2> QED
    BY <1>6, <2>2, <2>4, <2>5, <2>6
<1>7. ASSUME CreateClan(c) \/ DismissClan(c) \/ QuitClan(c) \/ RemoveClanMember(c) PROVE LookInv'
  <2>1. CASE CreateClan(c)
    <3>1. PICK id \in {1, 2} : Handled(c, [doc EXCEPT !.clan = [id |-> id, members |-> {Me}]])
      BY <2>1 DEF CreateClan
    <3>2. [id |-> id, members |-> {Me}] \in Clans
      BY DEF Me, Clans
    <3> QED
      BY <1>5, <3>1, <3>2
  <2>2. CASE DismissClan(c) \/ QuitClan(c)
    <3>1. NoClan \in Clans
      BY DEF NoClan, Clans
    <3> QED
      BY <1>5, <2>2, <3>1 DEF DismissClan, QuitClan
  <2>3. CASE RemoveClanMember(c)
    <3> DEFINE clan == [doc.clan EXCEPT !.members = @ \ {Me}]
    <3>1. clan \in Clans
      BY <1>1 DEF Documents, Clans
    <3>2. [doc EXCEPT !.clan.members = @ \ {Me}] = [doc EXCEPT !.clan = clan]
      BY <1>1 DEF Documents, Clans
    <3>3. Handled(c, [doc EXCEPT !.clan = clan])
      BY <2>3, <3>2 DEF RemoveClanMember
    <3> HIDE DEF clan
    <3> QED
      BY <1>5, <3>1, <3>3
  <2> QED
    BY <1>7, <2>1, <2>2, <2>3
<1>8. ASSUME \/ ChooseBanner(c) \/ ChooseHeadPic(c) \/ ChooseLoadout(c) \/ ChooseEmote(c) \/ ChooseShow(c)
             \/ ChooseRegion(c) \/ SetShowRank(c) \/ ModifyClanInfo(c) \/ ModifyClanName(c)
      PROVE  LookInv'
  <2>1. PICK field \in ChosenFields : Chosen(c, field)
    BY <1>8 DEF ChooseBanner, ChooseHeadPic, ChooseLoadout, ChooseEmote, ChooseShow, ChooseRegion,
                SetShowRank, ModifyClanInfo, ModifyClanName, ChosenFields
  <2> QED
    BY <1>4, <2>1
<1> QED
  BY <1>2, <1>3, <1>6, <1>7, <1>8

\* Every step keeps it.
LEMMA NextLookInv == LookInv /\ [DocumentNext]_documentVars => LookInv'
<1> SUFFICES ASSUME LookInv, [DocumentNext]_documentVars PROVE LookInv'
  OBVIOUS
<1>1. ASSUME UNCHANGED documentVars PROVE LookInv'
  BY <1>1 DEF documentVars, LookInv
<1>2. ASSUME DocumentNext PROVE LookInv'
  BY <1>2, GetProfilesStep, GetBackpackStep, WardrobeStep, OtherStep, WrittenStep DEF DocumentNext
<1> QED
  BY <1>1, <1>2

\* It holds at the start.
LEMMA LookFirst == DocumentInit => LookInv
<1> SUFFICES ASSUME DocumentInit PROVE LookInv
  OBVIOUS
<1>1. doc = Default /\ held = [c \in Calls |-> <<>>] /\ calls = 0
  BY DEF DocumentInit
<1>2. calls \in 0 .. MaxCalls
  BY <1>1, DocumentAssumption
<1> QED
  BY <1>1, <1>2, DefaultSound DEF LookInv

\* What it says.
LEMMA LookIs == ASSUME LookInv PROVE DocumentTypeOK /\ LookFollowsProfile
<1>1. LookFollowsProfile
  BY DEF LookInv, SoundDocuments, LookFollowsProfile
<1>2. ASSUME NEW d \in {doc} \cup {held[c][1] : c \in {x \in Calls : held[x] # <<>>}}
      PROVE  /\ d.flagged \subseteq Avatars /\ d.look.avatar \in Avatars
             /\ d.badges \in Nat /\ d.read \subseteq Mails
             /\ d.clan.id = 0 => d.clan.members = {}
  <2>1. ASSUME NEW c \in Calls, held[c] # <<>> PROVE held[c][1] \in Documents
    <3>1. PICK e \in SoundDocuments : held[c] = <<e>>
      BY <2>1 DEF LookInv
    <3> QED
      BY <3>1 DEF SoundDocuments
  <2>2. d \in Documents
    BY <2>1 DEF LookInv, SoundDocuments
  <2>3. d.clan \in Clans
    BY <2>2 DEF Documents
  <2> QED
    BY <2>2, <2>3 DEF Documents, Clans
<1> QED
  BY <1>1, <1>2, Zenon DEF LookInv, DocumentTypeOK

\* Whatever wardrobe, clan, pass and mail requests of one account overlap, and whichever of
\* their writes fail, the look that is stored is a flagged profile's with that profile's clothes.
THEOREM LookStaysSound == DocumentInit /\ [][DocumentNext]_documentVars => [](DocumentTypeOK /\ LookFollowsProfile)
<1> QED
  BY LookFirst, NextLookInv, LookIs, PTL

-----------------------------------------------------------------------------
(* The login gates.                                                        *)

GatedPaths == {"MajorLogin", "MajorRegister", "GetLoginData", "Login"}
Refusals == {"version", "signature", "registration", "game ban", "auth ban"}
GateAsks ==
    [endpoint : GatedPaths \cup {"none"}, build : {"listed", "version", "signature"}, token : {0, 1},
     pc : {"idle", "guests", "load", "bans", "save", "create", "refused", "unknown", "failed", "admitted"},
     loaded : {"none", "open", "banned"}, unasked : SUBSET {"registration", "auth ban"},
     reason : Refusals \cup {"none"}, kicked : BOOLEAN]

\* The configuration does not change, and the store is on unless the process has no URL or
\* has met a missing table.
StoreKnown ==
    /\ gates \in [lists : SUBSET {"version", "signature"}, registration : BOOLEAN,
                  loginToken : BOOLEAN, exempt : BOOLEAN, bans : BOOLEAN, url : BOOLEAN]
    /\ ~missing => schema
    /\ gates.url /\ ~missing => storeOn

\* What the gates a request has yet to pass look at, by where it waits.
Ahead(stage) ==
    CASE stage = "guests" -> {"registration", "game ban", "auth ban"}
      [] stage = "load"   -> {"game ban", "auth ban"}
      [] stage = "bans"   -> {"auth ban"}
      [] OTHER         -> {}

\* What nobody asks about: a lookup that failed, or all of them without the auth store.
Unlooked == ask.unasked \cup (IF gates.url /\ ~missing THEN {} ELSE {"registration", "auth ban"})

\* The causes an endpoint is refused for.
Asked(endpoint) ==
    CASE endpoint = "MajorLogin"    -> Refusals
      [] endpoint = "MajorRegister" -> {"registration", "auth ban"}
      [] endpoint = "GetLoginData"  -> {"signature", "game ban", "auth ban"}
      [] OTHER                      -> {}

\* A request waits only at the gates of its endpoint, and for the ones that are on.
AtItsGates(a) ==
    /\ a.pc = "guests" => /\ gates.registration /\ ~gates.exempt /\ a.loaded = "none"
                          /\ a.endpoint \in {"MajorLogin", "MajorRegister"}
    /\ a.pc = "load" => a.endpoint \in {"MajorLogin", "Login"}
    /\ a.pc = "bans" => gates.bans /\ a.endpoint \in {"MajorLogin", "MajorRegister", "GetLoginData"}

\* Of the causes that were there all the time, a request under way has those ahead of it and
\* those nobody looked at, and a refusal names one that was there.
Passed ==
    /\ always \subseteq ever /\ always \subseteq Asked(ask.endpoint)
    /\ ask.pc \in {"guests", "load", "bans", "save", "create", "admitted"}
           => always \subseteq Unlooked \cup Ahead(ask.pc)
    /\ ask.pc = "refused" => ask.reason \in ever

GateInv == GateTypeOK /\ StoreKnown /\ ask \in GateAsks /\ AtItsGates(ask) /\ Passed

\* It holds at the start.
LEMMA GateStarts == GateInit => GateInv
<1> SUFFICES ASSUME GateInit PROVE GateInv
  OBVIOUS
<1>1. GateTypeOK
  <2>1. /\ guest \in [state : {"none", "open", "renovation"}, token : {1, 2}]
        /\ ask.pc = "idle" /\ always = {} /\ ever = {} /\ gateChanges = 0 /\ gateFaults = 0
        /\ storeOn \in BOOLEAN
    BY DEF GateInit, NoAsk, NoGuest, Guest
  <2>2. auth \in {"none", "open"} /\ game \in {"none", "open"} /\ column = FALSE
        /\ schema \in BOOLEAN /\ missing = ~schema
    BY DEF GateInit
  <2>3. gateChanges \in 0 .. MaxGateChanges /\ gateFaults \in 0 .. MaxGateFaults
    BY <2>1, LoginGateAssumption
  <2> QED
    BY <2>1, <2>2, <2>3 DEF GateTypeOK
<1>2. StoreKnown
  BY DEF GateInit, StoreKnown
<1>3. ask \in GateAsks /\ AtItsGates(ask)
  BY DEF GateInit, GateAsks, AtItsGates, NoAsk, GatedPaths, Refusals
<1>4. Passed
  BY DEF GateInit, Passed, NoAsk
<1> QED
  BY <1>1, <1>2, <1>3, <1>4 DEF GateInv

\* The causes, one by one.
Spelled ==
    /\ Causes \subseteq Asked(ask.endpoint) /\ Causes \subseteq Refusals
    /\ "version" \in Causes <=>
          "version" \in gates.lists /\ ask.build = "version" /\ ask.endpoint = "MajorLogin"
    /\ "signature" \in Causes <=>
          "signature" \in gates.lists /\ ask.build = "signature" /\ ask.endpoint \in {"MajorLogin", "GetLoginData"}
    /\ "registration" \in Causes <=>
          /\ gates.registration /\ ~gates.exempt /\ ask.endpoint \in {"MajorLogin", "MajorRegister"}
          /\ guest.state # "open" \/ (gates.loginToken /\ ask.token # guest.token)
    /\ "game ban" \in Causes <=>
          gates.bans /\ game = "banned" /\ ask.endpoint \in {"MajorLogin", "GetLoginData"}
    /\ "auth ban" \in Causes <=>
          /\ gates.bans /\ auth \in {"banned", "unauthorized"}
          /\ ask.endpoint \in {"MajorLogin", "MajorRegister", "GetLoginData"}

\* The causes of a refusal, gate by gate.
LEMMA CausesAre == Spelled
<1> DEFINE e == ask.endpoint
           V == {c \in {"version"} : c \in gates.lists /\ ask.build = c /\ e = "MajorLogin"}
           S == {c \in {"signature"} : c \in gates.lists /\ ask.build = c /\ e \in {"MajorLogin", "GetLoginData"}}
           R == {c \in {"registration"} : /\ gates.registration /\ ~gates.exempt
                                          /\ e \in {"MajorLogin", "MajorRegister"}
                                          /\ \/ guest.state # "open"
                                             \/ gates.loginToken /\ ask.token # guest.token}
           G == {c \in {"game ban"} : gates.bans /\ game = "banned" /\ e \in {"MajorLogin", "GetLoginData"}}
           B == {c \in {"auth ban"} : /\ gates.bans /\ auth \in {"banned", "unauthorized"}
                                      /\ e \in {"MajorLogin", "MajorRegister", "GetLoginData"}}
<1>1. Causes = V \cup S \cup R \cup G \cup B
  BY Zenon DEF Causes
<1>2. V \subseteq {"version"} /\ S \subseteq {"signature"} /\ R \subseteq {"registration"}
      /\ G \subseteq {"game ban"} /\ B \subseteq {"auth ban"}
  BY Zenon
<1>3. "version" \in V <=> "version" \in gates.lists /\ ask.build = "version" /\ e = "MajorLogin"
  OBVIOUS
<1>4. "signature" \in S <=>
          "signature" \in gates.lists /\ ask.build = "signature" /\ e \in {"MajorLogin", "GetLoginData"}
  OBVIOUS
<1>5. "registration" \in R <=>
          /\ gates.registration /\ ~gates.exempt /\ e \in {"MajorLogin", "MajorRegister"}
          /\ guest.state # "open" \/ (gates.loginToken /\ ask.token # guest.token)
  OBVIOUS
<1>6. "game ban" \in G <=> gates.bans /\ game = "banned" /\ e \in {"MajorLogin", "GetLoginData"}
  OBVIOUS
<1>7. "auth ban" \in B <=>
          /\ gates.bans /\ auth \in {"banned", "unauthorized"}
          /\ e \in {"MajorLogin", "MajorRegister", "GetLoginData"}
  OBVIOUS
<1> HIDE DEF V, S, R, G, B
<1>8. /\ "version" \in Causes <=> "version" \in V
      /\ "signature" \in Causes <=> "signature" \in S
      /\ "registration" \in Causes <=> "registration" \in R
      /\ "game ban" \in Causes <=> "game ban" \in G
      /\ "auth ban" \in Causes <=> "auth ban" \in B
  BY Zenon, <1>1, <1>2
<1>9. Causes \subseteq Refusals
  BY Zenon, <1>1, <1>2 DEF Refusals
<1>10. Causes \subseteq Asked(e)
  <2> SUFFICES ASSUME NEW c \in Causes PROVE c \in Asked(e)
    OBVIOUS
  <2>1. c \in Refusals
    BY <1>9
  <2> QED
    BY Zenon, <1>3, <1>4, <1>5, <1>6, <1>7, <1>8, <2>1 DEF Asked, Refusals
<1> QED
  BY Zenon, <1>3, <1>4, <1>5, <1>6, <1>7, <1>8, <1>9, <1>10 DEF Spelled

\* What checkBan makes of a request: refused, to ask the auth store, or through.
LEMMA BanAskedIs ==
    ASSUME StoreKnown, NEW a \in GateAsks, NEW b, b = BanAsked(a, LastGate(a)),
           a.endpoint \in {"MajorLogin", "MajorRegister", "GetLoginData"}
    PROVE  /\ b \in GateAsks
           /\ b.endpoint = a.endpoint /\ b.build = a.build /\ b.token = a.token /\ b.unasked = a.unasked
           /\ \/ b.pc = "refused" /\ b.reason = "game ban" /\ gates.bans /\ a.loaded = "banned"
              \/ b.pc = "bans" /\ gates.bans /\ a.loaded # "banned"
              \/ /\ b.pc \in {"save", "create", "admitted"}
                 /\ gates.bans => ~storeOn /\ a.loaded # "banned"
<1>1. LastGate(a) \in {"save", "create", "admitted"}
  BY DEF LastGate
<1>2. CASE gates.bans /\ a.loaded = "banned"
  BY Zenon, <1>2 DEF BanAsked, Rejected, GateAsks, Refusals
<1>3. CASE ~ (gates.bans /\ a.loaded = "banned")
  <2> DEFINE stage == IF gates.bans /\ storeOn THEN "bans" ELSE LastGate(a)
  <2>1. b = [a EXCEPT !.pc = stage]
    BY Zenon, <1>3 DEF BanAsked
  <2>2. stage \in {"bans", "save", "create", "admitted"} /\ (stage = "bans" <=> gates.bans /\ storeOn)
    BY <1>1
  <2> HIDE DEF stage
  <2> QED
    BY Zenon, <1>3, <2>1, <2>2 DEF GateAsks
<1> QED
  BY Zenon, <1>2, <1>3

\* What comes after checkRegistration.
LEMMA AfterRegistrationIs ==
    ASSUME StoreKnown, NEW a \in GateAsks, NEW b, b = AfterRegistration(a),
           a.endpoint \in {"MajorLogin", "MajorRegister"}, a.loaded = "none"
    PROVE  /\ b \in GateAsks
           /\ b.endpoint = a.endpoint /\ b.build = a.build /\ b.token = a.token /\ b.unasked = a.unasked
           /\ \/ b.pc = "load" /\ a.endpoint = "MajorLogin"
              \/ b.pc = "bans" /\ gates.bans /\ a.endpoint = "MajorRegister"
              \/ b.pc \in {"save", "create", "admitted"} /\ (gates.bans => ~storeOn) /\ a.endpoint = "MajorRegister"
<1>1. CASE a.endpoint = "MajorRegister"
  <2>1. b = BanAsked(a, LastGate(a))
    BY <1>1 DEF AfterRegistration
  <2> QED
    BY Zenon, <1>1, <2>1, BanAskedIs
<1>2. CASE a.endpoint = "MajorLogin"
  <2>1. b = [a EXCEPT !.pc = "load"]
    BY <1>2 DEF AfterRegistration
  <2> QED
    BY Zenon, <1>2, <2>1 DEF GateAsks
<1> QED
  BY <1>1, <1>2

\* A request that asks: what it has passed at once.
LEMMA GateAsked ==
    ASSUME GateInv, NEW e \in GatedPaths, NEW b \in {"listed"} \cup gates.lists, NEW t \in {0, 1}, Ask(e, b, t)
    PROVE  ask' \in GateAsks /\ AtItsGates(ask)' /\ Passed'
<1> DEFINE a == [NoAsk EXCEPT !.endpoint = e, !.build = b, !.token = t]
           g == [a EXCEPT !.loaded = game]
<1>1. /\ ask' = Gated(a) /\ UNCHANGED <<gates, storeOn, game, guest, auth, missing>>
      /\ always' = Causes' /\ ever' = Causes' /\ (e = "Login" => b = "listed")
  BY DEF Ask, storeVars
<1>2. game \in {"none", "open", "banned"} /\ StoreKnown /\ b \in {"listed", "version", "signature"}
  BY DEF GateInv, GateTypeOK, StoreKnown
<1>3. /\ a \in GateAsks /\ a.endpoint = e /\ a.build = b /\ a.token = t /\ a.pc = "idle" /\ a.loaded = "none"
      /\ a.unasked = {}
      /\ g \in GateAsks /\ g.endpoint = e /\ g.build = b /\ g.token = t /\ g.loaded = game /\ g.unasked = {}
  BY Zenon, <1>2 DEF NoAsk, GateAsks, GatedPaths
<1>3a. g = [a EXCEPT !.loaded = game]
  OBVIOUS
<1> HIDE DEF a, g
<1>4. Spelled'
  BY CausesAre, PTL
<1>5. Unlooked' = ask'.unasked \cup (IF gates.url /\ ~missing THEN {} ELSE {"registration", "auth ban"})
  BY <1>1 DEF Unlooked
<1> DEFINE Fine == /\ ask' \in GateAsks /\ AtItsGates(ask') /\ ask'.endpoint = e
                   /\ ask'.pc \in {"guests", "load", "bans", "save", "create", "admitted"}
                          => Causes' \subseteq Unlooked' \cup Ahead(ask'.pc)
                   /\ ask'.pc = "refused" => ask'.reason \in Causes'
           Excused == {"registration", "auth ban"} \subseteq Unlooked'
<1>a. ~storeOn => Excused
  BY Zenon, <1>2, <1>5 DEF StoreKnown
<1>6. ASSUME e = "Login" PROVE Fine
  <2>1. ask' = [a EXCEPT !.pc = "load"]
    BY <1>1, <1>3, <1>6 DEF Gated
  <2>2. ask' \in GateAsks /\ ask'.pc = "load" /\ ask'.endpoint = "Login"
    BY Zenon, <1>3, <1>6, <2>1 DEF GateAsks
  <2>3. Causes' = {}
    BY Zenon, <1>4, <2>2 DEF Spelled, Asked
  <2> QED
    BY <1>6, <2>2, <2>3 DEF AtItsGates
<1>7. ASSUME e = "GetLoginData" /\ Listed(a, "signature") PROVE Fine
  <2>1. ask' = BanAsked(g, LastGate(g))
    <3>1. LastGate(a) = LastGate(g)
      BY <1>3 DEF LastGate
    <3>2. Gated(a) = BanAsked(g, LastGate(a))
      BY <1>3, <1>3a, <1>7 DEF Gated
    <3> QED
      BY <1>1, <3>1, <3>2
  <2>2. /\ ask' \in GateAsks /\ ask'.endpoint = e /\ ask'.build = b /\ ask'.unasked = {}
        /\ \/ ask'.pc = "refused" /\ ask'.reason = "game ban" /\ gates.bans /\ game = "banned"
           \/ ask'.pc = "bans" /\ gates.bans /\ game # "banned"
           \/ /\ ask'.pc \in {"save", "create", "admitted"}
              /\ gates.bans => ~storeOn /\ game # "banned"
    <3> QED
      BY Zenon, <1>2, <1>3, <1>7, <2>1, BanAskedIs
  <2>3. "signature" \notin Causes'
    <3>1. "signature" \in Causes' => "signature" \in gates.lists /\ ask'.build = "signature"
      BY Zenon, <1>1, <1>4 DEF Spelled
    <3>2. "signature" \notin gates.lists \/ b # "signature"
      BY <1>3, <1>7 DEF Listed
    <3> QED
      BY Zenon, <2>2, <3>1, <3>2
  <2>4. Causes' \subseteq {"game ban", "auth ban"}
    BY Zenon, <1>4, <1>7, <2>2, <2>3 DEF Spelled, Asked
  <2>5. /\ "game ban" \in Causes' => gates.bans /\ game = "banned"
        /\ gates.bans /\ game = "banned" => "game ban" \in Causes'
        /\ "auth ban" \in Causes' => gates.bans
    BY Zenon, <1>1, <1>4, <1>7, <2>2 DEF Spelled
  <2>6. AtItsGates(ask')
    BY Zenon, <1>7, <2>2 DEF AtItsGates
  <2>7. ask'.pc = "refused" => ask'.reason \in Causes'
    BY Zenon, <2>2, <2>5
  <2>8. ASSUME ask'.pc \in {"guests", "load", "bans", "save", "create", "admitted"}
        PROVE  Causes' \subseteq Unlooked' \cup Ahead(ask'.pc)
    <3>1. CASE ask'.pc = "bans"
      BY Zenon, <2>2, <2>4, <2>5, <3>1 DEF Ahead
    <3>2. CASE ask'.pc \in {"save", "create", "admitted"}
      BY Zenon, <1>a, <2>2, <2>4, <2>5, <3>2
    <3> QED
      BY Zenon, <2>2, <2>8, <3>1, <3>2
  <2> QED
    BY Zenon, <2>2, <2>6, <2>7, <2>8
<1>8. ASSUME \/ e = "GetLoginData" /\ ~Listed(a, "signature")
             \/ e \in {"MajorLogin", "MajorRegister"} /\ Listed(a, "version") /\ ~Listed(a, "signature")
      PROVE  Fine
  <2>1. ask' = Rejected(a, "signature")
    BY <1>1, <1>3, <1>8 DEF Gated
  <2>2. /\ ask' \in GateAsks /\ ask'.endpoint = e /\ ask'.build = b /\ ask'.pc = "refused"
        /\ ask'.reason = "signature"
    BY Zenon, <1>3, <2>1 DEF Rejected, GateAsks, Refusals
  <2>3. "signature" \in gates.lists /\ b = "signature" /\ e # "MajorRegister"
    BY <1>3, <1>8 DEF Listed
  <2>4. "signature" \in Causes'
    BY Zenon, <1>1, <1>4, <1>8, <2>2, <2>3 DEF Spelled
  <2> QED
    BY <2>2, <2>4 DEF AtItsGates
<1>9. ASSUME e \in {"MajorLogin", "MajorRegister"} /\ ~Listed(a, "version") PROVE Fine
  <2>1. ask' = Rejected(a, "version")
    BY <1>1, <1>3, <1>9 DEF Gated
  <2>2. /\ ask' \in GateAsks /\ ask'.endpoint = e /\ ask'.build = b /\ ask'.pc = "refused"
        /\ ask'.reason = "version"
    BY Zenon, <1>3, <2>1 DEF Rejected, GateAsks, Refusals
  <2>3. "version" \in gates.lists /\ b = "version" /\ e = "MajorLogin"
    BY <1>3, <1>9 DEF Listed
  <2>4. "version" \in Causes'
    BY Zenon, <1>1, <1>4, <2>2, <2>3 DEF Spelled
  <2> QED
    BY <2>2, <2>4 DEF AtItsGates
<1>10. ASSUME e \in {"MajorLogin", "MajorRegister"} /\ Listed(a, "version") /\ Listed(a, "signature") PROVE Fine
  <2>1. \A x \in GateAsks : x.endpoint = e /\ x.build = b /\ ask' = x
            => "version" \notin Causes' /\ "signature" \notin Causes' /\ ("game ban" \in Causes' => e = "MajorLogin")
    BY Zenon, <1>1, <1>3, <1>4, <1>10 DEF Spelled, Listed
  <2>2. ASSUME AsksGuests PROVE Fine
    <3>1. ask' = [a EXCEPT !.pc = "guests"]
      BY <1>1, <1>3, <1>10, <2>2 DEF Gated
    <3>2. /\ ask' \in GateAsks /\ ask'.pc = "guests" /\ ask'.endpoint = e /\ ask'.build = b
          /\ ask'.loaded = "none"
      BY Zenon, <1>3, <3>1 DEF GateAsks
    <3>3. gates.registration /\ ~gates.exempt
      BY <2>2 DEF AsksGuests
    <3>4. Causes' \subseteq {"registration", "game ban", "auth ban"}
      BY Zenon, <1>4, <2>1, <3>2 DEF Spelled, Refusals
    <3> QED
      BY Zenon, <1>10, <3>2, <3>3, <3>4 DEF AtItsGates, Ahead
  <2>3. ASSUME ~AsksGuests PROVE Fine
    <3>1. ask' = AfterRegistration(a)
      BY <1>1, <1>3, <1>10, <2>3 DEF Gated
    <3>2. /\ ask' \in GateAsks /\ ask'.endpoint = e /\ ask'.build = b
          /\ \/ ask'.pc = "load" /\ e = "MajorLogin"
             \/ ask'.pc = "bans" /\ gates.bans /\ e = "MajorRegister"
             \/ ask'.pc \in {"save", "create", "admitted"} /\ (gates.bans => ~storeOn) /\ e = "MajorRegister"
      <4> QED
        BY <1>2, <1>3, <1>10, <3>1, AfterRegistrationIs
    <3>3. Causes' \subseteq {"registration", "game ban", "auth ban"} /\ ("game ban" \in Causes' => e = "MajorLogin")
      BY Zenon, <1>4, <2>1, <3>2 DEF Spelled, Refusals
    <3>4. "registration" \in Causes' => "registration" \in Unlooked'
      BY Zenon, <1>1, <1>4, <1>a, <2>3 DEF Spelled, AsksGuests
    <3>5. "auth ban" \in Causes' => gates.bans
      BY Zenon, <1>1, <1>4 DEF Spelled
    <3>6. ASSUME ask'.pc = "load" PROVE Fine
      BY Zenon, <3>2, <3>3, <3>4, <3>6 DEF AtItsGates, Ahead
    <3>7. ASSUME ask'.pc = "bans" PROVE Fine
      <4>1. Causes' \subseteq Unlooked' \cup {"auth ban"}
        BY Zenon, <3>2, <3>3, <3>4, <3>7
      <4> QED
        BY Zenon, <3>2, <3>7, <4>1 DEF AtItsGates, Ahead
    <3>8. ASSUME ask'.pc \in {"save", "create", "admitted"} PROVE Fine
      <4>1. Causes' \subseteq Unlooked'
        BY Zenon, <1>a, <3>2, <3>3, <3>4, <3>5, <3>8
      <4> QED
        BY <3>2, <3>8, <4>1 DEF AtItsGates
    <3> QED
      BY <3>2, <3>6, <3>7, <3>8
  <2> QED
    BY <2>2, <2>3
<1>11. Fine
  <2> HIDE DEF Fine
  <2> QED
    BY <1>6, <1>7, <1>8, <1>9, <1>10 DEF GatedPaths
<1>12. AtItsGates(ask)'
  BY <1>1, <1>11 DEF AtItsGates
<1>13. Passed'
  BY Zenon, <1>1, <1>4, <1>11 DEF Passed, Spelled
<1> QED
  BY <1>11, <1>12, <1>13

\* What a step that watches keeps of the causes.
LEMMA GateWatched ==
    ASSUME Watch
    PROVE  /\ always' \subseteq always /\ always' \subseteq Causes' /\ ever \subseteq ever' /\ Causes' \subseteq ever'
           /\ Spelled'
<1>1. Spelled'
  BY CausesAre, PTL
<1> QED
  BY <1>1 DEF Watch

\* A step that leaves the request where it is, at its gates.
LEMMA GateWaits ==
    ASSUME GateInv, Watch, UNCHANGED <<gates, missing, ask>>
    PROVE  ask' \in GateAsks /\ AtItsGates(ask)' /\ Passed'
<1>1. /\ always' \subseteq always /\ ever \subseteq ever' /\ Causes' \subseteq ever' /\ always' \subseteq Causes'
  BY GateWatched
<1> QED
  BY Zenon, <1>1 DEF GateInv, AtItsGates, Passed, Unlooked

\* A request leaves checkRegistration, its cause gone or not looked at.
LEMMA GateGoesOn ==
    ASSUME GateInv, ask.pc = "guests", Watch, UNCHANGED <<gates, missing>>,
           NEW a \in {ask, [ask EXCEPT !.unasked = @ \cup {"registration"}]}, ask' = AfterRegistration(a),
           "registration" \in always' => "registration" \in a.unasked
    PROVE  ask' \in GateAsks /\ AtItsGates(ask)' /\ Passed'
<1>1. /\ always' \subseteq always /\ always' \subseteq Causes' /\ ever \subseteq ever' /\ Causes' \subseteq ever'
      /\ Spelled'
  BY GateWatched
<1>2. /\ StoreKnown /\ ask \in GateAsks /\ gates.registration /\ ~gates.exempt /\ ask.loaded = "none"
      /\ ask.endpoint \in {"MajorLogin", "MajorRegister"}
      /\ always \subseteq Unlooked \cup {"registration", "game ban", "auth ban"}
      /\ always \subseteq Asked(ask.endpoint) /\ always \subseteq ever
  BY Zenon DEF GateInv, AtItsGates, Passed, Ahead
<1>3. /\ a \in GateAsks /\ a.endpoint = ask.endpoint /\ a.loaded = "none"
      /\ ask.unasked \subseteq a.unasked
  BY Zenon, <1>2 DEF GateAsks
<1>4. /\ ask' \in GateAsks /\ ask'.endpoint = ask.endpoint /\ ask'.unasked = a.unasked
      /\ \/ ask'.pc = "load" /\ ask.endpoint = "MajorLogin"
         \/ ask'.pc = "bans" /\ gates.bans /\ ask.endpoint = "MajorRegister"
         \/ ask'.pc \in {"save", "create", "admitted"} /\ (gates.bans => ~storeOn) /\ ask.endpoint = "MajorRegister"
  BY Zenon, <1>2, <1>3, AfterRegistrationIs
<1>5. Unlooked \subseteq Unlooked' /\ a.unasked \subseteq Unlooked'
  BY Zenon, <1>3, <1>4 DEF Unlooked
<1>6. always' \subseteq Unlooked' \cup {"game ban", "auth ban"}
  BY Zenon, <1>1, <1>2, <1>5
<1>7. always' \subseteq Unlooked' \cup Ahead(ask'.pc)
  <2>1. CASE ask'.pc = "load"
    BY Zenon, <1>6, <2>1 DEF Ahead
  <2>2. CASE ask.endpoint = "MajorRegister"
    <3>1. always' \subseteq Unlooked' \cup {"auth ban"}
      BY Zenon, <1>1, <1>2, <1>6, <2>2 DEF Asked
    <3>2. CASE ask'.pc = "bans"
      BY Zenon, <3>1, <3>2 DEF Ahead
    <3>3. CASE gates.bans => ~storeOn
      <4>1. "auth ban" \in always' => gates.bans
        BY Zenon, <1>1 DEF Spelled
      <4>2. "auth ban" \in always' => "auth ban" \in Unlooked
        BY Zenon, <1>2, <3>3, <4>1 DEF StoreKnown, Unlooked
      <4> QED
        BY Zenon, <1>5, <3>1, <4>2
    <3> QED
      BY <1>4, <2>2, <3>2, <3>3
  <2> QED
    BY <1>4, <2>1, <2>2
<1>8. AtItsGates(ask)'
  BY <1>4 DEF AtItsGates
<1>9. always' \subseteq ever' /\ always' \subseteq Asked(ask'.endpoint) /\ ask'.pc # "refused"
  BY Zenon, <1>1, <1>2, <1>4
<1> QED
  BY <1>4, <1>7, <1>8, <1>9 DEF Passed

\* The lookup of the guest, and the failure of one.
LEMMA GateLooksUpGuest ==
    ASSUME GateInv, GuestAnswered
    PROVE  ask' \in GateAsks /\ AtItsGates(ask)' /\ Passed'
<1>1. /\ ask.pc = "guests" /\ UNCHANGED <<gates, guest, missing>> /\ Watch
      /\ ask' = IF guest.state # "open" \/ WrongToken(ask.token) THEN Rejected(ask, "registration")
                ELSE AfterRegistration(ask)
  BY DEF GuestAnswered, storeVars
<1>2. /\ always' \subseteq always /\ always' \subseteq Causes' /\ ever \subseteq ever' /\ Causes' \subseteq ever'
      /\ Spelled'
  BY <1>1, GateWatched
<1>3. /\ StoreKnown /\ ask \in GateAsks /\ gates.registration /\ ~gates.exempt /\ ask.loaded = "none"
      /\ ask.endpoint \in {"MajorLogin", "MajorRegister"}
      /\ always \subseteq Unlooked \cup {"registration", "game ban", "auth ban"}
      /\ always \subseteq Asked(ask.endpoint)
  BY Zenon, <1>1 DEF GateInv, AtItsGates, Passed, Ahead
<1>4. CASE guest.state # "open" \/ WrongToken(ask.token)
  <2>1. ask' = Rejected(ask, "registration")
    BY <1>1, <1>4
  <2>2. /\ ask' \in GateAsks /\ ask'.endpoint = ask.endpoint /\ ask'.token = ask.token /\ ask'.pc = "refused"
        /\ ask'.reason = "registration"
    BY Zenon, <1>3, <2>1 DEF Rejected, GateAsks, Refusals
  <2>3. "registration" \in Causes'
    BY Zenon, <1>1, <1>2, <1>3, <1>4, <2>2 DEF Spelled, WrongToken
  <2> QED
    BY Zenon, <1>2, <1>3, <2>2, <2>3 DEF AtItsGates, Passed
<1>5. CASE ~ (guest.state # "open" \/ WrongToken(ask.token))
  <2>1. ask' = AfterRegistration(ask) /\ ask.unasked \in SUBSET {"registration", "auth ban"}
    BY Zenon, <1>1, <1>3, <1>5 DEF GateAsks
  <2>2. ask'.endpoint = ask.endpoint /\ ask'.token = ask.token
    BY Zenon, <1>3, <2>1, AfterRegistrationIs
  <2>3. "registration" \notin Causes'
    BY Zenon, <1>1, <1>2, <1>5, <2>2 DEF Spelled, WrongToken
  <2> QED
    BY Zenon, <1>1, <1>2, <2>1, <2>3, GateGoesOn
<1> QED
  BY <1>4, <1>5

\* Any other error of the auth store lets the request through, its cause not looked at.
LEMMA GateFailsOpen ==
    ASSUME GateInv, FailOpen
    PROVE  ask' \in GateAsks /\ AtItsGates(ask)' /\ Passed'
<1>1. UNCHANGED <<gates, missing>> /\ Watch /\ ask \in GateAsks
  BY DEF FailOpen, storeVars, GateInv
<1>2. CASE ask.pc = "guests"
  <2> DEFINE a == [ask EXCEPT !.unasked = @ \cup {"registration"}]
  <2>1. ask' = AfterRegistration(a)
    BY <1>2 DEF FailOpen
  <2>2. "registration" \in a.unasked
    BY Zenon, <1>1 DEF GateAsks
  <2> QED
    BY <1>1, <1>2, <2>1, <2>2, GateGoesOn
<1>3. CASE ask.pc = "bans"
  <2>1. ask' = [ask EXCEPT !.pc = LastGate(ask), !.unasked = @ \cup {"auth ban"}]
    BY <1>3 DEF FailOpen
  <2>2. LastGate(ask) \in {"save", "create", "admitted"}
    BY DEF LastGate
  <2>3. /\ ask' \in GateAsks /\ ask'.pc \in {"save", "create", "admitted"} /\ ask'.endpoint = ask.endpoint
        /\ ask'.unasked = ask.unasked \cup {"auth ban"}
    BY Zenon, <1>1, <2>1, <2>2 DEF GateAsks
  <2>4. /\ always \subseteq Unlooked \cup {"auth ban"} /\ always \subseteq Asked(ask.endpoint)
        /\ always \subseteq ever
    BY Zenon, <1>3 DEF GateInv, Passed, Ahead
  <2>5. Unlooked \cup {"auth ban"} \subseteq Unlooked'
    BY Zenon, <1>1, <2>3 DEF Unlooked
  <2>6. always' \subseteq always /\ ever \subseteq ever'
    BY <1>1, GateWatched
  <2>7. Passed'
    BY Zenon, <2>3, <2>4, <2>5, <2>6 DEF Passed
  <2> QED
    BY Zenon, <2>3, <2>7 DEF AtItsGates
<1> QED
  BY <1>2, <1>3 DEF FailOpen

\* The account is loaded, and checkBan looks at its document.
LEMMA GateLoads ==
    ASSUME GateInv, Load
    PROVE  ask' \in GateAsks /\ AtItsGates(ask)' /\ Passed'
<1>1. /\ UNCHANGED <<gates, missing, storeOn, game>> /\ Watch /\ ask.pc = "load" /\ ask \in GateAsks /\ StoreKnown
      /\ ask.endpoint \in {"MajorLogin", "Login"} /\ game \in {"none", "open", "banned"}
  BY DEF Load, storeVars, GateInv, AtItsGates, GateTypeOK
<1>2. /\ always' \subseteq always /\ always' \subseteq Causes' /\ ever \subseteq ever' /\ Causes' \subseteq ever'
      /\ Spelled'
  BY <1>1, GateWatched
<1>3. /\ always \subseteq Unlooked \cup {"game ban", "auth ban"} /\ always \subseteq Asked(ask.endpoint)
      /\ always \subseteq ever
  BY Zenon, <1>1 DEF GateInv, Passed, Ahead
<1>4. CASE game = "none"
  <2>1. ask' = [ask EXCEPT !.pc = "unknown"]
    BY <1>4 DEF Load
  <2>2. ask' \in GateAsks /\ ask'.pc = "unknown" /\ ask'.endpoint = ask.endpoint
    BY Zenon, <1>1, <2>1 DEF GateAsks
  <2> QED
    BY Zenon, <1>2, <1>3, <2>2 DEF AtItsGates, Passed
<1>5. CASE game # "none" /\ ask.endpoint = "Login"
  <2>1. ask' = [ask EXCEPT !.pc = "save", !.loaded = game]
    BY <1>5 DEF Load
  <2>2. ask' \in GateAsks /\ ask'.pc = "save" /\ ask'.endpoint = ask.endpoint
    BY Zenon, <1>1, <2>1 DEF GateAsks
  <2>3. always' = {}
    BY Zenon, <1>2, <1>3, <1>5 DEF Asked
  <2> QED
    BY <1>2, <2>2, <2>3 DEF AtItsGates, Passed
<1>6. CASE game # "none" /\ ask.endpoint = "MajorLogin"
  <2> DEFINE a == [ask EXCEPT !.loaded = game]
  <2>1. LastGate(ask) = LastGate(a) /\ ask' = BanAsked(a, LastGate(ask))
    BY Zenon, <1>1, <1>6 DEF Load, LastGate, GateAsks
  <2>2. a \in GateAsks /\ a.endpoint = "MajorLogin" /\ a.loaded = game /\ a.unasked = ask.unasked
    BY Zenon, <1>1, <1>6 DEF GateAsks
  <2> HIDE DEF a
  <2>3. /\ ask' \in GateAsks /\ ask'.endpoint = "MajorLogin" /\ ask'.unasked = ask.unasked
        /\ \/ ask'.pc = "refused" /\ ask'.reason = "game ban" /\ gates.bans /\ game = "banned"
           \/ ask'.pc = "bans" /\ gates.bans /\ game # "banned"
           \/ /\ ask'.pc \in {"save", "create", "admitted"}
              /\ gates.bans => ~storeOn /\ game # "banned"
    BY Zenon, <1>1, <2>1, <2>2, BanAskedIs
  <2>4. Unlooked' = Unlooked
    BY Zenon, <1>1, <2>3 DEF Unlooked
  <2>5. /\ "game ban" \in Causes' <=> gates.bans /\ game = "banned"
        /\ "auth ban" \in Causes' => gates.bans
    BY Zenon, <1>1, <1>2, <2>3 DEF Spelled
  <2>6. AtItsGates(ask)' /\ always' \subseteq Asked(ask'.endpoint) /\ always' \subseteq ever'
    BY Zenon, <1>1, <1>2, <1>3, <1>6, <2>3 DEF AtItsGates
  <2>7. CASE ask'.pc = "refused"
    BY Zenon, <1>2, <2>3, <2>5, <2>6, <2>7 DEF Passed
  <2>8. CASE ask'.pc = "bans"
    <3>1. always' \subseteq Unlooked \cup {"auth ban"}
      BY Zenon, <1>2, <1>3, <2>3, <2>5, <2>8
    <3> QED
      BY Zenon, <2>3, <2>4, <2>6, <2>8, <3>1 DEF Passed, Ahead
  <2>9. CASE ask'.pc \in {"save", "create", "admitted"}
    <3>1. "game ban" \notin always'
      BY Zenon, <1>2, <2>3, <2>5, <2>9
    <3>2. "auth ban" \in always' => "auth ban" \in Unlooked
      BY Zenon, <1>1, <1>2, <2>3, <2>5, <2>9 DEF StoreKnown, Unlooked
    <3>3. always' \subseteq Unlooked
      BY Zenon, <1>2, <1>3, <3>1, <3>2
    <3> QED
      BY Zenon, <2>3, <2>4, <2>6, <2>9, <3>3 DEF Passed
  <2> QED
    BY Zenon, <2>3, <2>6, <2>7, <2>8, <2>9
<1> QED
  BY <1>1, <1>4, <1>5, <1>6

\* The auth store answers about the account.
LEMMA GateLooksUpBan ==
    ASSUME GateInv, BansAnswered
    PROVE  ask' \in GateAsks /\ AtItsGates(ask)' /\ Passed'
<1>1. /\ UNCHANGED <<gates, missing, auth>> /\ Watch /\ ask.pc = "bans" /\ ask \in GateAsks /\ gates.bans
      /\ ask.endpoint \in {"MajorLogin", "MajorRegister", "GetLoginData"}
  BY Zenon DEF BansAnswered, storeVars, GateInv, AtItsGates
<1>2. /\ always' \subseteq always /\ always' \subseteq Causes' /\ ever \subseteq ever' /\ Causes' \subseteq ever'
      /\ Spelled'
  BY <1>1, GateWatched
<1>3. /\ always \subseteq Unlooked \cup {"auth ban"} /\ always \subseteq Asked(ask.endpoint)
      /\ always \subseteq ever
  BY Zenon, <1>1 DEF GateInv, Passed, Ahead
<1>4. CASE KeptOut
  <2>1. ask' = Rejected(ask, "auth ban")
    BY Zenon, <1>4 DEF BansAnswered
  <2>2. /\ ask' \in GateAsks /\ ask'.pc = "refused" /\ ask'.reason = "auth ban"
        /\ ask'.endpoint = ask.endpoint
    BY Zenon, <1>1, <2>1 DEF Rejected, GateAsks, Refusals
  <2>3. "auth ban" \in Causes'
    BY Zenon, <1>1, <1>2, <1>4, <2>2 DEF Spelled, KeptOut
  <2> QED
    BY Zenon, <1>2, <1>3, <2>2, <2>3 DEF AtItsGates, Passed
<1>5. CASE ~KeptOut
  <2>1. ask' = [ask EXCEPT !.pc = LastGate(ask)]
    BY <1>5 DEF BansAnswered
  <2>2. LastGate(ask) \in {"save", "create", "admitted"}
    BY DEF LastGate
  <2>3. /\ ask' \in GateAsks /\ ask'.pc \in {"save", "create", "admitted"} /\ ask'.endpoint = ask.endpoint
        /\ ask'.unasked = ask.unasked
    BY Zenon, <1>1, <2>1, <2>2 DEF GateAsks
  <2>4. "auth ban" \notin Causes'
    BY Zenon, <1>1, <1>2, <1>5 DEF Spelled, KeptOut
  <2>5. Unlooked' = Unlooked
    BY <1>1, <2>3 DEF Unlooked
  <2>6. always' \subseteq Unlooked'
    BY Zenon, <1>2, <1>3, <2>4, <2>5
  <2> QED
    BY Zenon, <1>2, <1>3, <2>3, <2>6 DEF AtItsGates, Passed
<1> QED
  BY <1>4, <1>5

\* The request is let in, or fails.
LEMMA GateEnds ==
    ASSUME GateInv, Admit \/ AskFails
    PROVE  ask' \in GateAsks /\ AtItsGates(ask)' /\ Passed'
<1>1. /\ UNCHANGED <<gates, missing>> /\ Watch /\ ask \in GateAsks
      /\ \/ ask' = [ask EXCEPT !.pc = "admitted"] /\ ask.pc \in {"save", "create"}
         \/ ask' = [ask EXCEPT !.pc = "failed"]
  BY DEF Admit, AskFails, storeVars, GateInv
<1>2. /\ always' \subseteq always /\ ever \subseteq ever'
  BY <1>1, GateWatched
<1>3. /\ ask' \in GateAsks /\ ask'.endpoint = ask.endpoint /\ ask'.unasked = ask.unasked
      /\ \/ ask'.pc = "admitted" /\ ask.pc \in {"save", "create"}
         \/ ask'.pc = "failed"
  BY Zenon, <1>1 DEF GateAsks
<1>4. Unlooked' = Unlooked
  BY <1>1, <1>3 DEF Unlooked
<1>5. always \subseteq ever /\ always \subseteq Asked(ask.endpoint)
      /\ (ask.pc \in {"save", "create"} => always \subseteq Unlooked)
  BY Zenon DEF GateInv, Passed, Ahead
<1> QED
  BY <1>2, <1>3, <1>4, <1>5 DEF AtItsGates, Passed

\* What the steps do besides: the configuration stays, the store goes off with the tables
\* missing only.
LEMMA GateKeepsStore ==
    ASSUME GateInv, [GateNext]_gateVars, ask' \in GateAsks, Passed'
    PROVE  GateTypeOK' /\ StoreKnown'
<1>1. /\ {storeOn, schema, column, missing} \subseteq BOOLEAN
      /\ guest \in [state : {"none", "open", "renovation"}, token : {1, 2}]
      /\ auth \in {"none", "open", "banned", "unauthorized"} /\ game \in {"none", "open", "banned"}
      /\ gateChanges \in 0 .. MaxGateChanges /\ gateFaults \in 0 .. MaxGateFaults
      /\ MaxGateChanges \in Nat /\ MaxGateFaults \in Nat
      /\ gates.url \in BOOLEAN /\ ask.loaded \in {"none", "open", "banned"}
  BY Zenon, LoginGateAssumption DEF GateInv, GateTypeOK, StoreKnown, GateAsks
<1>2. (~missing => schema) /\ (gates.url /\ ~missing => storeOn)
  BY DEF GateInv, StoreKnown
<1> DEFINE Same == UNCHANGED <<gates, guest, auth, column, schema, missing, gateChanges>>
           Store == /\ gates' = gates /\ {storeOn', schema', column', missing'} \subseteq BOOLEAN
                    /\ (~missing' => schema') /\ (gates.url /\ ~missing' => storeOn')
                    /\ guest' \in [state : {"none", "open", "renovation"}, token : {1, 2}]
                    /\ auth' \in {"none", "open", "banned", "unauthorized"} /\ game' \in {"none", "open", "banned"}
                    /\ gateChanges' \in 0 .. MaxGateChanges /\ gateFaults' \in 0 .. MaxGateFaults
<1>3. ASSUME NEW e, NEW b, NEW t, Ask(e, b, t) PROVE Store
  BY <1>1, <1>2, <1>3 DEF Ask, storeVars
<1>4. ASSUME GuestAnswered \/ BansAnswered PROVE Store
  <2>1. Same /\ UNCHANGED <<game, gateFaults>> /\ storeOn' = (storeOn /\ schema)
    BY Zenon, <1>4 DEF GuestAnswered, BansAnswered, storeVars
  <2> QED
    BY <1>1, <1>2, <2>1
<1>5. ASSUME FailOpen \/ AskFails PROVE Store
  <2>1. Same /\ UNCHANGED <<game, storeOn>> /\ gateFaults < MaxGateFaults /\ gateFaults' = gateFaults + 1
    BY <1>5 DEF FailOpen, AskFails, storeVars
  <2> QED
    BY <1>1, <1>2, <2>1
<1>6. ASSUME Load \/ Admit PROVE Store
  <2>1. Same /\ UNCHANGED <<gateFaults, storeOn>> /\ game' \in {"none", "open", "banned"}
    BY <1>1, <1>6 DEF Load, Admit, storeVars
  <2> QED
    BY <1>1, <1>2, <2>1
<1>7. ASSUME OthersAsk PROVE Store
  BY <1>1, <1>2, <1>7 DEF OthersAsk, storeVars
<1>8. ASSUME ProcessRestarts PROVE Store
  BY <1>1, <1>2, <1>8 DEF ProcessRestarts
<1>9. ASSUME StoresChange PROVE Store
  <2>1. /\ UNCHANGED <<gates, storeOn, column, missing, gateFaults>>
        /\ gateChanges < MaxGateChanges /\ gateChanges' = gateChanges + 1
        /\ auth' \in {"none", "open", "banned", "unauthorized"} /\ game' \in {"none", "open", "banned"}
    BY <1>1, <1>9 DEF StoresChange
  <2>3. schema \in BOOLEAN
    BY <1>1
  <2>4. schema' \in BOOLEAN /\ (schema => schema')
    <3>1. schema' = TRUE \/ schema' = schema
      BY <1>9 DEF StoresChange
    <3> QED
      BY <2>3, <3>1
  <2>2. guest' \in [state : {"none", "open", "renovation"}, token : {1, 2}]
    BY <1>1, <1>9 DEF StoresChange, Guest
  <2> QED
    BY <1>1, <1>2, <2>1, <2>2, <2>4
<1>10. ASSUME DashboardBan PROVE Store
  BY <1>1, <1>2, <1>10 DEF DashboardBan
<1>11. ASSUME UNCHANGED gateVars PROVE Store
  BY <1>1, <1>2, <1>11 DEF gateVars, storeVars
<1>12. Store
  <2> HIDE DEF Store
  <2> QED
    BY <1>3, <1>4, <1>5, <1>6, <1>7, <1>8, <1>9, <1>10, <1>11 DEF GateNext
<1>13. always' \subseteq ever' /\ ask'.pc \in {"idle", "guests", "load", "bans", "save", "create",
                   "refused", "unknown", "failed", "admitted"}
  BY Zenon DEF Passed, GateAsks
<1>14. GateTypeOK'
  BY <1>12, <1>13 DEF GateTypeOK
<1>15. StoreKnown'
  BY <1>12 DEF StoreKnown, GateInv
<1> QED
  BY <1>14, <1>15

\* Every step keeps it.
LEMMA GateStep == GateInv /\ [GateNext]_gateVars => GateInv'
<1> SUFFICES ASSUME GateInv, [GateNext]_gateVars PROVE GateInv'
  OBVIOUS
<1> DEFINE Fine == ask' \in GateAsks /\ AtItsGates(ask)' /\ Passed'
<1>1. ASSUME NEW e \in GatedPaths, NEW b \in {"listed"} \cup gates.lists,
             NEW t \in IF gates.loginToken THEN {0, 1} ELSE {1}, Ask(e, b, t)
      PROVE  Fine
  BY <1>1, GateAsked
<1>2. ASSUME OthersAsk \/ UNCHANGED gateVars PROVE Fine
  <2>1. UNCHANGED <<gates, missing, ask, always, ever>>
    BY <1>2 DEF OthersAsk, gateVars, askVars, storeVars
  <2> QED
    BY Zenon, <2>1 DEF GateInv, AtItsGates, Passed, Unlooked
<1>3. ASSUME ProcessRestarts PROVE Fine
  <2>1. ask' = NoAsk /\ always' = {} /\ ever' = {}
    BY <1>3 DEF ProcessRestarts
  <2> QED
    BY <2>1 DEF NoAsk, GateAsks, AtItsGates, Passed
<1>4. ASSUME StoresChange PROVE Fine
  BY <1>4, GateWaits DEF StoresChange
<1>5. ASSUME DashboardBan PROVE Fine
  BY Zenon, <1>5 DEF DashboardBan, askVars, GateInv, AtItsGates, Passed, Unlooked
<1>6. ASSUME GuestAnswered \/ FailOpen \/ Load \/ BansAnswered \/ Admit \/ AskFails PROVE Fine
  BY <1>6, GateLooksUpGuest, GateFailsOpen, GateLoads, GateLooksUpBan, GateEnds
<1>7. Fine
  <2> HIDE DEF Fine
  <2> QED
    BY <1>1, <1>2, <1>3, <1>4, <1>5, <1>6 DEF GateNext, GatedPaths
<1>8. GateTypeOK' /\ StoreKnown'
  BY <1>7, GateKeepsStore
<1> QED
  BY <1>7, <1>8 DEF GateInv

\* Nobody is admitted whom a gate meant to keep out all the while his request was under
\* way, but for a lookup that failed, or without the auth store's URL or its tables; and
\* nobody is refused but for a cause that was there while he asked.
THEOREM GatesHold == GateInit /\ [][GateNext]_gateVars => [](GateTypeOK /\ AdmittedIsEligible /\ RefusedForCause)
<1>1. GateInv => GateTypeOK /\ AdmittedIsEligible /\ RefusedForCause
  BY Zenon DEF GateInv, Passed, AdmittedIsEligible, RefusedForCause, Unlooked, Ahead
<1> QED
  BY <1>1, GateStarts, GateStep, PTL

-----------------------------------------------------------------------------
(* The two buses (EventBus).  Redis has an entry as long as InMemoryBus    *)
(* believes it; of the lease that is so until a holder acquires what it    *)
(* holds.  A stream is the numbers of its messages, and what InMemoryBus   *)
(* has of it, kept or given, ends where it ends.                           *)

Entries ==
    {e \in [held : BOOLEAN, by : Holders \cup Values \cup {"nobody"}, exp : Int] : e.held \/ e = None}

\* What Redis has of an entry of InMemoryBus.
AsInRedis(e) == IF Expired(e, clock) THEN None ELSE e

OfKeys(keys) ==
    /\ keys = [lock |-> keys.lock, key |-> keys.key, presence |-> keys.presence,
               hash |-> keys.hash, counter |-> keys.counter]
    /\ keys.lock \in Entries /\ keys.key \in Entries /\ keys.presence \in Entries

KeysAlike ==
    /\ redis.key = AsInRedis(memory.key) /\ redis.presence = AsInRedis(memory.presence)
    /\ redis.hash = memory.hash /\ redis.counter = memory.counter

KeysInv ==
    /\ clock \in Nat /\ again \in BOOLEAN
    /\ OfKeys(memory) /\ OfKeys(redis) /\ KeysAlike
    /\ ~ again => redis.lock = AsInRedis(memory.lock) /\ (heeded => answers[1] = answers[2])

\* The last of n messages, in order.
Latest(s, n) ==
    /\ s \in Seq(Nat) /\ Len(s) <= n
    /\ \A i \in 1 .. Len(s) : s[i] = n - Len(s) + i

\* Some of the first n messages, in order.
Ascending(s, n) ==
    /\ s \in Seq(Nat) /\ \A i \in 1 .. Len(s) : s[i] <= n
    /\ \A i, j \in 1 .. Len(s) : i < j => s[i] < s[j]

StreamInv ==
    /\ stream \in Seq(Nat) /\ cursor \in 0 .. Len(stream) /\ subscribed \in BOOLEAN
    /\ \A i \in 1 .. Len(stream) : stream[i] = i
    /\ trimmed \in 0 .. Len(stream) /\ (trimmed = 0 \/ trimmed + MaxLen <= Len(stream))
    /\ given = [memory |-> given.memory, redis |-> given.redis]
    /\ Ascending(given.redis, cursor)
    /\ \A id \in 1 .. cursor : id > trimmed => \E i \in 1 .. Len(given.redis) : given.redis[i] = id
    /\ ~ subscribed => given.memory = <<>>
    /\ Latest(given.memory, Len(stream)) /\ Latest(log, Len(stream))

BusInv == KeysInv /\ StreamInv

\* None is an entry, and it is not expired.
LEMMA NoEntry == None \in Entries /\ ~ None.held /\ None.by = "nobody" /\ \A t : ~ Expired(None, t)
  BY DEF None, Entries, Expired

\* An entry that is set now is believed now.
LEMMA NewEntry ==
    ASSUME clock \in Nat, NEW v \in Holders \cup Values, NEW ttl \in 1 .. 2
    PROVE  /\ Until(v, ttl) \in Entries /\ ~ Expired(Until(v, ttl), clock)
           /\ Until(v, ttl).held /\ Until(v, ttl).by = v
  BY DEF Until, Entries, Expired

\* InMemoryBus shows of an entry what Redis has of it.
LEMMA SeenIs == ASSUME NEW e \in Entries PROVE Seen(e) = AsInRedis(e).by
  BY NoEntry DEF Seen, AsInRedis, Entries

\* The invariant says what the properties say.
LEMMA BusKeeps == BusInv => AnswersAlike /\ EachMessageOnce
<1> SUFFICES ASSUME BusInv PROVE AnswersAlike /\ EachMessageOnce
  OBVIOUS
<1>1. AnswersAlike
  BY SeenIs DEF BusInv, KeysInv, OfKeys, AnswersAlike
<1>2. /\ \A i, j \in DOMAIN given.redis : i < j => given.redis[i] < given.redis[j]
      /\ \A id \in 1 .. cursor : id > trimmed => id \in ToSet(given.redis)
      /\ trimmed = 0 \/ trimmed + MaxLen <= Len(stream)
  <2>1. DOMAIN given.redis = 1 .. Len(given.redis)
    BY DEF BusInv, StreamInv, Ascending
  <2> QED
    BY <2>1 DEF BusInv, StreamInv, Ascending, ToSet
<1>3. ASSUME NEW s, NEW t \in Seq(Nat), Latest(s, Len(t)), \A i \in 1 .. Len(t) : t[i] = i
      PROVE  IsSuffix(s, t)
  <2>1. s \in Seq(Nat) /\ Len(s) \in Nat /\ Len(t) \in Nat /\ Len(s) <= Len(t)
    BY <1>3 DEF Latest
  <2>2. /\ Reverse(s) \in Seq(Nat) /\ Len(Reverse(s)) = Len(s) /\ Reverse(t) \in Seq(Nat) /\ Len(Reverse(t)) = Len(t)
        /\ \A i \in 1 .. Len(s) : Reverse(s)[i] = s[Len(s) - i + 1]
        /\ \A i \in 1 .. Len(t) : Reverse(t)[i] = t[Len(t) - i + 1]
    BY <2>1 DEF Reverse
  <2>3. \A i \in 1 .. Len(s) : Reverse(s)[i] = Reverse(t)[i]
    <3> SUFFICES ASSUME NEW i \in 1 .. Len(s) PROVE Reverse(s)[i] = Reverse(t)[i]
      OBVIOUS
    <3>1. Len(s) - i + 1 \in 1 .. Len(s) /\ Len(t) - i + 1 \in 1 .. Len(t) /\ i \in 1 .. Len(t)
      BY <2>1
    <3>2. s[Len(s) - i + 1] = Len(t) - Len(s) + (Len(s) - i + 1)
      BY <1>3, <3>1 DEF Latest
    <3>3. t[Len(t) - i + 1] = Len(t) - i + 1
      BY <1>3, <3>1
    <3> QED
      BY <1>3, <2>1, <2>2, <3>1, <3>2, <3>3
  <2>4. SubSeq(Reverse(s), 1, Len(s)) = Reverse(s)
    BY <2>2, SubSeqFull
  <2>5. /\ SubSeq(Reverse(t), 1, Len(s)) \in Seq(Nat) /\ Len(SubSeq(Reverse(t), 1, Len(s))) = Len(s)
        /\ \A i \in 1 .. Len(s) : SubSeq(Reverse(t), 1, Len(s))[i] = Reverse(t)[i]
    BY <2>1, <2>2, SubSeqProperties
  <2>6. SubSeq(Reverse(t), 1, Len(s)) = Reverse(s)
    BY <2>1, <2>2, <2>3, <2>5, SeqEqual
  <2> QED
    BY <2>1, <2>2, <2>4, <2>6 DEF IsSuffix, IsPrefix
<1>4. IsSuffix(log, stream)
  BY <1>3 DEF BusInv, StreamInv
<1>5. IsSuffix(given.memory, stream)
  BY <1>3 DEF BusInv, StreamInv
<1> QED
  BY <1>1, <1>2, <1>4, <1>5 DEF EachMessageOnce

\* It holds at the start.
LEMMA BusStarts == BusInit => BusInv
<1> SUFFICES ASSUME BusInit PROVE BusInv
  OBVIOUS
<1>1. /\ memory = Empty /\ redis = Empty /\ clock = 0 /\ again = FALSE /\ answers[1] = answers[2]
      /\ stream = <<>> /\ log = <<>> /\ trimmed = 0 /\ cursor = 0 /\ subscribed \in BOOLEAN
      /\ given = [memory |-> <<>>, redis |-> <<>>]
  BY DEF BusInit
<1>2. KeysInv
  BY <1>1, NoEntry DEF KeysInv, OfKeys, KeysAlike, Empty, AsInRedis
<1>3. StreamInv
  BY <1>1 DEF StreamInv, Latest, Ascending
<1> QED
  BY <1>2, <1>3 DEF BusInv

\* A call that changes no stream.
LEMMA CallStep ==
    ASSUME BusInv, Call, KeysInv' PROVE BusInv'
  BY DEF BusInv, Call, streamVars, StreamInv, Latest

\* Both buses give the lease alike, but to one who holds it.
LEMMA AcquireStep == ASSUME KeysInv, NEW token \in Holders, NEW ttl \in 1 .. 2, AcquireLock(token, ttl) PROVE KeysInv'
<1> DEFINE u == Until(token, ttl)
<1>1. /\ u \in Entries /\ ~ Expired(u, clock) /\ u.held /\ u.by = token
  BY NewEntry DEF KeysInv
<1>2. /\ clock' = clock
      /\ memory' = IF FreeInMemory(token) THEN [memory EXCEPT !.lock = u] ELSE memory
      /\ redis' = IF ~ redis.lock.held THEN [redis EXCEPT !.lock = u] ELSE redis
      /\ answers' = <<FreeInMemory(token), ~ redis.lock.held>>
      /\ again' = (again \/ (redis.lock.held /\ redis.lock.by = token))
  BY DEF AcquireLock, Call, Answered
<1> HIDE DEF u
<1>3. OfKeys(memory)' /\ OfKeys(redis)' /\ clock' \in Nat /\ again' \in BOOLEAN
  BY <1>1, <1>2 DEF KeysInv, OfKeys
<1>4. /\ memory'.key = memory.key /\ memory'.presence = memory.presence /\ memory'.hash = memory.hash /\ memory'.counter = memory.counter
      /\ redis'.key = redis.key /\ redis'.presence = redis.presence /\ redis'.hash = redis.hash /\ redis'.counter = redis.counter
  BY <1>2 DEF KeysInv, OfKeys
<1>5. KeysAlike'
  BY <1>2, <1>4 DEF KeysInv, KeysAlike, AsInRedis
<1>6. ASSUME ~ again' PROVE redis'.lock = AsInRedis(memory.lock)' /\ answers'[1] = answers'[2]
  <2>1. /\ redis.lock = AsInRedis(memory.lock) /\ ~ (redis.lock.held /\ redis.lock.by = token)
        /\ memory.lock \in Entries /\ redis.lock \in Entries
    BY <1>2, <1>6 DEF KeysInv, OfKeys
  <2>2. FreeInMemory(token) <=> ~ redis.lock.held
    BY <2>1, NoEntry DEF FreeInMemory, AsInRedis, Entries, Expired
  <2>3. CASE redis.lock.held
    <3>1. memory' = memory /\ redis' = redis
      BY <1>2, <2>2, <2>3
    <3>2. (FreeInMemory(token) = FALSE) /\ ((~ redis.lock.held) = FALSE)
      BY <2>2, <2>3, Zenon DEF FreeInMemory
    <3>3. answers'[1] = answers'[2]
      BY <1>2, <3>2
    <3> QED
      BY <1>2, <2>1, <3>1, <3>3 DEF AsInRedis
  <2>4. CASE ~ redis.lock.held
    <3>1. memory' = [memory EXCEPT !.lock = u] /\ redis' = [redis EXCEPT !.lock = u]
      BY <1>2, <2>2, <2>4
    <3>2. memory'.lock = u /\ redis'.lock = u
      BY <3>1 DEF KeysInv, OfKeys
    <3>3. (FreeInMemory(token) = TRUE) /\ ((~ redis.lock.held) = TRUE)
      BY <2>2, <2>4, Zenon DEF FreeInMemory
    <3> QED
      BY <1>1, <1>2, <3>2, <3>3 DEF AsInRedis
  <2> QED
    BY <2>3, <2>4
<1> QED
  BY <1>3, <1>5, <1>6 DEF KeysInv

\* Both buses renew the lease for its holder alone.
LEMMA RenewStep == ASSUME KeysInv, NEW token \in Holders, NEW ttl \in 1 .. 2, RenewLock(token, ttl) PROVE KeysInv'
<1> DEFINE u == Until(token, ttl)
<1>1. /\ u \in Entries /\ ~ Expired(u, clock) /\ u.held /\ u.by = token
  BY NewEntry DEF KeysInv
<1>2. /\ clock' = clock /\ again' = again
      /\ memory' = IF MineInMemory(token) THEN [memory EXCEPT !.lock = u] ELSE memory
      /\ redis' = IF MineInRedis(token) THEN [redis EXCEPT !.lock = u] ELSE redis
      /\ answers' = <<MineInMemory(token), MineInRedis(token)>>
  BY DEF RenewLock, Call, Answered
<1> HIDE DEF u
<1>3. OfKeys(memory)' /\ OfKeys(redis)' /\ clock' \in Nat /\ again' \in BOOLEAN
  BY <1>1, <1>2 DEF KeysInv, OfKeys
<1>4. /\ memory'.key = memory.key /\ memory'.presence = memory.presence /\ memory'.hash = memory.hash /\ memory'.counter = memory.counter
      /\ redis'.key = redis.key /\ redis'.presence = redis.presence /\ redis'.hash = redis.hash /\ redis'.counter = redis.counter
  BY <1>2 DEF KeysInv, OfKeys
<1>5. KeysAlike'
  BY <1>2, <1>4 DEF KeysInv, KeysAlike, AsInRedis
<1>6. ASSUME ~ again PROVE redis'.lock = AsInRedis(memory.lock)' /\ answers'[1] = answers'[2]
  <2>1. /\ redis.lock = AsInRedis(memory.lock)
        /\ memory.lock \in Entries /\ redis.lock \in Entries
    BY <1>6 DEF KeysInv, OfKeys
  <2>2. MineInMemory(token) <=> MineInRedis(token)
    BY <2>1, NoEntry DEF MineInMemory, MineInRedis, AsInRedis, Entries
  <2>3. MineInMemory(token) = MineInRedis(token)
    BY <2>2, Zenon DEF MineInMemory, MineInRedis
  <2>4. CASE MineInRedis(token)
    <3>1. memory'.lock = u /\ redis'.lock = u
      BY <1>2, <2>2, <2>4 DEF KeysInv, OfKeys
    <3> QED
      BY <1>1, <1>2, <2>3, <3>1 DEF AsInRedis
  <2>5. CASE ~ MineInRedis(token)
    BY <1>2, <2>1, <2>2, <2>3, <2>5 DEF AsInRedis
  <2> QED
    BY <2>4, <2>5
<1> QED
  BY <1>2, <1>3, <1>5, <1>6 DEF KeysInv

\* Both buses release the lease for its holder alone.
LEMMA ReleaseStep == ASSUME KeysInv, NEW token \in Holders, ReleaseLock(token) PROVE KeysInv'
<1>2. /\ clock' = clock /\ again' = again
      /\ memory' = IF memory.lock.held /\ memory.lock.by = token THEN [memory EXCEPT !.lock = None] ELSE memory
      /\ redis' = IF MineInRedis(token) THEN [redis EXCEPT !.lock = None] ELSE redis
      /\ heeded' = FALSE
  BY DEF ReleaseLock, Call, Unheeded
<1>3. OfKeys(memory)' /\ OfKeys(redis)' /\ clock' \in Nat /\ again' \in BOOLEAN
  BY <1>2, NoEntry DEF KeysInv, OfKeys
<1>4. /\ memory'.key = memory.key /\ memory'.presence = memory.presence /\ memory'.hash = memory.hash /\ memory'.counter = memory.counter
      /\ redis'.key = redis.key /\ redis'.presence = redis.presence /\ redis'.hash = redis.hash /\ redis'.counter = redis.counter
  BY <1>2 DEF KeysInv, OfKeys
<1>5. KeysAlike'
  BY <1>2, <1>4 DEF KeysInv, KeysAlike, AsInRedis
<1>6. ASSUME ~ again PROVE redis'.lock = AsInRedis(memory.lock)'
  <2>1. /\ redis.lock = AsInRedis(memory.lock)
        /\ memory.lock \in Entries /\ redis.lock \in Entries
    BY <1>6 DEF KeysInv, OfKeys
  <2>2. CASE memory.lock.held /\ memory.lock.by = token
    <3>1. memory'.lock = None
      BY <1>2, <2>2 DEF KeysInv, OfKeys
    <3>2. redis'.lock = None
      BY <1>2, <2>1, <2>2, NoEntry DEF KeysInv, OfKeys, MineInRedis, AsInRedis
    <3> QED
      BY <1>2, <3>1, <3>2 DEF AsInRedis
  <2>3. CASE ~ (memory.lock.held /\ memory.lock.by = token)
    <3>1. ~ MineInRedis(token)
      BY <2>1, <2>3, NoEntry DEF MineInRedis, AsInRedis
    <3>2. memory' = memory /\ redis' = redis
      BY <1>2, <2>3, <3>1
    <3> QED
      BY <1>2, <2>1, <3>2 DEF AsInRedis
  <2> QED
    BY <2>2, <2>3
<1> QED
  BY <1>2, <1>3, <1>5, <1>6 DEF KeysInv

\* Calls about a key, presence, the hash or the counter: the lease stays as it is.
LEMMA ValuesStep ==
    ASSUME KeysInv, UNCHANGED <<clock, again>>, memory'.lock = memory.lock, redis'.lock = redis.lock,
           OfKeys(memory)', OfKeys(redis)', KeysAlike', heeded' => answers'[1] = answers'[2]
    PROVE  KeysInv'
  BY DEF KeysInv, AsInRedis

\* Time passes for both buses.
LEMMA BusTickStep == ASSUME KeysInv, BusTick PROVE KeysInv'
<1>1. /\ clock' = clock + 1 /\ redis' = Unexpired(redis, clock + 1) /\ UNCHANGED <<memory, answers, heeded, again>>
  BY DEF BusTick
<1>2. /\ redis'.lock = (IF Expired(redis.lock, clock + 1) THEN None ELSE redis.lock)
      /\ redis'.key = (IF Expired(redis.key, clock + 1) THEN None ELSE redis.key)
      /\ redis'.presence = (IF Expired(redis.presence, clock + 1) THEN None ELSE redis.presence)
      /\ redis'.hash = redis.hash /\ redis'.counter = redis.counter
      /\ redis' = [lock |-> redis'.lock, key |-> redis'.key, presence |-> redis'.presence,
                   hash |-> redis'.hash, counter |-> redis'.counter]
  BY <1>1 DEF KeysInv, OfKeys, Unexpired
<1>3. OfKeys(memory)' /\ OfKeys(redis)' /\ clock' \in Nat /\ again' \in BOOLEAN
  BY <1>1, <1>2, NoEntry DEF KeysInv, OfKeys
<1>4. ASSUME NEW e \in Entries
      PROVE  (IF Expired(AsInRedis(e), clock + 1) THEN None ELSE AsInRedis(e))
             = (IF Expired(e, clock + 1) THEN None ELSE e)
  <2>1. clock \in Nat /\ e.exp \in Int
    BY DEF KeysInv, Entries
  <2>2. Expired(e, clock) => Expired(e, clock + 1)
    BY <2>1 DEF Expired
  <2>3. CASE Expired(e, clock)
    BY <2>2, <2>3, NoEntry DEF AsInRedis
  <2>4. CASE ~ Expired(e, clock)
    BY <2>4 DEF AsInRedis
  <2> QED
    BY <2>3, <2>4
<1>5. KeysAlike'
  BY <1>1, <1>2, <1>4 DEF KeysInv, KeysAlike, OfKeys, AsInRedis
<1>6. ~ again' => redis'.lock = AsInRedis(memory.lock)' /\ (heeded' => answers'[1] = answers'[2])
  BY <1>1, <1>2, <1>4 DEF KeysInv, OfKeys, AsInRedis
<1> QED
  BY <1>3, <1>5, <1>6 DEF KeysInv

\* Every step keeps it.
LEMMA BusStep == BusInv /\ [BusNext]_busVars => BusInv'
<1> SUFFICES ASSUME BusInv, [BusNext]_busVars PROVE BusInv'
  OBVIOUS
<1>0. KeysInv /\ StreamInv /\ OfKeys(memory) /\ OfKeys(redis) /\ KeysAlike /\ clock \in Nat
  BY DEF BusInv, KeysInv
<1>1. CASE BusTick
  BY <1>0, <1>1, BusTickStep DEF BusTick, BusInv, StreamInv, Latest, streamVars
<1>2. ASSUME NEW token \in Holders, NEW ttl \in 1 .. 2, AcquireLock(token, ttl) \/ RenewLock(token, ttl) PROVE BusInv'
  BY <1>0, <1>2, AcquireStep, RenewStep, CallStep DEF AcquireLock, RenewLock
<1>3. ASSUME NEW token \in Holders, ReleaseLock(token) PROVE BusInv'
  BY <1>0, <1>3, ReleaseStep, CallStep DEF ReleaseLock
<1>4. ASSUME NEW v \in Values, SetKey(v, 1) PROVE BusInv'
  <2> DEFINE u == Until(v, 1)
  <2>1. u \in Entries /\ ~ Expired(u, clock)
    BY <1>0, NewEntry
  <2>2. /\ Call /\ UNCHANGED again /\ answers' = <<0, 0>> /\ clock' = clock
        /\ memory' = [memory EXCEPT !.key = u] /\ redis' = [redis EXCEPT !.key = u]
    BY <1>4 DEF SetKey, Call, Answered
  <2> HIDE DEF u
  <2>3. OfKeys(memory)' /\ OfKeys(redis)' /\ memory'.lock = memory.lock /\ redis'.lock = redis.lock
    BY <1>0, <2>1, <2>2 DEF OfKeys
  <2>4. KeysAlike'
    BY <1>0, <2>1, <2>2 DEF OfKeys, KeysAlike, AsInRedis
  <2> QED
    BY <1>0, <2>2, <2>3, <2>4, ValuesStep, CallStep
<1>5. ASSUME NEW v \in Values, SetPresence(v, 2) PROVE BusInv'
  <2> DEFINE u == Until(v, 2)
  <2>1. u \in Entries /\ ~ Expired(u, clock)
    BY <1>0, NewEntry
  <2>2. /\ Call /\ UNCHANGED again /\ answers' = <<0, 0>> /\ clock' = clock
        /\ memory' = [memory EXCEPT !.presence = u] /\ redis' = [redis EXCEPT !.presence = u]
    BY <1>5 DEF SetPresence, Call, Answered
  <2> HIDE DEF u
  <2>3. OfKeys(memory)' /\ OfKeys(redis)' /\ memory'.lock = memory.lock /\ redis'.lock = redis.lock
    BY <1>0, <2>1, <2>2 DEF OfKeys
  <2>4. KeysAlike'
    BY <1>0, <2>1, <2>2 DEF OfKeys, KeysAlike, AsInRedis
  <2> QED
    BY <1>0, <2>2, <2>3, <2>4, ValuesStep, CallStep
<1>6. ASSUME GetKey PROVE BusInv'
  <2>1. /\ Call /\ UNCHANGED <<again, redis, clock>> /\ answers' = <<Seen(memory.key), redis.key.by>>
        /\ memory' = [memory EXCEPT !.key = AsInRedis(memory.key)]
    BY <1>6 DEF GetKey, Call, Answered, AsInRedis
  <2>2. AsInRedis(memory.key) \in Entries /\ ~ Expired(AsInRedis(memory.key), clock)
    BY <1>0, NoEntry DEF OfKeys, AsInRedis
  <2>3. /\ OfKeys(memory)' /\ OfKeys(redis)' /\ memory'.lock = memory.lock /\ redis'.lock = redis.lock
        /\ memory'.key = redis.key /\ memory'.presence = memory.presence /\ memory'.hash = memory.hash
        /\ memory'.counter = memory.counter
    BY <1>0, <2>1, <2>2 DEF OfKeys, KeysAlike
  <2>4. KeysAlike'
    BY <1>0, <2>1, <2>2, <2>3 DEF KeysAlike, AsInRedis
  <2>5. Seen(memory.key) = redis.key.by
    BY <1>0, SeenIs DEF KeysAlike, OfKeys
  <2> QED
    BY <1>0, <2>1, <2>3, <2>4, <2>5, ValuesStep, CallStep
<1>7. ASSUME GetNode PROVE BusInv'
  <2>1. /\ Call /\ UNCHANGED <<again, redis, clock>> /\ answers' = <<Seen(memory.presence), redis.presence.by>>
        /\ memory' = [memory EXCEPT !.presence = AsInRedis(memory.presence)]
    BY <1>7 DEF GetNode, Call, Answered, AsInRedis
  <2>2. AsInRedis(memory.presence) \in Entries /\ ~ Expired(AsInRedis(memory.presence), clock)
    BY <1>0, NoEntry DEF OfKeys, AsInRedis
  <2>3. /\ OfKeys(memory)' /\ OfKeys(redis)' /\ memory'.lock = memory.lock /\ redis'.lock = redis.lock
        /\ memory'.presence = redis.presence /\ memory'.key = memory.key /\ memory'.hash = memory.hash
        /\ memory'.counter = memory.counter
    BY <1>0, <2>1, <2>2 DEF OfKeys, KeysAlike
  <2>4. KeysAlike'
    BY <1>0, <2>1, <2>2, <2>3 DEF KeysAlike, AsInRedis
  <2>5. Seen(memory.presence) = redis.presence.by
    BY <1>0, SeenIs DEF KeysAlike, OfKeys
  <2> QED
    BY <1>0, <2>1, <2>3, <2>4, <2>5, ValuesStep, CallStep
<1>8. ASSUME ClearPresence PROVE BusInv'
  <2>1. /\ Call /\ UNCHANGED <<again, clock>> /\ heeded' = FALSE
        /\ memory' = [memory EXCEPT !.presence = None] /\ redis' = [redis EXCEPT !.presence = None]
    BY <1>8 DEF ClearPresence, Call, Unheeded
  <2>2. OfKeys(memory)' /\ OfKeys(redis)' /\ memory'.lock = memory.lock /\ redis'.lock = redis.lock
    BY <1>0, <2>1, NoEntry DEF OfKeys
  <2>3. KeysAlike'
    BY <1>0, <2>1, NoEntry DEF OfKeys, KeysAlike, AsInRedis
  <2> QED
    BY <1>0, <2>1, <2>2, <2>3, ValuesStep, CallStep
<1>9. ASSUME NEW f \in Fields, HDel(f) PROVE BusInv'
  <2>1. /\ Call /\ UNCHANGED <<again, clock>> /\ answers'[1] = (f \in DOMAIN memory.hash) /\ answers'[2] = (f \in DOMAIN redis.hash)
        /\ memory' = [memory EXCEPT !.hash = Cut(memory.hash, f)] /\ redis' = [redis EXCEPT !.hash = Cut(redis.hash, f)]
    BY <1>9 DEF HDel, Call, Answered
  <2>2. OfKeys(memory)' /\ OfKeys(redis)' /\ memory'.lock = memory.lock /\ redis'.lock = redis.lock
    BY <1>0, <2>1 DEF OfKeys
  <2>3. KeysAlike'
    BY <1>0, <2>1 DEF OfKeys, KeysAlike, AsInRedis
  <2>4. answers'[1] = answers'[2]
    BY <1>0, <2>1 DEF KeysAlike
  <2> QED
    BY <1>0, <2>1, <2>2, <2>3, <2>4, ValuesStep, CallStep
<1>10. ASSUME NEW f \in Fields, NEW v \in Values, HSet(f, v) PROVE BusInv'
  <2>1. /\ Call /\ UNCHANGED <<again, clock>> /\ heeded' = FALSE
        /\ memory' = [memory EXCEPT !.hash = Put(memory.hash, f, v)] /\ redis' = [redis EXCEPT !.hash = Put(redis.hash, f, v)]
    BY <1>10 DEF HSet, Call, Unheeded
  <2>2. OfKeys(memory)' /\ OfKeys(redis)' /\ memory'.lock = memory.lock /\ redis'.lock = redis.lock
    BY <1>0, <2>1 DEF OfKeys
  <2>3. KeysAlike'
    BY <1>0, <2>1 DEF OfKeys, KeysAlike, AsInRedis
  <2> QED
    BY <1>0, <2>1, <2>2, <2>3, ValuesStep, CallStep
<1>11. ASSUME HGetAll PROVE BusInv'
  <2>1. /\ Call /\ UNCHANGED <<again, clock, memory, redis>> /\ answers' = <<memory.hash, redis.hash>>
    BY <1>11 DEF HGetAll, Call, Answered
  <2>2. OfKeys(memory)' /\ OfKeys(redis)' /\ KeysAlike' /\ answers'[1] = answers'[2]
    BY <1>0, <2>1 DEF OfKeys, KeysAlike, AsInRedis
  <2> QED
    BY <1>0, <2>1, <2>2, ValuesStep, CallStep
<1>12. ASSUME Incr PROVE BusInv'
  <2>1. /\ Call /\ UNCHANGED <<again, clock>> /\ answers' = <<memory.counter + 1, redis.counter + 1>>
        /\ memory' = [memory EXCEPT !.counter = memory.counter + 1] /\ redis' = [redis EXCEPT !.counter = redis.counter + 1]
    BY <1>12 DEF Incr, Call, Answered
  <2>2. OfKeys(memory)' /\ OfKeys(redis)' /\ memory'.lock = memory.lock /\ redis'.lock = redis.lock
    BY <1>0, <2>1 DEF OfKeys
  <2>3. KeysAlike' /\ answers'[1] = answers'[2]
    BY <1>0, <2>1 DEF OfKeys, KeysAlike, AsInRedis
  <2> QED
    BY <1>0, <2>1, <2>2, <2>3, ValuesStep, CallStep
<1>13. ASSUME UNCHANGED <<clock, memory, redis, answers, heeded, again>>, StreamInv' PROVE BusInv'
  BY <1>0, <1>13 DEF BusInv, KeysInv, OfKeys, KeysAlike, AsInRedis
<1>14. ASSUME Subscribe PROVE BusInv'
  BY <1>0, <1>13, <1>14 DEF Subscribe, StreamCall, StreamInv, Latest
<1>15. ASSUME ReadGroup PROVE BusInv'
  <2> DEFINE last == IF cursor < trimmed THEN trimmed ELSE cursor
             id == 1 + last
  <2>1. /\ subscribed /\ id <= Len(stream) /\ cursor' = id
        /\ given' = [given EXCEPT !.redis = Append(given.redis, id)]
        /\ UNCHANGED <<clock, memory, redis, answers, heeded, log, stream, trimmed, subscribed, again>>
    BY <1>15 DEF ReadGroup, Deliver
  <2>2. /\ cursor \in Nat /\ trimmed \in Nat /\ Len(stream) \in Nat /\ id \in Nat /\ id > cursor /\ id > trimmed
        /\ id = cursor + 1 \/ id = trimmed + 1
    BY <1>0 DEF StreamInv
  <2> HIDE DEF id
  <2>3. given'.memory = given.memory /\ given'.redis = Append(given.redis, id)
        /\ given' = [memory |-> given'.memory, redis |-> given'.redis]
    BY <1>0, <2>1 DEF StreamInv
  <2> DEFINE s == given.redis
             t == given'.redis
             n == Len(s)
  <2>4. Ascending(s, cursor) /\ \A m \in 1 .. cursor : m > trimmed => \E i \in 1 .. n : s[i] = m
    BY <1>0 DEF StreamInv
  <2>5. s \in Seq(Nat) /\ n \in Nat
    BY <2>4, LenProperties DEF Ascending
  <2>6. /\ t \in Seq(Nat) /\ Len(t) = n + 1 /\ t[n + 1] = id
        /\ \A i \in 1 .. n : t[i] = s[i] /\ s[i] \in Nat
    BY <2>2, <2>3, <2>5, AppendProperties, ElementOfSeq
  <2> HIDE DEF s, t, n
  <2>7. \A i \in 1 .. n : s[i] <= cursor /\ \A j \in 1 .. n : i < j => s[i] < s[j]
    BY <2>4 DEF Ascending, n
  <2>8. ASSUME NEW i \in 1 .. n + 1 PROVE t[i] <= id /\ (i # n + 1 => t[i] < id)
    <3>1. CASE i = n + 1
      BY <2>2, <2>6, <3>1
    <3>2. CASE i # n + 1
      <4>1. i \in 1 .. n
        BY <2>5, <3>2
      <4> QED
        BY <2>2, <2>6, <2>7, <4>1
    <3> QED
      BY <3>1, <3>2
  <2>9. ASSUME NEW i \in 1 .. n + 1, NEW j \in 1 .. n + 1, i < j PROVE t[i] < t[j]
    <3>1. CASE j = n + 1
      BY <2>5, <2>6, <2>8, <2>9, <3>1
    <3>2. CASE j # n + 1
      <4>1. i \in 1 .. n /\ j \in 1 .. n
        BY <2>5, <2>9, <3>2
      <4> QED
        BY <2>6, <2>7, <2>9, <4>1
    <3> QED
      BY <3>1, <3>2
  <2>10. Ascending(t, id)
    BY <2>6, <2>8, <2>9 DEF Ascending
  <2>11. ASSUME NEW m \in 1 .. id, m > trimmed PROVE \E i \in 1 .. Len(t) : t[i] = m
    <3>1. CASE m = id
      BY <2>5, <2>6, <3>1
    <3>2. CASE m # id
      <4>1. m \in 1 .. cursor
        BY <2>2, <2>11, <3>2
      <4>2. PICK i \in 1 .. n : s[i] = m
        BY <2>4, <2>11, <4>1
      <4>3. i \in 1 .. Len(t) /\ t[i] = m
        BY <2>5, <2>6, <4>2
      <4> QED
        BY <4>3
    <3> QED
      BY <3>1, <3>2
  <2>12. Ascending(given.redis, cursor)' /\ \A m \in 1 .. id : m > trimmed => \E i \in 1 .. Len(given'.redis) : given'.redis[i] = m
    BY <2>1, <2>10, <2>11 DEF t
  <2>13. cursor' \in 0 .. Len(stream')
    BY <2>1, <2>2
  <2>14. StreamInv'
    BY <1>0, <2>1, <2>3, <2>12, <2>13 DEF StreamInv, Latest
  <2> QED
    BY <1>13, <2>1, <2>14
<1>16. ASSUME PublishEvent PROVE BusInv'
  <2> DEFINE id == Len(stream) + 1
             grown == Append(log, id)
  <2>1. /\ stream' = Append(stream, id) /\ log' = IF Len(grown) > Trim THEN Tail(grown) ELSE grown
        /\ given' = IF subscribed THEN [given EXCEPT !.memory = Append(given.memory, id)] ELSE given
        /\ trimmed' \in {trimmed} \cup {n \in trimmed .. id : n + MaxLen <= id}
        /\ UNCHANGED <<clock, memory, redis, answers, heeded, again, cursor, subscribed>>
    BY <1>16 DEF PublishEvent, StreamCall
  <2>2. Len(stream) \in Nat /\ id \in Nat /\ id = Len(stream) + 1 /\ stream \in Seq(Nat)
    BY <1>0 DEF StreamInv
  <2>3. Len(stream') = id /\ stream' \in Seq(Nat) /\ \A i \in 1 .. id : stream'[i] = i
    BY <1>0, <2>1, <2>2, AppendProperties DEF StreamInv
  <2>4. ASSUME NEW s, Latest(s, Len(stream))
        PROVE  Latest(Append(s, id), id)
    <3>1. s \in Seq(Nat) /\ Len(s) \in Nat /\ Len(s) <= Len(stream)
      BY <2>4 DEF Latest
    <3>2. /\ Append(s, id) \in Seq(Nat) /\ Len(Append(s, id)) = Len(s) + 1
          /\ \A i \in 1 .. Len(s) : Append(s, id)[i] = s[i]
          /\ Append(s, id)[Len(s) + 1] = id
      BY <2>2, <3>1, AppendProperties
    <3> DEFINE a == Append(s, id)
    <3>3. \A i \in 1 .. Len(s) : s[i] = Len(stream) - Len(s) + i
      BY <2>4 DEF Latest
    <3>4. a \in Seq(Nat) /\ Len(a) = Len(s) + 1 /\ a[Len(s) + 1] = id /\ \A i \in 1 .. Len(s) : a[i] = s[i]
      BY <3>2
    <3> HIDE DEF a, id
    <3>5. ASSUME NEW i \in 1 .. Len(a) PROVE a[i] = id - Len(a) + i
      <4>1. CASE i = Len(a)
        BY <2>2, <3>1, <3>4, <4>1
      <4>2. CASE i # Len(a)
        <5>1. i \in 1 .. Len(s)
          BY <3>1, <3>4, <4>2
        <5>2. a[i] = Len(stream) - Len(s) + i
          BY <3>3, <3>4, <5>1
        <5> QED
          BY <2>2, <3>1, <3>4, <5>1, <5>2
      <4> QED
        BY <4>1, <4>2
    <3>6. Latest(a, id)
      BY <2>2, <3>1, <3>4, <3>5 DEF Latest
    <3> QED
      BY <3>6 DEF a
  <2>5. Latest(log', id)
    <3>1. Latest(grown, id)
      BY <1>0, <2>4 DEF StreamInv
    <3>2. /\ grown \in Seq(Nat) /\ Len(grown) \in Nat /\ Len(grown) = Len(log) + 1 /\ Len(log) \in Nat
      BY <1>0, <2>2, AppendProperties DEF StreamInv, Latest
    <3> HIDE DEF grown, id
    <3>3. CASE log' = grown
      BY <3>1, <3>3
    <3>4. CASE log' = Tail(grown)
      <4> DEFINE rest == Tail(grown)
      <4>1. /\ rest \in Seq(Nat) /\ Len(rest) = Len(grown) - 1 /\ Len(rest) \in Nat
            /\ \A i \in 1 .. Len(rest) : rest[i] = grown[i + 1]
        BY <3>2, HeadTailProperties
      <4>2. Len(grown) <= id /\ \A i \in 1 .. Len(grown) : grown[i] = id - Len(grown) + i
        BY <3>1 DEF Latest
      <4> HIDE DEF rest
      <4>3. \A i \in 1 .. Len(rest) : i + 1 \in 1 .. Len(grown)
        BY <3>2, <4>1
      <4>4. \A i \in 1 .. Len(rest) : rest[i] = id - Len(rest) + i
        BY <2>2, <3>2, <4>1, <4>2, <4>3
      <4>5. Latest(rest, id)
        BY <2>2, <3>2, <4>1, <4>2, <4>4 DEF Latest
      <4> QED
        BY <3>4, <4>5 DEF rest
    <3> QED
      BY <2>1, <3>3, <3>4 DEF grown
  <2>6. /\ given' = [memory |-> given'.memory, redis |-> given'.redis] /\ given'.redis = given.redis
        /\ given'.memory = (IF subscribed THEN Append(given.memory, id) ELSE given.memory)
    BY <1>0, <2>1 DEF StreamInv
  <2>7. Latest(given'.memory, id)
    <3>1. CASE subscribed
      BY <1>0, <2>4, <2>6, <3>1 DEF StreamInv
    <3>2. CASE ~ subscribed
      <4>1. given'.memory = <<>>
        BY <1>0, <2>6, <3>2 DEF StreamInv
      <4> QED
        BY <2>2, <4>1 DEF Latest
    <3> QED
      BY <3>1, <3>2
  <2>8. StreamInv'
    <3>1. cursor' \in 0 .. Len(stream') /\ cursor' = cursor /\ subscribed' = subscribed
      BY <1>0, <2>1, <2>2, <2>3 DEF StreamInv
    <3>2. ~ subscribed' => given'.memory = <<>>
      BY <1>0, <2>1, <2>6 DEF StreamInv
    <3>3. Latest(given'.memory, Len(stream')) /\ Latest(log', Len(stream'))
      BY <2>3, <2>5, <2>7
    <3>4. /\ trimmed \in Nat /\ trimmed \in 0 .. Len(stream) /\ MaxLen \in Nat
          /\ trimmed = 0 \/ trimmed + MaxLen <= Len(stream)
      BY <1>0, <2>2, BusAssumption DEF StreamInv
    <3> HIDE DEF id, grown
    <3>5. trimmed' \in 0 .. Len(stream') /\ (trimmed' = 0 \/ trimmed' + MaxLen <= Len(stream')) /\ trimmed' >= trimmed
      BY <2>1, <2>2, <2>3, <3>4
    <3>6. Ascending(given.redis, cursor)'
      BY <1>0, <2>6, <3>1 DEF StreamInv
    <3>7. \A m \in 1 .. cursor : m > trimmed' => \E i \in 1 .. Len(given.redis) : given.redis[i] = m
      BY <1>0, <3>4, <3>5 DEF StreamInv
    <3> QED
      BY <1>0, <2>1, <2>3, <2>6, <3>1, <3>2, <3>3, <3>5, <3>6, <3>7 DEF StreamInv
  <2> QED
    BY <1>13, <2>1, <2>8
<1>17. ASSUME UNCHANGED busVars PROVE BusInv'
  BY <1>0, <1>13, <1>17 DEF busVars, streamVars, StreamInv, Latest
<1> QED
  BY <1>1, <1>2, <1>3, <1>4, <1>5, <1>6, <1>7, <1>8, <1>9, <1>10, <1>11, <1>12, <1>14, <1>15, <1>16, <1>17 DEF BusNext
-----------------------------------------------------------------------------
(* The types of the bus.                                                   *)

\* The hash has its fields, and there are no more increments than calls.
BusTyped ==
    /\ clock \in 0 .. MaxBusTime /\ busOps \in 0 .. MaxBusOps
    /\ log \in Seq(Nat) /\ Len(log) <= Trim /\ stream \in Seq(Nat) /\ cursor \in 0 .. Len(stream)
    /\ trimmed \in Nat
    /\ DOMAIN memory.hash \subseteq Fields /\ memory.counter \in 0 .. busOps

\* A call leaves the streams alone and counts.
LEMMA CallTyped ==
    ASSUME BusTyped, Call, DOMAIN memory'.hash \subseteq Fields,
           memory'.counter = memory.counter \/ memory'.counter = memory.counter + 1
    PROVE  BusTyped'
<1>1. /\ busOps < MaxBusOps /\ busOps' = busOps + 1 /\ UNCHANGED <<clock, log, stream, trimmed, cursor>>
  BY DEF Call, streamVars
<1>2. busOps' \in 0 .. MaxBusOps /\ memory'.counter \in 0 .. busOps'
  BY <1>1, BusAssumption DEF BusTyped
<1> QED
  BY <1>1, <1>2, Zenon DEF BusTyped

\* A call of the keys leaves hash and counter alone.
LEMMA KeysTyped ==
    ASSUME BusTyped, OfKeys(memory),
           \/ \E token \in Holders, ttl \in 1 .. 2 : AcquireLock(token, ttl) \/ RenewLock(token, ttl)
           \/ \E token \in Holders : ReleaseLock(token)
           \/ \E v \in Values : SetKey(v, 1) \/ SetPresence(v, 2)
           \/ GetKey \/ ClearPresence \/ GetNode \/ HGetAll
    PROVE  BusTyped'
<1>1. ASSUME NEW f, memory' \in {memory, [memory EXCEPT !.lock = f], [memory EXCEPT !.key = f], [memory EXCEPT !.presence = f]}
      PROVE  memory'.hash = memory.hash /\ memory'.counter = memory.counter
  BY <1>1 DEF OfKeys
<1>2. Call /\ \E f : memory' \in {memory, [memory EXCEPT !.lock = f], [memory EXCEPT !.key = f], [memory EXCEPT !.presence = f]}
  <2>1. ASSUME NEW token \in Holders, NEW ttl \in 1 .. 2, AcquireLock(token, ttl)
        PROVE  Call /\ \E f : memory' \in {memory, [memory EXCEPT !.lock = f]}
    BY <2>1 DEF AcquireLock
  <2>2. ASSUME NEW token \in Holders, NEW ttl \in 1 .. 2, RenewLock(token, ttl)
        PROVE  Call /\ \E f : memory' \in {memory, [memory EXCEPT !.lock = f]}
    BY <2>2 DEF RenewLock
  <2>3. ASSUME NEW token \in Holders, ReleaseLock(token)
        PROVE  Call /\ \E f : memory' \in {memory, [memory EXCEPT !.lock = f]}
    BY <2>3 DEF ReleaseLock
  <2>4. ASSUME NEW v \in Values, SetKey(v, 1)
        PROVE  Call /\ \E f : memory' \in {memory, [memory EXCEPT !.key = f]}
    BY <2>4 DEF SetKey
  <2>5. ASSUME NEW v \in Values, SetPresence(v, 2)
        PROVE  Call /\ \E f : memory' \in {memory, [memory EXCEPT !.presence = f]}
    BY <2>5 DEF SetPresence
  <2>6. CASE GetKey
    <3>1. Call /\ memory' = [memory EXCEPT !.key = IF Expired(memory.key, clock) THEN None ELSE memory.key]
      BY <2>6 DEF GetKey
    <3> QED
      BY <3>1
  <2>7. CASE GetNode
    <3>1. Call /\ memory' = [memory EXCEPT !.presence = IF Expired(memory.presence, clock) THEN None ELSE memory.presence]
      BY <2>7 DEF GetNode
    <3> QED
      BY <3>1
  <2>8. CASE ClearPresence
    BY <2>8 DEF ClearPresence
  <2>9. CASE HGetAll
    BY <2>9 DEF HGetAll
  <2> QED
    BY <2>1, <2>2, <2>3, <2>4, <2>5, <2>6, <2>7, <2>8, <2>9
<1>3. memory'.hash = memory.hash /\ memory'.counter = memory.counter
  BY <1>1, <1>2
<1>4. DOMAIN memory'.hash \subseteq Fields
  BY <1>3 DEF BusTyped
<1> QED
  BY <1>2, <1>3, <1>4, CallTyped

\* The calls of the hash and the counter.
LEMMA HashTyped ==
    ASSUME BusTyped, OfKeys(memory),
           Incr \/ \E f \in Fields : HDel(f) \/ \E v \in Values : HSet(f, v)
    PROVE  BusTyped'
<1>1. CASE Incr
  <2>1. Call /\ memory' = [memory EXCEPT !.counter = memory.counter + 1]
    BY <1>1 DEF Incr
  <2>2. memory'.hash = memory.hash /\ memory'.counter = memory.counter + 1
    BY <2>1 DEF OfKeys
  <2>3. DOMAIN memory'.hash \subseteq Fields
    BY <2>2 DEF BusTyped
  <2> QED
    BY <2>1, <2>2, <2>3, CallTyped
<1>2. ASSUME NEW f \in Fields, HDel(f) PROVE BusTyped'
  <2>1. Call /\ memory' = [memory EXCEPT !.hash = Cut(memory.hash, f)]
    BY <1>2 DEF HDel
  <2>2. memory'.hash = Cut(memory.hash, f) /\ memory'.counter = memory.counter
    BY <2>1 DEF OfKeys
  <2>3. DOMAIN memory'.hash \subseteq Fields
    BY <2>2 DEF BusTyped, Cut
  <2> QED
    BY <2>1, <2>2, <2>3, CallTyped
<1>3. ASSUME NEW f \in Fields, NEW v \in Values, HSet(f, v) PROVE BusTyped'
  <2>1. Call /\ memory' = [memory EXCEPT !.hash = Put(memory.hash, f, v)]
    BY <1>3 DEF HSet
  <2>2. memory'.hash = Put(memory.hash, f, v) /\ memory'.counter = memory.counter
    BY <2>1 DEF OfKeys
  <2>3. DOMAIN memory'.hash \subseteq Fields
    BY <2>2 DEF BusTyped, Put
  <2> QED
    BY <2>1, <2>2, <2>3, CallTyped
<1> QED
  BY <1>1, <1>2, <1>3

\* The steps of the stream, and the clock.
LEMMA StreamTyped ==
    ASSUME BusTyped, BusTick \/ Subscribe \/ PublishEvent \/ ReadGroup
    PROVE  BusTyped'
<1>1. CASE BusTick
  <2>1. clock < MaxBusTime /\ clock' = clock + 1 /\ UNCHANGED <<memory, log, stream, trimmed, cursor, busOps>>
    BY <1>1 DEF BusTick, streamVars
  <2>2. clock' \in 0 .. MaxBusTime
    BY <2>1, BusAssumption DEF BusTyped
  <2> QED
    BY <2>1, <2>2, Zenon DEF BusTyped
<1>2. CASE ReadGroup
  <2>1. /\ cursor' = 1 + (IF cursor < trimmed THEN trimmed ELSE cursor) /\ cursor' <= Len(stream)
        /\ UNCHANGED <<clock, memory, log, stream, trimmed, busOps>>
    BY <1>2 DEF ReadGroup, Deliver
  <2>2. cursor' \in 0 .. Len(stream')
    BY <2>1, LenProperties DEF BusTyped
  <2> QED
    BY <2>1, <2>2, Zenon DEF BusTyped
<1>3. ASSUME StreamCall PROVE UNCHANGED <<clock, memory>> /\ busOps' \in 0 .. MaxBusOps /\ memory'.counter \in 0 .. busOps'
  <2>1. UNCHANGED <<clock, memory>> /\ busOps < MaxBusOps /\ busOps' = busOps + 1
    BY <1>3 DEF StreamCall
  <2> QED
    BY <2>1, BusAssumption DEF BusTyped
<1>4. CASE Subscribe
  <2>1. StreamCall /\ UNCHANGED <<log, stream, trimmed, cursor>>
    BY <1>4 DEF Subscribe
  <2> QED
    BY <1>3, <2>1, Zenon DEF BusTyped
<1>5. CASE PublishEvent
  <2> DEFINE id == Len(stream) + 1
             grown == Append(log, id)
  <2>1. /\ StreamCall /\ stream' = Append(stream, id) /\ cursor' = cursor
        /\ log' = IF Len(grown) > Trim THEN Tail(grown) ELSE grown
        /\ trimmed' \in {trimmed} \cup {n \in trimmed .. id : n + MaxLen <= id}
    BY <1>5 DEF PublishEvent
  <2>2. id \in Nat /\ stream \in Seq(Nat) /\ log \in Seq(Nat) /\ Len(stream) \in Nat /\ Len(log) \in Nat
    BY LenProperties DEF BusTyped
  <2> HIDE DEF id
  <2>3. /\ stream' \in Seq(Nat) /\ Len(stream') = Len(stream) + 1
        /\ grown \in Seq(Nat) /\ Len(grown) = Len(log) + 1
    BY <2>1, <2>2, AppendProperties
  <2> HIDE DEF grown
  <2>4. cursor' \in 0 .. Len(stream')
    BY <2>1, <2>2, <2>3 DEF BusTyped
  <2>5. log' \in Seq(Nat) /\ Len(log') <= Trim
    <3>1. CASE Len(grown) > Trim
      <4>1. log' = Tail(grown) /\ grown # <<>>
        BY <2>1, <2>2, <2>3, <3>1
      <4>2. log' \in Seq(Nat) /\ Len(log') = Len(grown) - 1
        BY <2>3, <4>1, HeadTailProperties
      <4> QED
        BY <2>2, <2>3, <4>2, BusAssumption DEF BusTyped
    <3>2. CASE ~ (Len(grown) > Trim)
      BY <2>1, <2>2, <2>3, <3>2, BusAssumption
    <3> QED
      BY <3>1, <3>2
  <2>6. trimmed' \in Nat
    BY <2>1, <2>2 DEF BusTyped
  <2> QED
    BY <1>3, <2>1, <2>3, <2>4, <2>5, <2>6, Zenon DEF BusTyped
<1> QED
  BY <1>1, <1>2, <1>4, <1>5

\* Every step keeps the types.
LEMMA BusTypes == BusTyped /\ OfKeys(memory) /\ [BusNext]_busVars => BusTyped'
<1> SUFFICES ASSUME BusTyped, OfKeys(memory), [BusNext]_busVars PROVE BusTyped'
  OBVIOUS
<1>1. CASE UNCHANGED busVars
  <2>1. UNCHANGED <<clock, memory, log, stream, trimmed, cursor, busOps>>
    BY <1>1 DEF busVars, streamVars
  <2> QED
    BY <2>1, Zenon DEF BusTyped
<1>2. CASE BusNext
  BY <1>2, KeysTyped, HashTyped, StreamTyped DEF BusNext
<1> QED
  BY <1>1, <1>2

\* The types at the start.
LEMMA BusTypedFirst == BusInit => BusTyped
<1> SUFFICES ASSUME BusInit PROVE BusTyped
  OBVIOUS
<1>1. clock = 0 /\ memory = Empty /\ log = <<>> /\ stream = <<>> /\ trimmed = 0 /\ cursor = 0 /\ busOps = 0
  BY DEF BusInit
<1>2. DOMAIN memory.hash = {} /\ memory.counter = 0
  BY <1>1 DEF Empty
<1> QED
  BY <1>1, <1>2, BusAssumption, EmptySeq DEF BusTyped

\* What they say.
LEMMA BusTypesAre == BusTyped => BusTypeOK
<1> SUFFICES ASSUME BusTyped PROVE BusTypeOK
  OBVIOUS
<1>1. memory.counter \in 0 .. MaxBusOps
  BY BusAssumption DEF BusTyped
<1> QED
  BY <1>1, Zenon DEF BusTyped, BusTypeOK
-----------------------------------------------------------------------------
(* The cutover (Cutover).  The files are recorded in order because a run   *)
(* has read no file as applied that is not; a placeholder is moved as the  *)
(* default document because nothing else is ever kept as "empty"; the    *)
(* ids are bounded, so that the sequence has a largest one to start from;  *)
(* what the backfill has still to insert is all that friendships lacks.    *)

Stages == {<<>>, <<"001_accounts">>, Files}
Applied == {{}, {"001_accounts"}, {"001_accounts", "002_promoted"}}

MigrationsInv ==
    /\ migrations \in Stages /\ tables = ToSet(migrations)
    /\ runner \in [Runners -> [runs : BOOLEAN, applied : Applied]]
    /\ \A r \in Runners : runner[r].applied \subseteq tables

OfRow(kept) == kept = [state |-> kept.state, edition |-> kept.edition, friends |-> kept.friends]

\* Rows of SQLite, those called empty being placeholders that were never filled.
RowsOf(rows) ==
    /\ rows = [a \in DOMAIN rows |-> rows[a]]
    /\ DOMAIN rows \subseteq Ids /\ Bounded(DOMAIN rows)
    /\ \A a \in DOMAIN rows :
         /\ OfRow(rows[a]) /\ rows[a].state \in {"doc", "empty", "null"}
         /\ rows[a].state = "empty" => rows[a] = Filler

MoveInv ==
    /\ RowsOf(lite)
    /\ copy # <<>> => copy[1] \in DOMAIN lite /\ OfRow(copy[2]) /\ copy[2].state = "doc"
    /\ copying # <<>> => RowsOf(copying[1])
    /\ DOMAIN pg \subseteq Ids /\ Bounded(DOMAIN pg) /\ pg = [a \in DOMAIN pg |-> pg[a]]
    /\ nextId \in Nat \ {0}
    /\ MovedUnchanged /\ NextIdFree

\* What the backfill is; it is at one of the pairs it has still to insert.
FillRecord(f) == f = [runs |-> f.runs, todo |-> f.todo, all |-> f.all, at |-> f.at, row |-> f.row]

\* A row that the backfill has skipped, and that is no more, is torn.
FillInv ==
    /\ \A p \in filling.todo \cup friendships \cup torn : p = <<p[1], p[2]>>
    /\ FillRecord(filling)
    /\ filling.all \subseteq filling.todo \cup friendships
    /\ filling.at \subseteq filling.todo /\ filling.row \subseteq filling.at
    /\ \A p, q \in filling.at : p = q
    /\ \A p \in filling.at : /\ p \in friendships \cup torn \cup filling.row
                             /\ p \in filling.all => p \in friendships \cup filling.row
    /\ \A p \in torn : <<p[2], p[1]>> \in torn
    /\ FriendshipsFilled

CutoverInv == MigrationsInv /\ MoveInv /\ FillInv
-----------------------------------------------------------------------------
\* The ids are positive numbers.
LEMMA IdsNat == Ids \subseteq Nat \ {0} /\ {1, 2} \subseteq Ids
  BY CutoverAssumption DEF CutoverAssumption

\* The sequence starts past every id.
LEMMA SequencePast ==
    ASSUME NEW rows, DOMAIN rows \subseteq Nat, Bounded(DOMAIN rows)
    PROVE  Sequence(rows) \in Nat \ {0} /\ \A a \in DOMAIN rows : a < Sequence(rows)
<1> DEFINE S == {0} \cup DOMAIN rows
<1>1. PICK n \in Nat : \A a \in DOMAIN rows : a <= n
  BY DEF Bounded
<1>2. S \in SUBSET Nat /\ S # {} /\ \A a \in S : a <= n
  BY <1>1
<1>3. Bounded(S)
  BY <1>2 DEF Bounded
<1> HIDE DEF S
<1>4. Max(S) \in S /\ \A a \in S : a <= Max(S)
  BY <1>2, <1>3, MaxIs
<1>5. Max(S) \in Nat /\ Sequence(rows) = Max(S) + 1 /\ DOMAIN rows \subseteq S
  BY <1>2, <1>4 DEF Sequence, S
<1> QED
  BY <1>4, <1>5

\* One more number leaves a set bounded.
LEMMA BoundedWith ==
    ASSUME NEW S \in SUBSET Nat, Bounded(S), NEW a \in Nat
    PROVE  Bounded(S \cup {a})
<1>1. PICK n \in Nat : \A b \in S : b <= n
  BY DEF Bounded
<1>2. a + n \in Nat /\ a <= a + n /\ \A b \in S : b <= a + n
  BY <1>1
<1> QED
  BY <1>2 DEF Bounded

\* Two bounded sets are bounded together.
LEMMA BoundedUnion ==
    ASSUME NEW S \in SUBSET Nat, NEW T \in SUBSET Nat, Bounded(S), Bounded(T)
    PROVE  Bounded(S \cup T)
<1>1. PICK n \in Nat : \A b \in S : b <= n
  BY DEF Bounded
<1>2. PICK k \in Nat : \A b \in T : b <= k
  BY DEF Bounded
<1>3. n + k \in Nat /\ \A b \in S \cup T : b <= n + k
  BY <1>1, <1>2
<1> QED
  BY <1>3 DEF Bounded
-----------------------------------------------------------------------------
\* One file appended to another.
LEMMA AppendOne ==
    ASSUME NEW S, NEW a \in Seq(S), NEW y \in S, Len(a) = 1, NEW b \in Seq(S), Len(b) = 2, b[1] = a[1], b[2] = y
    PROVE  Append(a, y) = b
<1> DEFINE c == Append(a, y)
<1>1. c \in Seq(S)
  BY AppendedIn
<1>2. Len(c) = Len(a) + 1
  BY AppendedLen
<1>3. c[Len(a) + 1] = y
  BY AppendedLast
<1>5. 1 \in 1 .. Len(a)
  OBVIOUS
<1>4. c[1] = a[1]
  BY <1>5, AppendedFirst
<1> HIDE DEF c
<1>6. Len(c) = 2 /\ c[1] = b[1] /\ c[2] = b[2]
  BY <1>2, <1>3, <1>4
<1>7. \A i \in 1 .. Len(c) : c[i] = b[i]
  BY <1>6
<1>8. c = b
  BY <1>1, <1>6, <1>7, SeqEqual
<1> QED
  BY <1>8 DEF c

\* The first of one or two files.
LEMMA FirstOne ==
    ASSUME NEW S, NEW a \in Seq(S), NEW b \in Seq(S), Len(a) = 1, Len(b) \in {1, 2}, b[1] = a[1]
    PROVE  SubSeq(b, 1, 1) = a
<1>1. SubSeq(b, 1, 1) \in Seq(S) /\ Len(SubSeq(b, 1, 1)) = 1 /\ SubSeq(b, 1, 1)[1] = b[1]
  BY SubSeqProperties
<1> DEFINE c == SubSeq(b, 1, 1)
<1>2. c \in Seq(S) /\ Len(c) = 1 /\ c[1] = a[1]
  BY <1>1
<1> HIDE DEF c
<1>3. \A i \in 1 .. Len(c) : c[i] = a[i]
  BY <1>2
<1>4. c = a
  BY <1>2, <1>3, SeqEqual
<1> QED
  BY <1>4 DEF c

\* The two files, one after the other.
LEMMA PairOfFiles ==
    ASSUME NEW x, NEW y
    PROVE  Append(<<x>>, y) = <<x, y>> /\ SubSeq(<<x, y>>, 1, 1) = <<x>> /\ SubSeq(<<x>>, 1, 1) = <<x>>
<1> DEFINE S == {x, y}  a == <<x>>  b == <<x, y>>
<1>1. a \in Seq(S) /\ b \in Seq(S) /\ Len(a) = 1 /\ Len(b) = 2 /\ a[1] = x /\ b[1] = x /\ b[2] = y /\ y \in S
  OBVIOUS
<1> HIDE DEF S, a, b
<1>2. Append(a, y) = b
  BY <1>1, AppendOne
<1>3. SubSeq(b, 1, 1) = a /\ SubSeq(a, 1, 1) = a
  BY <1>1, FirstOne
<1> QED
  BY <1>2, <1>3 DEF a, b

\* migrate.js: the file that is due is the one after those recorded.
LEMMA MigrationsStep ==
    ASSUME MigrationsInv, NEW r \in Runners,
           RunnerBegins(r) \/ ApplyFile(r) \/ ApplyConflicts(r) \/ RunnerDies(r) \/ RunnerEnds(r)
    PROVE  MigrationsInv'
<1> DEFINE one == "001_accounts"  two == "002_promoted"
<1>0. /\ ToSet(<<>>) = {} /\ ToSet(<<one>>) = {one} /\ ToSet(Files) = {one, two}
      /\ Files = <<one, two>> /\ DOMAIN Files = {1, 2} /\ Files[1] = one /\ Files[2] = two
  BY DEF ToSet, Files
<1>1. /\ runner[r] \in [runs : BOOLEAN, applied : Applied] /\ runner[r].applied \subseteq tables
      /\ tables \in Applied /\ tables = ToSet(migrations)
  BY <1>0 DEF MigrationsInv, Stages, Applied
<1>2. ASSUME NEW state \in [runs : BOOLEAN, applied : Applied], RunnerStep(r, state),
             UNCHANGED <<migrations, tables>>, state.applied \subseteq tables
      PROVE  MigrationsInv'
  BY <1>2 DEF MigrationsInv, RunnerStep
<1>3. CASE RunnerBegins(r)
  <2>1. [runs |-> TRUE, applied |-> ToSet(migrations)] \in [runs : BOOLEAN, applied : Applied]
    BY <1>1
  <2> QED
    BY <1>1, <1>2, <1>3, <2>1 DEF RunnerBegins
<1>4. NoRun \in [runs : BOOLEAN, applied : Applied] /\ NoRun.applied = {}
  BY DEF NoRun, Applied
<1>5. CASE ApplyConflicts(r) \/ RunnerDies(r) \/ RunnerEnds(r)
  BY <1>2, <1>4, <1>5 DEF ApplyConflicts, RunnerDies, RunnerEnds
<1>6. CASE ApplyFile(r)
  <2>1. /\ Todo(r) # {} /\ Due(r) \notin ToSet(migrations)
        /\ tables' = tables \cup {Due(r)} /\ migrations' = Append(migrations, Due(r))
        /\ runner' = [runner EXCEPT ![r] = [runner[r] EXCEPT !.applied = @ \cup {Due(r)}]]
    BY <1>6 DEF ApplyFile, RunnerStep
  <2>2. Todo(r) = {i \in {1, 2} : Files[i] \notin runner[r].applied}
    BY <1>0 DEF Todo
  <2>3. CASE runner[r].applied = {}
    <3>1. Todo(r) = {1, 2}
      BY <1>0, <2>2, <2>3
    <3>2. Min({1, 2}) = 1
      BY DEF Min
    <3>3. Due(r) = one
      BY <1>0, <3>1, <3>2 DEF Due
    <3>4. migrations = <<>>
      BY <1>0, <2>1, <3>3 DEF MigrationsInv, Stages
    <3>5. migrations' = <<one>> /\ tables' = {one}
      BY <1>0, <1>1, <2>1, <3>3, <3>4
    <3>6. runner' = [runner EXCEPT ![r] = [runs |-> runner[r].runs, applied |-> {one}]]
      <4>1. [runner[r] EXCEPT !.applied = runner[r].applied \cup {Due(r)}] = [runs |-> runner[r].runs, applied |-> {one}]
        <5> DEFINE x == runner[r]
        <5>1. x \in [runs : BOOLEAN, applied : Applied] /\ x.applied = {} /\ Due(r) = one
          BY <1>1, <2>3, <3>3
        <5> HIDE DEF x
        <5>2. [x EXCEPT !.applied = x.applied \cup {Due(r)}] = [runs |-> x.runs, applied |-> x.applied \cup {Due(r)}]
          BY <5>1
        <5>3. x.applied \cup {Due(r)} = {one}
          BY <5>1
        <5> QED
          BY <5>2, <5>3 DEF x
      <4> QED
        BY <2>1, <4>1
    <3>7. runner' \in [Runners -> [runs : BOOLEAN, applied : Applied]]
      BY <1>1, <3>6 DEF MigrationsInv, Applied
    <3>8. \A x \in Runners : runner'[x].applied \subseteq tables'
      BY <2>1, <3>5, <3>6 DEF MigrationsInv
    <3> QED
      BY <1>0, <3>5, <3>7, <3>8 DEF MigrationsInv, Stages
  <2>4. CASE runner[r].applied = {one}
    <3>1. Todo(r) = {2}
      BY <1>0, <2>2, <2>4
    <3>2. Min({2}) = 2
      BY DEF Min
    <3>3. Due(r) = two
      BY <1>0, <3>1, <3>2 DEF Due
    <3>4. migrations = <<one>>
      BY <1>0, <1>1, <2>1, <2>4, <3>3 DEF MigrationsInv, Stages
    <3>5. migrations' = Files /\ tables' = {one, two}
      <4>1. Append(<<one>>, two) = <<one, two>>
        BY PairOfFiles
      <4> QED
        BY <1>0, <1>1, <2>1, <3>3, <3>4, <4>1
    <3>6. runner' = [runner EXCEPT ![r] = [runs |-> runner[r].runs, applied |-> {one, two}]]
      <4>1. [runner[r] EXCEPT !.applied = runner[r].applied \cup {Due(r)}] = [runs |-> runner[r].runs, applied |-> {one, two}]
        <5> DEFINE x == runner[r]
        <5>1. x \in [runs : BOOLEAN, applied : Applied] /\ x.applied = {one} /\ Due(r) = two
          BY <1>1, <2>4, <3>3
        <5> HIDE DEF x
        <5>2. [x EXCEPT !.applied = x.applied \cup {Due(r)}] = [runs |-> x.runs, applied |-> x.applied \cup {Due(r)}]
          BY <5>1
        <5>3. x.applied \cup {Due(r)} = {one, two}
          BY <5>1
        <5> QED
          BY <5>2, <5>3 DEF x
      <4> QED
        BY <2>1, <4>1
    <3>7. runner' \in [Runners -> [runs : BOOLEAN, applied : Applied]]
      BY <1>1, <3>6 DEF MigrationsInv, Applied
    <3>8. \A x \in Runners : runner'[x].applied \subseteq tables'
      BY <2>1, <3>5, <3>6 DEF MigrationsInv
    <3> QED
      BY <1>0, <3>5, <3>7, <3>8 DEF MigrationsInv, Stages
  <2>5. CASE runner[r].applied = {one, two}
    BY <1>0, <2>1, <2>2, <2>5
  <2> QED
    BY <1>1, <2>3, <2>4, <2>5 DEF Applied
<1> QED
  BY <1>3, <1>5, <1>6

\* The files recorded are the first of those there are.
LEMMA MigrationsOrdered == MigrationsInv => MigratedInOrder
<1> SUFFICES ASSUME MigrationsInv PROVE IsPrefix(migrations, Files)
  BY DEF MigrationsInv, MigratedInOrder
<1> DEFINE one == "001_accounts"  two == "002_promoted"
<1> HIDE DEF one, two
<1>1. IsPrefix(<<>>, <<one, two>>)
  <2>1. SubSeq(<<one, two>>, 1, 0) = <<>> /\ SubSeq(<<>>, 1, 0) = <<>> /\ Len(<<>>) = 0
    BY SubSeqEmpty, <<one, two>> \in Seq({one, two}), <<>> \in Seq({one, two})
  <2> QED
    BY <2>1 DEF IsPrefix
<1>2. IsPrefix(<<one>>, <<one, two>>)
  <2>1. SubSeq(<<one, two>>, 1, 1) = <<one>> /\ SubSeq(<<one>>, 1, 1) = <<one>>
    BY PairOfFiles
  <2>2. Len(<<one>>) = 1 /\ Len(<<one, two>>) = 2
    OBVIOUS
  <2> QED
    BY <2>1, <2>2 DEF IsPrefix
<1>3. IsPrefix(<<one, two>>, <<one, two>>)
  BY DEF IsPrefix
<1> QED
  BY <1>1, <1>2, <1>3 DEF MigrationsInv, Stages, Files, one, two

\* A row that may be kept.
Storable(kept) ==
    /\ OfRow(kept) /\ kept.state \in {"doc", "empty", "null"} /\ (kept.state = "empty" => kept = Filler)

\* What may be stored is a row that may be kept.
LEMMA StoredAre ==
    /\ \A state \in {"doc", "empty", "null"} : Storable(Stored(state)) /\ Stored(state).state = state
    /\ Storable(DefaultPlayer) /\ DefaultPlayer.state = "doc"
    /\ Storable(Filler) /\ Filler.state = "empty"
    /\ Storable(NullState) /\ NullState.state = "null"
<1>1. \A state \in {"doc", "empty", "null"} : Storable(Stored(state)) /\ Stored(state).state = state
  BY DEF Storable, Stored, OfRow, Filler
<1> QED
  BY <1>1 DEF DefaultPlayer, Filler, NullState

\* What a row loads as may be kept.
LEMMA LoadedIs ==
    ASSUME NEW kept, Storable(kept)
    PROVE  Storable(Loaded(kept)) /\ Loaded(kept).state = "doc"
<1>1. CASE kept.state = "null"
  BY <1>1, StoredAre DEF Loaded
<1>2. CASE kept.state # "null"
  <2>1. Loaded(kept) = [kept EXCEPT !.state = "doc"] /\ OfRow(kept)
    BY <1>2 DEF Loaded, Storable
  <2>2. Loaded(kept) = [state |-> "doc", edition |-> kept.edition, friends |-> kept.friends]
    BY <2>1 DEF OfRow
  <2> QED
    BY <2>2 DEF Storable, OfRow
<1> QED
  BY <1>1, <1>2

\* One row set.
LEMMA SetRow ==
    ASSUME NEW rows, RowsOf(rows), NEW a \in Ids, NEW kept, Storable(kept)
    PROVE  RowsOf(Set(rows, a, kept)) /\ DOMAIN Set(rows, a, kept) = DOMAIN rows \cup {a}
<1> DEFINE new == Set(rows, a, kept)
<1>1. /\ DOMAIN new = DOMAIN rows \cup {a} /\ new = [b \in DOMAIN new |-> new[b]]
      /\ \A b \in DOMAIN new : new[b] = (IF b = a THEN kept ELSE rows[b])
  BY DEF Set
<1>2. DOMAIN rows \in SUBSET Nat /\ a \in Nat /\ Bounded(DOMAIN rows)
  BY IdsNat DEF RowsOf
<1>3. Bounded(DOMAIN rows \cup {a})
  BY <1>2, BoundedWith
<1> HIDE DEF new
<1>4. \A b \in DOMAIN new : Storable(new[b])
  BY <1>1 DEF RowsOf, Storable
<1>5. RowsOf(new)
  BY <1>1, <1>3, <1>4 DEF RowsOf, Storable
<1> QED
  BY <1>1, <1>5 DEF new

\* Friends made or parted leave rows as they should be.
LEMMA FriendRows ==
    ASSUME NEW rows, RowsOf(rows), NEW a, NEW b
    PROVE  /\ RowsOf(Befriended(rows, a, b)) /\ DOMAIN Befriended(rows, a, b) = DOMAIN rows
           /\ RowsOf(Parted(rows, a, b)) /\ DOMAIN Parted(rows, a, b) = DOMAIN rows
<1>1. CASE a \notin DOMAIN rows
  BY <1>1 DEF Befriended, Parted
<1>2. CASE a \in DOMAIN rows
  <2>1. a \in Ids /\ Storable(rows[a]) /\ DOMAIN rows \cup {a} = DOMAIN rows
    BY <1>2 DEF RowsOf, Storable
  <2> DEFINE full == Loaded(rows[a])
  <2>2. Storable(full) /\ full.state = "doc"
    BY <2>1, LoadedIs
  <2> HIDE DEF full
  <2>3. ASSUME NEW f PROVE Storable([full EXCEPT !.friends = f])
    <3>1. [full EXCEPT !.friends = f] = [state |-> "doc", edition |-> full.edition, friends |-> f]
      BY <2>2 DEF Storable, OfRow
    <3> QED
      BY <3>1 DEF Storable, OfRow
  <2> DEFINE more == [full EXCEPT !.friends = full.friends \cup {b}]
  <2>4. Befriended(rows, a, b) = Set(rows, a, more)
    BY <1>2 DEF Befriended, full
  <2>10. Storable(more)
    BY <2>3
  <2> HIDE DEF more
  <2>5. Parted(rows, a, b) = rows \/ Parted(rows, a, b) = Set(rows, a, [full EXCEPT !.friends = full.friends \ {b}])
    BY <1>2 DEF Parted, full
  <2>6. RowsOf(Befriended(rows, a, b)) /\ DOMAIN Befriended(rows, a, b) = DOMAIN rows
    BY <2>1, <2>4, <2>10, SetRow
  <2> DEFINE less == [full EXCEPT !.friends = full.friends \ {b}]
  <2>8. Storable(less)
    BY <2>3
  <2> HIDE DEF less
  <2>9. RowsOf(Set(rows, a, less)) /\ DOMAIN Set(rows, a, less) = DOMAIN rows
    BY <2>1, <2>8, SetRow
  <2>7. RowsOf(Parted(rows, a, b)) /\ DOMAIN Parted(rows, a, b) = DOMAIN rows
    BY <2>5, <2>9 DEF less
  <2> QED
    BY <2>6, <2>7
<1> QED
  BY <1>1, <1>2

\* SQLite is written: what was copied is no longer what it has.
LEMMA LiteWrites ==
    ASSUME MoveInv, NEW new, LiteWrite(new), RowsOf(new), DOMAIN lite \subseteq DOMAIN new,
           copy' = copy \/ copy' = <<>>
    PROVE  MoveInv'
  BY DEF MoveInv, LiteWrite, MovedUnchanged, NextIdFree

\* A row whose document is saved.
LEMMA EditedRow ==
    ASSUME NEW kept, OfRow(kept), kept.state = "doc", NEW n
    PROVE  Storable([kept EXCEPT !.edition = n])
<1>1. [kept EXCEPT !.edition = n] = [state |-> "doc", edition |-> n, friends |-> kept.friends]
  BY DEF OfRow
<1> QED
  BY <1>1 DEF Storable, OfRow

\* The server on SQLite.
LEMMA LiteStep ==
    ASSUME MoveInv, NEW a \in Ids, NEW b \in Ids,
           LiteCreate(a) \/ LiteRead(a) \/ LiteRequest(a) \/ LiteFriendship(a, b) \/ LiteSave
    PROVE  MoveInv'
<1>0. RowsOf(lite)
  BY DEF MoveInv
<1>1. ASSUME LiteCreate(a) PROVE MoveInv'
  <2>1. PICK kept \in {DefaultPlayer, Filler, NullState} : LiteWrite(Set(lite, a, kept)) /\ copy' = copy
    BY <1>1 DEF LiteCreate
  <2>3. Storable(kept)
    BY StoredAre
  <2>4. RowsOf(Set(lite, a, kept)) /\ DOMAIN Set(lite, a, kept) = DOMAIN lite \cup {a}
    BY <1>0, <2>3, SetRow, Zenon
  <2>2. RowsOf(Set(lite, a, kept)) /\ DOMAIN lite \subseteq DOMAIN Set(lite, a, kept)
    BY <2>4
  <2> QED
    BY <2>1, <2>2, LiteWrites
<1>2. ASSUME LiteRead(a) PROVE MoveInv'
  <2>1. /\ a \in DOMAIN lite /\ copy' = <<a, Loaded(lite[a])>>
        /\ UNCHANGED <<lite, copying, nextId, moved, pg>>
    BY <1>2 DEF LiteRead, copyVars
  <2>2. Storable(Loaded(lite[a])) /\ Loaded(lite[a]).state = "doc"
    BY <1>0, <2>1, LoadedIs DEF RowsOf, Storable
  <2>3. copy'[1] \in DOMAIN lite' /\ OfRow(copy'[2]) /\ copy'[2].state = "doc"
    BY <2>1, <2>2 DEF Storable
  <2> QED
    BY <2>1, <2>3 DEF MoveInv, MovedUnchanged, NextIdFree
<1>3. ASSUME LiteRequest(a) PROVE MoveInv'
  <2>1. /\ a \in DOMAIN lite /\ copy' = copy
        /\ LiteWrite(Set(lite, a, [Loaded(lite[a]) EXCEPT !.edition = writes + 1]))
    BY <1>3 DEF LiteRequest
  <2>2. Storable([Loaded(lite[a]) EXCEPT !.edition = writes + 1])
    BY <1>0, <2>1, LoadedIs, EditedRow DEF RowsOf, Storable
  <2> QED
    BY <1>0, <2>1, <2>2, SetRow, LiteWrites
<1>4. ASSUME LiteFriendship(a, b) PROVE MoveInv'
  <2>1. PICK new \in {Befriended(Befriended(lite, a, b), b, a), Befriended(lite, a, b),
                      Parted(Parted(lite, a, b), b, a), Parted(lite, a, b)} : LiteWrite(new) /\ copy' = copy
    BY <1>4 DEF LiteFriendship
  <2>2. RowsOf(new) /\ DOMAIN new = DOMAIN lite
    BY <1>0, FriendRows
  <2> QED
    BY <2>1, <2>2, LiteWrites
<1>5. ASSUME LiteSave PROVE MoveInv'
  <2>1. /\ copy # <<>> /\ copy' = <<>>
        /\ LiteWrite(Set(lite, copy[1], [copy[2] EXCEPT !.edition = writes + 1]))
    BY <1>5 DEF LiteSave
  <2>2. copy[1] \in Ids /\ Storable([copy[2] EXCEPT !.edition = writes + 1])
    BY <2>1, EditedRow DEF MoveInv, RowsOf
  <2> QED
    BY <1>0, <2>1, <2>2, SetRow, LiteWrites
<1> QED
  BY <1>1, <1>2, <1>3, <1>4, <1>5

\* The rows after the copy, and the sequence.
LEMMA UpsertedIs ==
    ASSUME NEW rows, RowsOf(rows), DOMAIN pg \subseteq Ids, Bounded(DOMAIN pg)
    PROVE  LET new == Upserted(rows) IN
           /\ DOMAIN new = DOMAIN pg \cup DOMAIN rows /\ new = [a \in DOMAIN new |-> new[a]]
           /\ \A a \in DOMAIN rows : new[a] = Converted(rows[a])
           /\ Bounded(DOMAIN new)
           /\ Sequence(new) \in Nat \ {0} /\ \A a \in DOMAIN new : a < Sequence(new)
<1> DEFINE new == Upserted(rows)
<1>1. /\ DOMAIN new = DOMAIN pg \cup DOMAIN rows /\ new = [a \in DOMAIN new |-> new[a]]
      /\ \A a \in DOMAIN rows : new[a] = Converted(rows[a])
  BY DEF Upserted
<1>2. DOMAIN pg \in SUBSET Nat /\ DOMAIN rows \in SUBSET Nat /\ Bounded(DOMAIN rows)
  BY IdsNat DEF RowsOf
<1>3. Bounded(DOMAIN new)
  BY <1>1, <1>2, BoundedUnion
<1> HIDE DEF new
<1>4. Sequence(new) \in Nat \ {0} /\ \A a \in DOMAIN new : a < Sequence(new)
  BY <1>1, <1>2, <1>3, SequencePast
<1> QED
  BY <1>1, <1>3, <1>4 DEF new

\* A row that was moved loads as it did.
LEMMA LoadsAlike ==
    ASSUME NEW kept, Storable(kept) PROVE LoadedOnPostgres(Converted(kept)) = Loaded(kept)
<1>1. CASE kept.state = "null"
  BY <1>1, StoredAre DEF Converted, LoadedOnPostgres, Loaded
<1>2. CASE kept.state = "empty"
  <2>1. kept = Filler /\ Converted(kept) = kept /\ LoadedOnPostgres(kept) = DefaultPlayer
    BY <1>2 DEF Storable, Converted, LoadedOnPostgres
  <2>2. Loaded(kept) = [Filler EXCEPT !.state = "doc"]
    BY <1>2, <2>1 DEF Loaded
  <2>3. [Filler EXCEPT !.state = "doc"] = DefaultPlayer
    BY DEF Filler, DefaultPlayer, Stored
  <2> QED
    BY <2>1, <2>2, <2>3
<1>3. CASE kept.state = "doc"
  <2>1. Converted(kept) = kept /\ LoadedOnPostgres(kept) = kept /\ Loaded(kept) = [kept EXCEPT !.state = "doc"]
    BY <1>3 DEF Converted, LoadedOnPostgres, Loaded
  <2>2. [kept EXCEPT !.state = "doc"] = kept
    BY <1>3 DEF Storable, OfRow
  <2> QED
    BY <2>1, <2>2
<1> QED
  BY <1>1, <1>2, <1>3 DEF Storable

\* migrate-data.js, and what the server on Postgres changes.
LEMMA MoveStep ==
    ASSUME MoveInv, NEW a \in Ids,
           CopyBegins \/ CopyCommits \/ CopyAborts \/ LiveCreate \/ LiveSave(a)
    PROVE  MoveInv'
<1>0. /\ RowsOf(lite) /\ DOMAIN pg \subseteq Ids /\ Bounded(DOMAIN pg) /\ pg = [b \in DOMAIN pg |-> pg[b]]
      /\ nextId \in Nat \ {0} /\ MovedUnchanged /\ NextIdFree
  BY DEF MoveInv
<1>1. ASSUME CopyBegins PROVE MoveInv'
  BY <1>1 DEF CopyBegins, CopyStep, liteVars, MoveInv, MovedUnchanged, NextIdFree
<1>2. ASSUME CopyCommits PROVE MoveInv'
  <2> DEFINE rows == copying[1]  new == Upserted(rows)
  <2>1. /\ copying' = <<>> /\ pg' = new /\ nextId' = Sequence(new) /\ moved' = (lite = rows)
        /\ RowsOf(rows) /\ UNCHANGED <<lite, copy>>
    BY <1>2 DEF CopyCommits, CopyStep, liteVars, MoveInv
  <2>2. /\ DOMAIN new = DOMAIN pg \cup DOMAIN rows /\ new = [b \in DOMAIN new |-> new[b]]
        /\ \A b \in DOMAIN rows : new[b] = Converted(rows[b])
        /\ Bounded(DOMAIN new)
        /\ Sequence(new) \in Nat \ {0} /\ \A b \in DOMAIN new : b < Sequence(new)
    BY <1>0, <2>1, UpsertedIs
  <2> HIDE DEF rows, new
  <2>3. MovedUnchanged'
    <3> SUFFICES ASSUME moved', NEW b \in DOMAIN lite
                 PROVE  b \in DOMAIN pg' /\ LoadedOnPostgres(pg'[b]) = Loaded(lite[b])
      BY <2>1 DEF MovedUnchanged
    <3>1. lite = rows
      BY <2>1
    <3>2. b \in DOMAIN new /\ new[b] = Converted(lite[b])
      BY <2>2, <3>1
    <3>3. Storable(lite[b])
      BY <1>0 DEF RowsOf, Storable
    <3> QED
      BY <2>1, <3>2, <3>3, LoadsAlike
  <2>4. NextIdFree'
    BY <2>1, <2>2 DEF NextIdFree
  <2>5. DOMAIN new \subseteq Ids
    BY <1>0, <2>1, <2>2 DEF RowsOf
  <2> QED
    BY <1>0, <2>1, <2>2, <2>3, <2>4, <2>5 DEF MoveInv
<1>3. ASSUME CopyAborts PROVE MoveInv'
  <2> DEFINE rows == copying[1]  new == Upserted(rows)
  <2>1. /\ copying' = <<>> /\ nextId' \in {nextId, Sequence(new)} /\ RowsOf(rows) /\ UNCHANGED <<lite, copy, pg, moved>>
    BY <1>3 DEF CopyAborts, CopyStep, liteVars, MoveInv
  <2>2. /\ DOMAIN new = DOMAIN pg \cup DOMAIN rows
        /\ Sequence(new) \in Nat \ {0} /\ \A b \in DOMAIN new : b < Sequence(new)
    BY <1>0, <2>1, UpsertedIs
  <2> HIDE DEF rows, new
  <2>3. nextId' \in Nat \ {0} /\ \A b \in DOMAIN pg : b < nextId'
    <3>1. CASE nextId' = nextId
      BY <1>0, <3>1 DEF NextIdFree
    <3>2. CASE nextId' = Sequence(new)
      BY <2>2, <3>2
    <3> QED
      BY <2>1, <3>1, <3>2
  <2> QED
    BY <1>0, <2>1, <2>3 DEF MoveInv, MovedUnchanged, NextIdFree
<1>4. ASSUME LiveCreate PROVE MoveInv'
  <2> DEFINE new == IF nextId \in DOMAIN pg THEN pg ELSE Set(pg, nextId, DefaultPlayer)
  <2>1. nextId \in Ids /\ nextId' = nextId + 1 /\ pg' = new /\ UNCHANGED <<lite, copy, copying, moved>>
    BY <1>4 DEF LiveCreate, LiveStep, liteVars
  <2>2. /\ DOMAIN new = DOMAIN pg \cup {nextId} /\ new = [b \in DOMAIN new |-> new[b]]
        /\ \A b \in DOMAIN pg : new[b] = pg[b]
    BY <1>0 DEF Set
  <2> HIDE DEF new
  <2>3. DOMAIN pg \in SUBSET Nat /\ nextId \in Nat
    BY <1>0, IdsNat
  <2>4. Bounded(DOMAIN new)
    BY <1>0, <2>2, <2>3, BoundedWith
  <2>5. NextIdFree'
    BY <1>0, <2>1, <2>2, <2>3 DEF NextIdFree
  <2>6. MovedUnchanged'
    BY <1>0, <2>1, <2>2 DEF MovedUnchanged
  <2>7. DOMAIN new \subseteq Ids /\ nextId' \in Nat \ {0}
    BY <1>0, <2>1, <2>2, <2>3
  <2> QED
    BY <1>0, <2>1, <2>2, <2>4, <2>5, <2>6, <2>7 DEF MoveInv
<1>5. ASSUME LiveSave(a) PROVE MoveInv'
  <2>1. /\ a \in DOMAIN pg /\ pg' = [pg EXCEPT ![a].state = "doc", ![a].edition = MaxWrites + changed + 1]
        /\ moved' = FALSE /\ UNCHANGED <<lite, copy, copying, nextId>>
    BY <1>5 DEF LiveSave, LiveStep, liteVars
  <2>2. DOMAIN pg' = DOMAIN pg /\ pg' = [b \in DOMAIN pg' |-> pg'[b]]
    BY <1>0, <2>1
  <2> QED
    BY <1>0, <2>1, <2>2 DEF MoveInv, MovedUnchanged, NextIdFree
<1> QED
  BY <1>1, <1>2, <1>3, <1>4, <1>5

\* Steps that touch neither store nor the copy.
LEMMA MoveSame ==
    ASSUME MoveInv, UNCHANGED <<lite, copying, pg, nextId, moved>>, copy' = copy \/ copy' = <<>>
    PROVE  MoveInv'
  BY DEF MoveInv, MovedUnchanged, NextIdFree

\* backfill-friends.js, and the friendships made and ended meanwhile.
LEMMA FillsStep ==
    ASSUME FillInv, NEW a \in Ids, NEW b \in Ids,
           \/ FillBegins \/ FillFirst \/ FillSecond \/ FillDies \/ FillEnds
           \/ LiveBefriend(a, b) \/ LivePart(a, b)
    PROVE  FillInv'
<1>0. /\ \A p \in filling.todo \cup friendships \cup torn : p = <<p[1], p[2]>>
      /\ FillRecord(filling)
      /\ filling.all \subseteq filling.todo \cup friendships
      /\ filling.at \subseteq filling.todo /\ filling.row \subseteq filling.at
      /\ \A p, q \in filling.at : p = q
      /\ \A p \in filling.at : /\ p \in friendships \cup torn \cup filling.row
                               /\ p \in filling.all => p \in friendships \cup filling.row
      /\ \A p \in torn : <<p[2], p[1]>> \in torn
      /\ \A p \in friendships \ torn : <<p[2], p[1]>> \in friendships
      /\ filled \subseteq friendships
  BY DEF FillInv, FriendshipsFilled
<1>1. ASSUME FillBegins PROVE FillInv'
  <2>1. /\ filling' = [NotFilling EXCEPT !.runs = TRUE, !.todo = Blobs, !.all = Blobs]
        /\ UNCHANGED <<filled, friendships, torn>>
    BY <1>1 DEF FillBegins, FillStep
  <2>2. \A p \in Blobs : p = <<p[1], p[2]>>
    BY DEF Blobs
  <2>3. /\ filling'.todo = Blobs /\ filling'.all = Blobs /\ filling'.at = {} /\ filling'.row = {}
        /\ FillRecord(filling')
    BY <2>1 DEF FillRecord, NotFilling
  <2> QED
    BY <1>0, <2>1, <2>2, <2>3 DEF FillInv, FriendshipsFilled
<1>2. ASSUME FillFirst PROVE FillInv'
  <2>1. PICK p \in filling.todo : filling' = [filling EXCEPT !.at = {p}, !.row = {p} \ friendships]
    BY Zenon, <1>2 DEF FillFirst
  <2>2. UNCHANGED <<filled, friendships, torn>>
    BY <1>2 DEF FillFirst, FillStep
  <2>3. /\ filling'.todo = filling.todo /\ filling'.all = filling.all
        /\ filling'.at = {p} /\ filling'.row = {p} \ friendships /\ FillRecord(filling')
    BY <1>0, <2>1 DEF FillRecord
  <2> QED
    BY <1>0, <2>2, <2>3 DEF FillInv, FriendshipsFilled
<1>3. ASSUME FillSecond PROVE FillInv'
  <2>1. PICK p \in filling.at :
          /\ filling' = [filling EXCEPT !.todo = filling.todo \ {p}, !.at = {}, !.row = {},
                                        !.all = IF p[2] \in DOMAIN pg THEN filling.all ELSE filling.all \ {p}]
          /\ friendships' = IF p[2] \in DOMAIN pg THEN friendships \cup filling.row \cup Opposite(p) ELSE friendships
          /\ filled' = filled
    BY Zenon, <1>3 DEF FillSecond
  <2>2. torn' = torn
    BY <1>3 DEF FillSecond, FillStep
  <2>3. /\ filling'.todo = filling.todo \ {p} /\ filling'.at = {} /\ filling'.row = {}
        /\ filling'.all = (IF p[2] \in DOMAIN pg THEN filling.all ELSE filling.all \ {p})
        /\ FillRecord(filling')
    BY <1>0, <2>1 DEF FillRecord
  <2>4. p = <<p[1], p[2]>> /\ filling.row \subseteq {p} /\ p \in filling.todo
    BY <1>0
  <2>5. friendships \subseteq friendships'
    BY <2>1
  <2>6. filling'.all \subseteq filling'.todo \cup friendships'
    BY <1>0, <2>1, <2>3
  <2>7. ASSUME NEW q \in friendships' \ torn PROVE <<q[2], q[1]>> \in friendships'
    <3>1. CASE q \in friendships
      BY <1>0, <2>5, <2>7, <3>1
    <3>2. CASE q \notin friendships
      <4>1. p[2] \in DOMAIN pg /\ (q = p \/ q = <<p[2], p[1]>>)
        BY <2>1, <2>4, <3>2 DEF Opposite
      <4>2. CASE q = p
        BY <2>1, <4>1, <4>2 DEF Opposite
      <4>3. CASE q = <<p[2], p[1]>>
        <5>1. p \notin torn
          BY <1>0, <2>7, <4>3
        <5>2. p \in friendships'
          BY <1>0, <2>1, <4>1, <5>1
        <5> QED
          BY <2>4, <4>3, <5>2
      <4> QED
        BY <4>1, <4>2, <4>3
    <3> QED
      BY <3>1, <3>2
  <2>8. \A q \in filling'.todo \cup friendships' \cup torn' : q = <<q[1], q[2]>>
    BY <1>0, <2>1, <2>2, <2>3, <2>4 DEF Opposite
  <2> QED
    BY <1>0, <2>1, <2>2, <2>3, <2>5, <2>6, <2>7, <2>8 DEF FillInv, FriendshipsFilled
<1>4. ASSUME FillDies \/ FillEnds PROVE FillInv'
  <2>1. /\ filling' = NotFilling /\ friendships' = friendships /\ torn' = torn
        /\ filled' = filled \/ (filling.todo = {} /\ filled' = filling.all)
    BY <1>4 DEF FillDies, FillEnds, FillStep
  <2>2. filling'.todo = {} /\ filling'.all = {} /\ filling'.at = {} /\ filling'.row = {} /\ FillRecord(filling')
    BY <2>1 DEF NotFilling, FillRecord
  <2> QED
    BY <1>0, <2>1, <2>2 DEF FillInv, FriendshipsFilled
<1>5. ASSUME LiveBefriend(a, b) PROVE FillInv'
  <2>1. friendships' = friendships \cup {<<a, b>>, <<b, a>>} /\ UNCHANGED <<filling, filled, torn>>
    BY <1>5 DEF LiveBefriend, fillVars, Both
  <2> QED
    BY <1>0, <2>1 DEF FillInv, FriendshipsFilled, FillRecord
<1>6. ASSUME LivePart(a, b) PROVE FillInv'
  <2> DEFINE pair == {<<a, b>>, <<b, a>>}
  <2>1. PICK left \in {{}, {<<a, b>>}, {<<b, a>>}} :
          /\ friendships' = (friendships \ pair) \cup left
          /\ torn' = IF left # {} \/ FillSkipped(a, b) THEN torn \cup pair ELSE torn
    BY Zenon, <1>6 DEF LivePart, Both
  <2>2. filled' = filled \ pair /\ filling' = [filling EXCEPT !.all = filling.all \ pair]
    BY <1>6 DEF LivePart, Both
  <2>3. /\ filling'.todo = filling.todo /\ filling'.all = filling.all \ pair
        /\ filling'.at = filling.at /\ filling'.row = filling.row /\ FillRecord(filling')
    BY <1>0, <2>2 DEF FillRecord
  <2>4. /\ torn \subseteq torn' /\ torn' \subseteq torn \cup pair
        /\ torn' = torn \cup pair \/ (torn' = torn /\ left = {} /\ ~ FillSkipped(a, b))
        /\ left \subseteq pair
    BY <2>1
  <2>5. \A q \in pair : <<q[2], q[1]>> \in pair /\ q = <<q[1], q[2]>>
    OBVIOUS
  <2>6. ASSUME NEW q \in friendships' \ torn' PROVE <<q[2], q[1]>> \in friendships'
    <3>1. q \in friendships /\ q \notin pair /\ q \notin torn
      BY <2>1, <2>4, <2>6
    <3>2. q = <<q[1], q[2]>> /\ <<q[2], q[1]>> \in friendships
      BY <1>0, <3>1
    <3>3. <<q[2], q[1]>> \notin pair
      BY <3>1, <3>2
    <3> QED
      BY <2>1, <3>2, <3>3
  <2>7. \A q \in torn' : <<q[2], q[1]>> \in torn'
    BY <1>0, <2>4, <2>5
  <2>8. ASSUME NEW q \in filling.at
        PROVE  /\ q \in friendships' \cup torn' \cup filling.row
               /\ q \in filling.all \ pair => q \in friendships' \cup filling.row
    <3>1. /\ q \in friendships \cup torn \cup filling.row
          /\ q \in filling.all => q \in friendships \cup filling.row
      BY <1>0
    <3>2. CASE q \notin pair
      BY <2>1, <2>4, <3>1, <3>2
    <3>3. CASE q \in pair
      <4>1. filling.row = {} => FillSkipped(a, b)
        BY <3>3 DEF FillSkipped, Both
      <4>2. filling.row # {} => q \in filling.row
        BY <1>0
      <4> QED
        BY <2>4, <3>3, <4>1, <4>2
    <3> QED
      BY <3>2, <3>3
  <2>9. \A q \in filling.todo \cup friendships' \cup torn' : q = <<q[1], q[2]>>
    BY <1>0, <2>1, <2>4, <2>5
  <2>10. filling.all \ pair \subseteq filling.todo \cup friendships' /\ filled' \subseteq friendships'
    BY <1>0, <2>1, <2>2
  <2> HIDE DEF pair
  <2> QED
    BY <1>0, <2>3, <2>6, <2>7, <2>8, <2>9, <2>10 DEF FillInv, FriendshipsFilled
<1> QED
  BY <1>1, <1>2, <1>3, <1>4, <1>5, <1>6

LEMMA CutoverStarts == CutoverInit => CutoverInv
<1> SUFFICES ASSUME CutoverInit PROVE CutoverInv
  OBVIOUS
<1>1. /\ migrations = <<>> /\ tables = {} /\ runner = [r \in Runners |-> [runs |-> FALSE, applied |-> {}]]
      /\ lite = [a \in {1, 2} |-> DefaultPlayer] /\ copy = <<>> /\ copying = <<>> /\ nextId = 1 /\ moved = FALSE
      /\ pg = [a \in {} |-> DefaultPlayer]
      /\ filling = NotFilling /\ filled = {} /\ friendships = {} /\ torn = {}
  BY DEF CutoverInit
<1>2. MigrationsInv
  BY <1>1 DEF MigrationsInv, Stages, Applied, ToSet
<1>3. MoveInv
  <2>1. DOMAIN lite = {1, 2} /\ DOMAIN pg = {} /\ \A a \in DOMAIN lite : lite[a] = DefaultPlayer
    BY <1>1
  <2>2. Bounded({1, 2}) /\ Bounded({})
    <3>1. \A a \in {1, 2} : a <= 2
      OBVIOUS
    <3> QED
      BY <3>1 DEF Bounded
  <2>3. Storable(DefaultPlayer)
    BY StoredAre
  <2>4. RowsOf(lite)
    BY <1>1, <2>1, <2>2, <2>3, IdsNat DEF RowsOf, Storable
  <2> QED
    BY <1>1, <2>1, <2>2, <2>4 DEF MoveInv, MovedUnchanged, NextIdFree
<1>4. FillInv
  BY <1>1 DEF FillInv, FriendshipsFilled, FillRecord, NotFilling
<1> QED
  BY <1>2, <1>3, <1>4 DEF CutoverInv

\* Every step keeps it.
LEMMA CutoverStep == CutoverInv /\ [CutoverNext]_cutoverVars => CutoverInv'
<1> SUFFICES ASSUME CutoverInv, [CutoverNext]_cutoverVars PROVE CutoverInv'
  OBVIOUS
<1>0. MigrationsInv /\ MoveInv /\ FillInv
  BY DEF CutoverInv
<1>1. ASSUME UNCHANGED schemaVars PROVE MigrationsInv'
  BY <1>0, <1>1 DEF MigrationsInv, schemaVars
<1>2. ASSUME UNCHANGED <<filling, filled, friendships, torn>> PROVE FillInv'
  BY <1>0, <1>2 DEF FillInv, FriendshipsFilled, FillRecord
<1>3. ASSUME NEW a \in Ids, LiteCreate(a) \/ LiteRead(a) \/ LiteRequest(a) PROVE CutoverInv'
  <2>1. UNCHANGED schemaVars /\ UNCHANGED <<filling, filled, friendships, torn>>
    BY <1>3 DEF LiteCreate, LiteRead, LiteRequest, LiteWrite, fillVars, liveVars
  <2> QED
    BY <1>0, <1>1, <1>2, <1>3, <2>1, LiteStep DEF CutoverInv
<1>4. ASSUME NEW a \in Ids, NEW b \in Ids, LiteFriendship(a, b) PROVE CutoverInv'
  <2>1. UNCHANGED schemaVars /\ UNCHANGED <<filling, filled, friendships, torn>>
    BY <1>4 DEF LiteFriendship, LiteWrite, fillVars, liveVars
  <2> QED
    BY <1>0, <1>1, <1>2, <1>4, <2>1, LiteStep DEF CutoverInv
<1>5. ASSUME LiteSave PROVE CutoverInv'
  <2>1. UNCHANGED schemaVars /\ UNCHANGED <<filling, filled, friendships, torn>>
    BY <1>5 DEF LiteSave, LiteWrite, fillVars, liveVars
  <2>2. 1 \in Ids
    BY IdsNat
  <2> QED
    BY <1>0, <1>1, <1>2, <1>5, <2>1, <2>2, LiteStep DEF CutoverInv
<1>6. ASSUME Restart PROVE CutoverInv'
  BY <1>0, <1>1, <1>2, <1>6, MoveSame DEF Restart, copyVars, fillVars, liveVars, CutoverInv
<1>7. ASSUME NEW r \in Runners,
             RunnerBegins(r) \/ ApplyFile(r) \/ ApplyConflicts(r) \/ RunnerDies(r) \/ RunnerEnds(r) PROVE CutoverInv'
  <2>1. UNCHANGED <<liteVars, copyVars, pg, fillVars, liveVars>>
    BY <1>7 DEF RunnerBegins, ApplyFile, ApplyConflicts, RunnerDies, RunnerEnds, RunnerStep
  <2>2. MoveInv'
    BY <1>0, <2>1, MoveSame DEF liteVars, copyVars
  <2>3. FillInv'
    BY <1>2, <2>1 DEF fillVars, liveVars
  <2> QED
    BY <1>0, <1>7, <2>2, <2>3, MigrationsStep DEF CutoverInv
<1>8. ASSUME CopyBegins \/ CopyCommits \/ CopyAborts PROVE CutoverInv'
  <2>1. UNCHANGED <<schemaVars, fillVars, liveVars>> /\ 1 \in Ids
    BY <1>8, IdsNat DEF CopyBegins, CopyCommits, CopyAborts, CopyStep
  <2> QED
    BY <1>0, <1>1, <1>2, <1>8, <2>1, MoveStep DEF CutoverInv, fillVars, liveVars
<1>9. ASSUME LiveCreate \/ \E a \in Ids : LiveSave(a) PROVE CutoverInv'
  <2>1. UNCHANGED <<schemaVars, filling, filled, friendships, torn>> /\ 1 \in Ids
    BY <1>9, IdsNat DEF LiveCreate, LiveSave, LiveStep, fillVars, liveVars
  <2> QED
    BY <1>0, <1>1, <1>2, <1>9, <2>1, MoveStep DEF CutoverInv
<1>10. ASSUME FillBegins \/ FillFirst \/ FillSecond \/ FillDies \/ FillEnds PROVE CutoverInv'
  <2>1. UNCHANGED <<schemaVars, liteVars, copyVars, pg>> /\ 1 \in Ids
    BY Zenon, <1>10, IdsNat DEF FillBegins, FillFirst, FillSecond, FillDies, FillEnds, FillStep
  <2>2. MoveInv'
    BY <1>0, <2>1, MoveSame DEF liteVars, copyVars
  <2> QED
    BY <1>0, <1>1, <1>10, <2>1, <2>2, FillsStep DEF CutoverInv
<1>11. ASSUME NEW a \in Ids, NEW b \in Ids, LiveBefriend(a, b) \/ LivePart(a, b) PROVE CutoverInv'
  <2>1. UNCHANGED <<schemaVars, lite, copy, copying, nextId, moved, pg>>
    BY <1>11 DEF LiveBefriend, LivePart, LiveStep, liteVars
  <2>2. MoveInv'
    BY <1>0, <2>1, MoveSame
  <2> QED
    BY <1>0, <1>1, <1>11, <2>1, <2>2, FillsStep DEF CutoverInv
<1>12. ASSUME UNCHANGED cutoverVars PROVE CutoverInv'
  BY <1>0, <1>1, <1>2, <1>12, MoveSame DEF cutoverVars, CutoverInv, schemaVars
<1> QED
  BY <1>3, <1>4, <1>5, <1>6, <1>7, <1>8, <1>9, <1>10, <1>11, <1>12 DEF CutoverNext

\* The invariant says what the properties say.
LEMMA CutoverKeeps == CutoverInv => MigratedInOrder /\ MovedUnchanged /\ NextIdFree /\ FriendshipsFilled
  BY MigrationsOrdered DEF CutoverInv, MoveInv, FillInv
-----------------------------------------------------------------------------
(* The types of what is moved.                                             *)

\* Rows of accounts that exist, in some states, whose friends have ids.
RowsIn(rows, states) ==
    /\ DOMAIN rows \subseteq Ids /\ rows = [a \in DOMAIN rows |-> rows[a]]
    /\ \A a \in DOMAIN rows : rows[a] \in [state : states, edition : Nat, friends : SUBSET Ids]

LiteStates == {"doc", "empty", "null"}
PgStates == {"doc", "empty"}
LiteRow == [state : LiteStates, edition : Nat, friends : SUBSET Ids]
PgRow == [state : PgStates, edition : Nat, friends : SUBSET Ids]

CutoverTyped ==
    /\ RowsIn(lite, LiteStates) /\ RowsIn(pg, PgStates)
    /\ copy # <<>> => copy[1] \in Ids /\ copy[2] \in LiteRow
    /\ copying # <<>> => RowsIn(copying[1], LiteStates)
    /\ friendships \subseteq Ids \X Ids /\ torn \subseteq Ids \X Ids
    /\ filling.todo \subseteq Ids \X Ids /\ filling.at \subseteq filling.todo /\ filling.row \subseteq filling.at
    /\ FillRecord(filling)
    /\ nextId \in 1 .. Max(Ids) + 1
    /\ writes \in 0 .. MaxWrites /\ changed \in 0 .. MaxLive /\ breaks \in 0 .. MaxBreaks

\* The largest id is one.
LEMMA LastId == Max(Ids) \in Ids /\ Ids \subseteq 1 .. Max(Ids) /\ Max(Ids) \in Nat
<1>1. PICK last \in Ids : \A a \in Ids : a <= last
  BY CutoverAssumption
<1>2. Ids \subseteq Nat \ {0}
  BY CutoverAssumption
<1>3. \A a \in Ids : last >= a
  BY <1>1, <1>2
<1>4. \E x \in Ids : \A y \in Ids : x >= y
  BY <1>3
<1>5. Max(Ids) \in Ids /\ \A y \in Ids : Max(Ids) >= y
  BY <1>4, Zenon DEF Max
<1>6. Max(Ids) \in Nat
  BY <1>2, <1>5
<1>7. ASSUME NEW y \in Ids PROVE y \in 1 .. Max(Ids)
  <2>1. y \in Nat \ {0} /\ Max(Ids) >= y
    BY <1>2, <1>5
  <2> QED
    BY <1>6, <2>1
<1> QED
  BY <1>5, <1>6, <1>7

\* The sequence that a copy sets is within the ids and one.
LEMMA SequenceTyped ==
    ASSUME NEW rows, DOMAIN rows \subseteq Ids
    PROVE  Sequence(rows) \in 1 .. Max(Ids) + 1
<1> DEFINE S == {0} \cup DOMAIN rows
           U == {n \in 0 .. Max(Ids) : \A a \in S : a <= n}
<1>1. S \subseteq 0 .. Max(Ids) /\ Max(Ids) \in Nat /\ 0 \in S
  BY LastId
<1> HIDE DEF S
<1>2. \A a \in S : a <= Max(Ids) /\ Max(Ids) \in 0 .. Max(Ids)
  BY <1>1
<1>3. Max(Ids) \in U /\ U \subseteq Nat
  BY <1>1, <1>2
<1>4. PICK m \in U : \A k \in U : <<k, m>> \notin OpToRel(<, Nat)
  BY <1>3, WFMin, NatLessThanWellFounded, Zenon
<1>5. \A k \in U : ~ (k < m)
  BY <1>3, <1>4 DEF OpToRel
<1>6. m \in S
  <2> SUFFICES ASSUME m \notin S PROVE FALSE
    OBVIOUS
  <2>1. \A a \in S : a <= m /\ a # m /\ a \in Nat
    BY <1>1
  <2>2. m \in Nat /\ 0 < m
    BY <1>1, <1>3, <2>1
  <2>3. m - 1 \in Nat /\ m - 1 < m /\ \A a \in S : a <= m - 1
    BY <2>1, <2>2
  <2>4. m - 1 \in 0 .. Max(Ids)
    BY <1>1, <2>2, <2>3
  <2> QED
    BY <1>5, <2>3, <2>4
<1>7. \A y \in S : m >= y
  BY <1>1, <1>3
<1>8. \E x \in S : \A y \in S : x >= y
  BY <1>6, <1>7
<1>9. Max(S) \in S
  BY <1>8, Zenon DEF Max
<1>10. Max(S) \in 0 .. Max(Ids)
  BY <1>1, <1>9
<1>11. Sequence(rows) = Max(S) + 1
  BY DEF Sequence, S
<1> HIDE DEF U
<1> QED
  BY <1>1, <1>10, <1>11

\* One row more, or another.
LEMMA SetTyped ==
    ASSUME NEW states, NEW rows, RowsIn(rows, states), NEW a \in Ids,
           NEW rec \in [state : states, edition : Nat, friends : SUBSET Ids]
    PROVE  RowsIn(Set(rows, a, rec), states)
<1> DEFINE new == Set(rows, a, rec)
<1>1. DOMAIN new = DOMAIN rows \cup {a} /\ new = [b \in DOMAIN new |-> new[b]]
  BY DEF Set
<1>2. \A b \in DOMAIN new : new[b] = IF b = a THEN rec ELSE rows[b]
  BY DEF Set
<1> HIDE DEF new
<1>3. DOMAIN new \subseteq Ids
  BY <1>1 DEF RowsIn
<1>4. \A b \in DOMAIN new : new[b] \in [state : states, edition : Nat, friends : SUBSET Ids]
  BY <1>1, <1>2 DEF RowsIn
<1>5. RowsIn(new, states)
  BY <1>1, <1>3, <1>4 DEF RowsIn
<1> QED
  BY <1>5 DEF new

\* A row as it is loaded has a document.
LEMMA LoadedTyped ==
    ASSUME NEW rec \in LiteRow
    PROVE  Loaded(rec) \in LiteRow
  BY DEF Loaded, LiteRow, LiteStates, DefaultPlayer, Stored

\* The rows the store makes.
LEMMA MadeTyped == {DefaultPlayer, Filler, NullState} \subseteq LiteRow /\ DefaultPlayer \in PgRow
  BY DEF LiteRow, LiteStates, PgRow, PgStates, DefaultPlayer, Filler, NullState, Stored

\* Befriending.
LEMMA BefriendedTyped ==
    ASSUME NEW rows, RowsIn(rows, LiteStates), NEW a \in Ids, NEW b \in Ids
    PROVE  RowsIn(Befriended(rows, a, b), LiteStates)
<1>1. CASE a \notin DOMAIN rows
  BY <1>1 DEF Befriended
<1>2. CASE a \in DOMAIN rows
  <2> DEFINE l == Loaded(rows[a])
             new == [l EXCEPT !.friends = @ \cup {b}]
  <2>1. l \in LiteRow
    BY <1>2, LoadedTyped DEF RowsIn, LiteRow
  <2> HIDE DEF l
  <2>2. new \in LiteRow
    BY <2>1 DEF LiteRow
  <2>3. Befriended(rows, a, b) = Set(rows, a, new)
    BY <1>2 DEF Befriended, l
  <2> HIDE DEF new
  <2> QED
    BY <2>2, <2>3, SetTyped DEF LiteRow
<1> QED
  BY <1>1, <1>2

\* Parting.
LEMMA PartedTyped ==
    ASSUME NEW rows, RowsIn(rows, LiteStates), NEW a \in Ids, NEW b \in Ids
    PROVE  RowsIn(Parted(rows, a, b), LiteStates)
<1>1. CASE a \notin DOMAIN rows \/ (a \in DOMAIN rows /\ rows[a].state = "empty")
  BY <1>1 DEF Parted
<1>2. CASE ~ (a \notin DOMAIN rows \/ (a \in DOMAIN rows /\ rows[a].state = "empty"))
  <2> DEFINE l == Loaded(rows[a])
             new == [l EXCEPT !.friends = @ \ {b}]
  <2>1. l \in LiteRow
    BY <1>2, LoadedTyped DEF RowsIn, LiteRow
  <2> HIDE DEF l
  <2>2. new \in LiteRow
    BY <2>1 DEF LiteRow
  <2>3. Parted(rows, a, b) = Set(rows, a, new)
    BY <1>2 DEF Parted, l
  <2> HIDE DEF new
  <2> QED
    BY <2>2, <2>3, SetTyped DEF LiteRow
<1> QED
  BY <1>1, <1>2

\* A write of the SQLite store, of well-typed rows.
LEMMA LiteWriteTyped ==
    ASSUME CutoverTyped, NEW new, LiteWrite(new), RowsIn(new, LiteStates),
           copy' # <<>> => copy'[1] \in Ids /\ copy'[2] \in LiteRow
    PROVE  CutoverTyped'
<1>1. writes' = writes + 1 /\ writes < MaxWrites /\ lite' = new
      /\ UNCHANGED <<copying, pg, nextId, filling, friendships, torn, changed, breaks>>
  BY DEF LiteWrite, fillVars, liveVars
<1>2. writes' \in 0 .. MaxWrites
  BY <1>1, CutoverAssumption DEF CutoverTyped
<1> QED
  BY <1>1, <1>2, Zenon DEF CutoverTyped

\* The steps of the SQLite store.
LEMMA LiteTyped ==
    ASSUME CutoverTyped,
           \/ \E a \in Ids : LiteCreate(a) \/ LiteRead(a) \/ LiteRequest(a)
           \/ \E a, b \in Ids : LiteFriendship(a, b)
           \/ LiteSave
    PROVE  CutoverTyped'
<1>0. RowsIn(lite, LiteStates) /\ writes \in Nat /\ (copy # <<>> => copy[1] \in Ids /\ copy[2] \in LiteRow)
  BY CutoverAssumption DEF CutoverTyped
<1>1. ASSUME NEW a \in Ids, LiteCreate(a) PROVE CutoverTyped'
  <2>1. PICK rec \in {DefaultPlayer, Filler, NullState} : LiteWrite(Set(lite, a, rec))
    BY <1>1 DEF LiteCreate
  <2>2. RowsIn(Set(lite, a, rec), LiteStates)
    BY <1>0, MadeTyped, SetTyped DEF LiteRow
  <2> QED
    BY <1>0, <1>1, <2>1, <2>2, LiteWriteTyped DEF LiteCreate
<1>2. ASSUME NEW a \in Ids, LiteRead(a) PROVE CutoverTyped'
  <2>1. /\ a \in DOMAIN lite /\ copy' = <<a, Loaded(lite[a])>>
        /\ UNCHANGED <<lite, copying, pg, nextId, filling, friendships, torn, writes, changed, breaks>>
    BY <1>2 DEF LiteRead, copyVars, fillVars, liveVars
  <2>2. lite[a] \in LiteRow
    BY <1>0, <2>1 DEF RowsIn, LiteRow
  <2>3. copy'[1] \in Ids /\ copy'[2] \in LiteRow
    BY <2>1, <2>2, LoadedTyped
  <2> QED
    BY <2>1, <2>3, Zenon DEF CutoverTyped
<1>3. ASSUME NEW a \in Ids, LiteRequest(a) PROVE CutoverTyped'
  <2> DEFINE l == Loaded(lite[a])
             rec == [l EXCEPT !.edition = writes + 1]
  <2>1. a \in DOMAIN lite /\ LiteWrite(Set(lite, a, rec)) /\ UNCHANGED copy
    BY <1>3 DEF LiteRequest
  <2>2. l \in LiteRow
    BY <1>0, <2>1, LoadedTyped DEF RowsIn, LiteRow
  <2> HIDE DEF l
  <2>3. rec \in LiteRow
    BY <1>0, <2>2 DEF LiteRow
  <2> HIDE DEF rec
  <2>4. RowsIn(Set(lite, a, rec), LiteStates)
    BY <1>0, <2>3, SetTyped DEF LiteRow
  <2> QED
    BY <1>0, <2>1, <2>4, LiteWriteTyped
<1>4. ASSUME NEW a \in Ids, NEW b \in Ids, LiteFriendship(a, b) PROVE CutoverTyped'
  <2>1. PICK new \in {Befriended(Befriended(lite, a, b), b, a), Befriended(lite, a, b),
                      Parted(Parted(lite, a, b), b, a), Parted(lite, a, b)} : LiteWrite(new)
    BY <1>4 DEF LiteFriendship
  <2>2. RowsIn(new, LiteStates)
    BY <1>0, BefriendedTyped, PartedTyped
  <2> QED
    BY <1>0, <1>4, <2>1, <2>2, LiteWriteTyped DEF LiteFriendship
<1>5. ASSUME LiteSave PROVE CutoverTyped'
  <2> DEFINE rec == [copy[2] EXCEPT !.edition = writes + 1]
  <2>1. copy # <<>> /\ copy' = <<>> /\ LiteWrite(Set(lite, copy[1], rec))
    BY <1>5 DEF LiteSave
  <2>2. rec \in LiteRow
    BY <1>0, <2>1 DEF LiteRow
  <2> HIDE DEF rec
  <2>3. RowsIn(Set(lite, copy[1], rec), LiteStates)
    BY <1>0, <2>1, <2>2, SetTyped DEF LiteRow
  <2> QED
    BY <2>1, <2>3, LiteWriteTyped
<1> QED
  BY <1>1, <1>2, <1>3, <1>4, <1>5

\* The steps of migrate.js and the restart.
LEMMA SchemaTyped ==
    ASSUME CutoverTyped,
           \/ Restart
           \/ \E r \in Runners : \/ RunnerBegins(r) \/ ApplyFile(r) \/ ApplyConflicts(r)
                                 \/ RunnerDies(r) \/ RunnerEnds(r)
    PROVE  CutoverTyped'
<1>1. CASE Restart
  <2>1. copy' = <<>> /\ UNCHANGED <<lite, copying, pg, nextId, filling, friendships, torn, writes, changed, breaks>>
    BY <1>1 DEF Restart, copyVars, fillVars, liveVars
  <2> QED
    BY <2>1, Zenon DEF CutoverTyped
<1>2. ASSUME NEW r \in Runners,
             RunnerBegins(r) \/ ApplyFile(r) \/ ApplyConflicts(r) \/ RunnerDies(r) \/ RunnerEnds(r)
      PROVE  CutoverTyped'
  <2>1. UNCHANGED <<lite, copy, copying, pg, nextId, filling, friendships, torn, writes, changed>>
    BY <1>2 DEF RunnerBegins, ApplyFile, ApplyConflicts, RunnerDies, RunnerEnds, RunnerStep,
                liteVars, copyVars, fillVars, liveVars
  <2>2. breaks' = breaks \/ (breaks < MaxBreaks /\ breaks' = breaks + 1)
    BY <1>2 DEF RunnerBegins, ApplyFile, ApplyConflicts, RunnerDies, RunnerEnds
  <2>3. breaks' \in 0 .. MaxBreaks
    BY <2>2, CutoverAssumption DEF CutoverTyped
  <2> QED
    BY <2>1, <2>3, Zenon DEF CutoverTyped
<1> QED
  BY <1>1, <1>2

\* The rows that are copied.
LEMMA UpsertedTyped ==
    ASSUME NEW rows, RowsIn(rows, LiteStates), RowsIn(pg, PgStates)
    PROVE  RowsIn(Upserted(rows), PgStates)
<1> DEFINE new == Upserted(rows)
<1>1. DOMAIN new = DOMAIN pg \cup DOMAIN rows /\ new = [b \in DOMAIN new |-> new[b]]
      /\ \A b \in DOMAIN new : new[b] = IF b \in DOMAIN rows THEN Converted(rows[b]) ELSE pg[b]
  BY DEF Upserted
<1>2. ASSUME NEW rec \in LiteRow PROVE Converted(rec) \in PgRow
  BY DEF Converted, LiteRow, LiteStates, PgRow, PgStates, Filler, Stored
<1> HIDE DEF new
<1>3. DOMAIN new \subseteq Ids
  BY <1>1 DEF RowsIn
<1>4. ASSUME NEW b \in DOMAIN new PROVE new[b] \in PgRow
  BY <1>1, <1>2 DEF RowsIn, LiteRow, PgRow
<1>5. RowsIn(new, PgStates)
  BY <1>1, <1>3, <1>4 DEF RowsIn, PgRow
<1> QED
  BY <1>5 DEF new

\* The steps of migrate-data.js.
LEMMA CopyTyped ==
    ASSUME CutoverTyped, CopyBegins \/ CopyCommits \/ CopyAborts
    PROVE  CutoverTyped'
<1>1. CASE CopyBegins
  <2>1. copying' = <<lite>>
        /\ UNCHANGED <<lite, copy, pg, nextId, filling, friendships, torn, writes, changed, breaks>>
    BY <1>1 DEF CopyBegins, CopyStep, liteVars, fillVars, liveVars
  <2>2. copying'[1] = lite
    BY <2>1
  <2>3. RowsIn(copying'[1], LiteStates)
    BY <2>2 DEF CutoverTyped
  <2>4. RowsIn(copying[1], LiteStates)'
    BY <2>3 DEF RowsIn
  <2> QED
    BY <2>1, <2>4, Zenon DEF CutoverTyped
<1>2. CASE CopyCommits
  <2> DEFINE new == Upserted(copying[1])
  <2>1. copying # <<>> /\ copying' = <<>> /\ pg' = new /\ nextId' = Sequence(new)
        /\ UNCHANGED <<lite, copy, filling, friendships, torn, writes, changed, breaks>>
    BY <1>2 DEF CopyCommits, CopyStep, liteVars, fillVars, liveVars
  <2>2. RowsIn(new, PgStates)
    BY <2>1, UpsertedTyped DEF CutoverTyped
  <2> HIDE DEF new
  <2>3. nextId' \in 1 .. Max(Ids) + 1
    BY <2>1, <2>2, SequenceTyped DEF RowsIn
  <2>4. RowsIn(pg, PgStates)'
    BY <2>1, <2>2 DEF RowsIn
  <2> QED
    BY <2>1, <2>3, <2>4, Zenon DEF CutoverTyped
<1>3. CASE CopyAborts
  <2> DEFINE new == Upserted(copying[1])
  <2>1. copying # <<>> /\ copying' = <<>> /\ nextId' \in {nextId, Sequence(new)}
        /\ breaks < MaxBreaks /\ breaks' = breaks + 1
        /\ UNCHANGED <<lite, copy, pg, filling, friendships, torn, writes, changed>>
    BY <1>3 DEF CopyAborts, CopyStep, liteVars, fillVars, liveVars
  <2>2. RowsIn(new, PgStates)
    BY <2>1, UpsertedTyped DEF CutoverTyped
  <2> HIDE DEF new
  <2>3. nextId' \in 1 .. Max(Ids) + 1
    BY <2>1, <2>2, SequenceTyped DEF RowsIn, CutoverTyped
  <2>4. breaks' \in 0 .. MaxBreaks
    BY <2>1, CutoverAssumption DEF CutoverTyped
  <2> QED
    BY <2>1, <2>3, <2>4, Zenon DEF CutoverTyped
<1> QED
  BY <1>1, <1>2, <1>3

\* The steps of the backfill.
LEMMA FillTyped ==
    ASSUME CutoverTyped, FillBegins \/ FillFirst \/ FillSecond \/ FillDies \/ FillEnds
    PROVE  CutoverTyped'
<1>0. UNCHANGED <<lite, copy, copying, pg, nextId, torn, writes, changed>>
  BY Zenon DEF FillBegins, FillFirst, FillSecond, FillDies, FillEnds, FillStep, liteVars, copyVars
<1>1. CASE FillBegins
  <2>1. /\ filling' = [NotFilling EXCEPT !.runs = TRUE, !.todo = Blobs, !.all = Blobs]
        /\ UNCHANGED <<friendships, breaks>>
    BY <1>1 DEF FillBegins
  <2>2. ASSUME NEW p \in Blobs PROVE p \in Ids \X Ids
    <3>1. PICK a \in DOMAIN pg : p \in {<<a, b>> : b \in pg[a].friends \ {a}}
      BY DEF Blobs
    <3>2. PICK b \in pg[a].friends : p = <<a, b>>
      BY <3>1
    <3>3. a \in Ids /\ pg[a].friends \subseteq Ids
      BY DEF CutoverTyped, RowsIn
    <3> QED
      BY <3>2, <3>3
  <2>3. filling'.todo \subseteq Ids \X Ids /\ filling'.at = {} /\ filling'.row = {} /\ FillRecord(filling')
    BY <2>1, <2>2 DEF NotFilling, FillRecord
  <2>4. filling'.at \subseteq filling'.todo /\ filling'.row \subseteq filling'.at
    BY <2>3
  <2> QED
    BY <1>0, <2>1, <2>3, <2>4, Zenon DEF CutoverTyped
<1>2. CASE FillFirst
  <2>1. PICK p \in filling.todo : filling' = [filling EXCEPT !.at = {p}, !.row = {p} \ friendships]
    BY Zenon, <1>2 DEF FillFirst
  <2>2. UNCHANGED <<friendships, breaks>>
    BY <1>2 DEF FillFirst
  <2>3. /\ filling'.todo = filling.todo /\ filling'.at \subseteq filling'.todo
        /\ filling'.row \subseteq filling'.at /\ FillRecord(filling')
    BY <2>1 DEF CutoverTyped, FillRecord
  <2>4. filling'.todo \subseteq Ids \X Ids
    BY <2>3 DEF CutoverTyped
  <2> QED
    BY <1>0, <2>2, <2>3, <2>4, Zenon DEF CutoverTyped
<1>3. CASE FillSecond
  <2>1. PICK p \in filling.at :
            /\ filling' = [filling EXCEPT !.todo = @ \ {p}, !.at = {}, !.row = {},
                                          !.all = IF p[2] \in DOMAIN pg THEN @ ELSE @ \ {p}]
            /\ friendships' = IF p[2] \in DOMAIN pg THEN friendships \cup filling.row \cup Opposite(p)
                              ELSE friendships
            /\ UNCHANGED breaks
    BY Zenon, <1>3 DEF FillSecond
  <2>2. p[1] \in Ids /\ p[2] \in Ids /\ filling.row \subseteq Ids \X Ids
    BY DEF CutoverTyped
  <2>3. friendships' \subseteq Ids \X Ids
    BY <2>1, <2>2 DEF Opposite, CutoverTyped
  <2>4. filling'.todo = filling.todo \ {p} /\ filling'.at = {} /\ filling'.row = {} /\ FillRecord(filling')
    BY <2>1 DEF CutoverTyped, FillRecord
  <2>5. filling'.todo \subseteq Ids \X Ids /\ filling'.at \subseteq filling'.todo /\ filling'.row \subseteq filling'.at
    BY <2>4 DEF CutoverTyped
  <2> QED
    BY <1>0, <2>1, <2>3, <2>4, <2>5, Zenon DEF CutoverTyped
<1>4. CASE FillDies \/ FillEnds
  <2>1. filling' = NotFilling /\ UNCHANGED friendships
        /\ (breaks' = breaks \/ (breaks < MaxBreaks /\ breaks' = breaks + 1))
    BY <1>4 DEF FillDies, FillEnds
  <2>2. breaks' \in 0 .. MaxBreaks
    BY <2>1, CutoverAssumption DEF CutoverTyped
  <2>3. filling'.todo = {} /\ filling'.at = {} /\ filling'.row = {} /\ FillRecord(filling')
    BY <2>1 DEF NotFilling, FillRecord
  <2>4. /\ filling'.todo \subseteq Ids \X Ids /\ filling'.at \subseteq filling'.todo
        /\ filling'.row \subseteq filling'.at
    BY <2>3
  <2> QED
    BY <1>0, <2>1, <2>2, <2>3, <2>4, Zenon DEF CutoverTyped
<1> QED
  BY <1>1, <1>2, <1>3, <1>4

\* The steps of the server on Postgres.
LEMMA LiveTyped ==
    ASSUME CutoverTyped,
           \/ LiveCreate
           \/ \E a \in Ids : LiveSave(a)
           \/ \E a, b \in Ids : LiveBefriend(a, b) \/ LivePart(a, b)
    PROVE  CutoverTyped'
<1>0. ASSUME LiveStep
      PROVE  /\ UNCHANGED <<lite, copy, copying, writes, breaks>> /\ changed' \in 0 .. MaxLive
             /\ changed \in Nat /\ MaxWrites \in Nat
  <2>1. UNCHANGED <<lite, copy, copying, writes, breaks>> /\ changed < MaxLive /\ changed' = changed + 1
    BY <1>0 DEF LiveStep, liteVars
  <2> QED
    BY <2>1, CutoverAssumption DEF CutoverTyped
<1>1. CASE LiveCreate
  <2>1. /\ LiveStep /\ nextId \in Ids /\ nextId' = nextId + 1 /\ UNCHANGED <<filling, friendships, torn>>
        /\ pg' = IF nextId \in DOMAIN pg THEN pg ELSE Set(pg, nextId, DefaultPlayer)
    BY <1>1 DEF LiveCreate, fillVars
  <2>2. nextId' \in 1 .. Max(Ids) + 1
    BY <2>1, LastId
  <2>3. RowsIn(pg', PgStates)
    BY <2>1, SetTyped, MadeTyped DEF CutoverTyped, PgRow
  <2>4. RowsIn(pg, PgStates)'
    BY <2>3 DEF RowsIn
  <2> QED
    BY <1>0, <2>1, <2>2, <2>4, Zenon DEF CutoverTyped
<1>2. ASSUME NEW a \in Ids, LiveSave(a) PROVE CutoverTyped'
  <2> DEFINE n == MaxWrites + changed + 1
             rec == [pg[a] EXCEPT !.state = "doc", !.edition = n]
  <2>1. /\ LiveStep /\ a \in DOMAIN pg /\ UNCHANGED <<nextId, filling, friendships, torn>>
        /\ pg' = [pg EXCEPT ![a].state = "doc", ![a].edition = n]
    BY <1>2 DEF LiveSave, fillVars
  <2>2. n \in Nat
    BY <1>0, <2>1
  <2> HIDE DEF n
  <2>3. pg[a] \in PgRow
    BY <2>1 DEF CutoverTyped, RowsIn, PgRow
  <2>4. rec \in PgRow
    BY <2>2, <2>3 DEF PgRow, PgStates
  <2>5. DOMAIN pg' = DOMAIN pg /\ pg' = [b \in DOMAIN pg' |-> pg'[b]]
        /\ \A b \in DOMAIN pg : pg'[b] = IF b = a THEN rec ELSE pg[b]
    BY <2>1 DEF CutoverTyped, RowsIn
  <2> HIDE DEF rec
  <2>6. RowsIn(pg, PgStates)'
    BY <2>1, <2>4, <2>5 DEF CutoverTyped, RowsIn, PgRow
  <2> QED
    BY <1>0, <2>1, <2>6, Zenon DEF CutoverTyped
<1>3. ASSUME NEW a \in Ids, NEW b \in Ids, LiveBefriend(a, b) PROVE CutoverTyped'
  <2>1. LiveStep /\ friendships' = friendships \cup {<<a, b>>, <<b, a>>} /\ UNCHANGED <<pg, nextId, filling, torn>>
    BY <1>3 DEF LiveBefriend, fillVars, Both
  <2>2. friendships' \subseteq Ids \X Ids
    BY <2>1 DEF CutoverTyped
  <2> QED
    BY <1>0, <2>1, <2>2, Zenon DEF CutoverTyped
<1>4. ASSUME NEW a \in Ids, NEW b \in Ids, LivePart(a, b) PROVE CutoverTyped'
  <2>1. PICK left \in {{}, {<<a, b>>}, {<<b, a>>}} :
          /\ friendships' = (friendships \ Both(a, b)) \cup left
          /\ torn' = IF left # {} \/ FillSkipped(a, b) THEN torn \cup Both(a, b) ELSE torn
    BY Zenon, <1>4 DEF LivePart
  <2>2. /\ LiveStep /\ UNCHANGED <<pg, nextId>>
        /\ filling' = [filling EXCEPT !.all = @ \ Both(a, b)]
    BY <1>4 DEF LivePart
  <2>3. friendships' \subseteq Ids \X Ids /\ torn' \subseteq Ids \X Ids
    BY <2>1 DEF CutoverTyped, Both
  <2>4. /\ filling'.todo = filling.todo /\ filling'.at = filling.at /\ filling'.row = filling.row
        /\ FillRecord(filling')
    BY <2>2 DEF CutoverTyped, FillRecord
  <2> QED
    BY <1>0, <2>2, <2>3, <2>4, Zenon DEF CutoverTyped
<1> QED
  BY <1>1, <1>2, <1>3, <1>4

\* Every step keeps the types.
LEMMA CutoverTypes == CutoverTyped /\ [CutoverNext]_cutoverVars => CutoverTyped'
<1> SUFFICES ASSUME CutoverTyped, [CutoverNext]_cutoverVars PROVE CutoverTyped'
  OBVIOUS
<1>1. CASE UNCHANGED cutoverVars
  <2>1. UNCHANGED <<lite, copy, copying, pg, nextId, filling, friendships, torn, writes, changed, breaks>>
    BY <1>1 DEF cutoverVars
  <2> QED
    BY <2>1, Zenon DEF CutoverTyped
<1>2. CASE CutoverNext
  BY <1>2, LiteTyped, SchemaTyped, CopyTyped, FillTyped, LiveTyped DEF CutoverNext
<1> QED
  BY <1>1, <1>2

\* The types at the start.
LEMMA CutoverTypedFirst == CutoverInit => CutoverTyped
<1> SUFFICES ASSUME CutoverInit PROVE CutoverTyped
  OBVIOUS
<1>1. /\ lite = [a \in {1, 2} |-> DefaultPlayer] /\ pg = [a \in {} |-> DefaultPlayer] /\ copy = <<>>
      /\ copying = <<>> /\ nextId = 1 /\ filling = NotFilling
      /\ friendships = {} /\ torn = {} /\ writes = 0 /\ changed = 0 /\ breaks = 0
  BY DEF CutoverInit
<1>2. RowsIn(lite, LiteStates)
  BY <1>1, MadeTyped, CutoverAssumption DEF RowsIn, LiteRow
<1>3. RowsIn(pg, PgStates)
  BY <1>1 DEF RowsIn
<1>4. nextId \in 1 .. Max(Ids) + 1 /\ writes \in 0 .. MaxWrites /\ changed \in 0 .. MaxLive /\ breaks \in 0 .. MaxBreaks
  BY <1>1, LastId, CutoverAssumption
<1>5. filling.todo = {} /\ filling.at = {} /\ filling.row = {} /\ FillRecord(filling)
  BY <1>1 DEF NotFilling, FillRecord
<1> QED
  BY <1>1, <1>2, <1>3, <1>4, <1>5 DEF CutoverTyped

\* What they say.
LEMMA CutoverTypesAre == CutoverTyped => CutoverTypeOK
<1> SUFFICES ASSUME CutoverTyped PROVE CutoverTypeOK
  OBVIOUS
<1>1. DOMAIN lite \cup DOMAIN pg \subseteq Ids /\ \A a \in DOMAIN lite : lite[a].friends \subseteq Ids
  BY DEF CutoverTyped, RowsIn
<1>2. \A a \in DOMAIN pg : pg[a].state \in {"empty", "doc"}
  BY DEF CutoverTyped, RowsIn, PgStates
<1>3. friendships \cup torn \subseteq Ids \X Ids
  BY DEF CutoverTyped
<1> QED
  BY <1>1, <1>2, <1>3, Zenon DEF CutoverTyped, CutoverTypeOK
-----------------------------------------------------------------------------
(* The move of the guests (AuthMigration).  A row that is there has the    *)
(* uid of its document, so a uid that was taken stays taken; and what a    *)
(* run that ended says of the documents holds while the next one repeats   *)
(* the statements.                                                         *)

\* The document of a guest, as the run reads it.
Document(g) == [uid |-> guests[g].uid, changes |-> guests[g].changes]

\* Why a document that failed has no row of its own.
Hindered(g) == stops > 0 \/ \E h \in DOMAIN guestRows \ {g} : guestRows[h].uid = guests[g].uid

\* A document of the running run: still to come, in its row, or failed for a reason.
Dealt(g) ==
    \/ g \in carrying.todo
    \/ g \in DOMAIN guestRows /\ guestRows[g] = carrying.docs[g]
    \/ g \in carrying.failed /\ Hindered(g)

MigrationShape ==
    /\ guests \in [OpenIds -> [uid : {NoUid, 1, 2}, changes : Nat]]
    /\ DOMAIN guestRows \subseteq OpenIds
    /\ guestRows = [g \in DOMAIN guestRows |-> guestRows[g]]
    /\ carrying \in [runs : BOOLEAN, docs : {{}} \cup [OpenIds -> [uid : {NoUid, 1, 2}, changes : Nat]],
                     todo : SUBSET OpenIds, failed : SUBSET OpenIds]
    /\ stops \in Nat

RowsOfDocuments == \A g \in DOMAIN guestRows : guestRows[g].uid = guests[g].uid

RunSound ==
    /\ ~ carrying.runs => carrying.todo = {}
    /\ carrying.runs =>
         /\ carrying.docs \in [OpenIds -> [uid : {NoUid, 1, 2}, changes : Nat]]
         /\ \A g \in OpenIds : carrying.docs[g].uid = guests[g].uid
         /\ \A g \in OpenIds : guests[g].uid # NoUid => Dealt(g)
         /\ carried # {"none"} => \A g \in OpenIds : carrying.docs[g] = Document(g)

MigrationInv == MigrationShape /\ RowsOfDocuments /\ RunSound /\ UidsApart /\ GuestsCarried

\* It holds at the start.
LEMMA MigrationStarts == MigrationInit => MigrationInv
<1> SUFFICES ASSUME MigrationInit PROVE MigrationInv
  OBVIOUS
<1>1. /\ guests \in [OpenIds -> [uid : {NoUid, 1, 2}, changes : {0}]]
      /\ guestRows = [g \in {} |-> <<>>] /\ carrying = Resting /\ carried = {"none"} /\ stops = 0
  BY DEF MigrationInit
<1>2. DOMAIN guestRows = {}
  BY <1>1
<1>3. MigrationShape
  <2>1. guests \in [OpenIds -> [uid : {NoUid, 1, 2}, changes : Nat]]
    BY <1>1
  <2> QED
    BY <1>1, <1>2, <2>1 DEF MigrationShape, Resting
<1>4. RowsOfDocuments /\ UidsApart
  BY <1>2 DEF RowsOfDocuments, UidsApart
<1>5. RunSound /\ GuestsCarried
  BY <1>1 DEF RunSound, GuestsCarried, Resting
<1> QED
  BY <1>3, <1>4, <1>5 DEF MigrationInv

\* A document written to its row.
LEMMA CarryUpsertsStep == ASSUME MigrationInv, NEW g \in OpenIds, CarryUpserts(g) PROVE MigrationInv'
<1>1. /\ g \in carrying.todo /\ ~ UidTaken(g) /\ guestRows' = Upsert(g)
      /\ carrying' = [carrying EXCEPT !.todo = @ \ {g}] /\ UNCHANGED <<guests, carried, stops>>
  BY DEF CarryUpserts
<1>2. MigrationShape /\ RowsOfDocuments /\ RunSound /\ UidsApart /\ GuestsCarried
  BY DEF MigrationInv
<1>3. /\ carrying.runs /\ carrying.docs \in [OpenIds -> [uid : {NoUid, 1, 2}, changes : Nat]]
      /\ \A h \in OpenIds : carrying.docs[h].uid = guests[h].uid
      /\ \A h \in OpenIds : guests[h].uid # NoUid => Dealt(h)
      /\ carried # {"none"} => \A h \in OpenIds : carrying.docs[h] = Document(h)
  BY <1>1, <1>2 DEF RunSound, MigrationShape
<1>4. /\ DOMAIN guestRows' = DOMAIN guestRows \cup {g}
      /\ guestRows'[g] = carrying.docs[g]
      /\ \A h \in DOMAIN guestRows : h # g => guestRows'[h] = guestRows[h]
      /\ guestRows' = [h \in DOMAIN guestRows' |-> guestRows'[h]]
  BY <1>1 DEF Upsert
<1>5. /\ carrying'.runs = carrying.runs /\ carrying'.docs = carrying.docs /\ carrying'.failed = carrying.failed
      /\ carrying'.todo = carrying.todo \ {g}
      /\ carrying' \in [runs : BOOLEAN, docs : {{}} \cup [OpenIds -> [uid : {NoUid, 1, 2}, changes : Nat]],
                     todo : SUBSET OpenIds, failed : SUBSET OpenIds]
  BY <1>1, <1>2 DEF MigrationShape
<1>6. MigrationShape'
  BY <1>1, <1>2, <1>4, <1>5 DEF MigrationShape
<1>7. RowsOfDocuments'
  BY <1>1, <1>2, <1>3, <1>4 DEF RowsOfDocuments
<1>8. UidsApart'
  BY <1>1, <1>2, <1>4 DEF UidsApart, UidTaken
<1>9. ASSUME NEW h \in OpenIds, Hindered(h) PROVE Hindered(h)'
  BY <1>1, <1>2, <1>3, <1>4, <1>9 DEF Hindered, RowsOfDocuments
<1>10. RunSound'
  <2>1. ASSUME NEW h \in OpenIds, guests[h].uid # NoUid PROVE Dealt(h)'
    <3>1. CASE h = g
      BY <1>4, <1>5, <3>1 DEF Dealt
    <3>2. CASE h # g
      BY <1>3, <1>4, <1>5, <1>9, <2>1, <3>2 DEF Dealt
    <3> QED
      BY <3>1, <3>2
  <2>2. \A h \in OpenIds : Document(h)' = Document(h)
    BY <1>1 DEF Document
  <2> QED
    BY <1>1, <1>3, <1>5, <2>1, <2>2 DEF RunSound
<1>11. GuestsCarried'
  <2> SUFFICES ASSUME carried # {"none"}, NEW h \in OpenIds, guests[h].uid # NoUid
               PROVE  \/ h \in DOMAIN guestRows' /\ guestRows'[h] = Document(h)
                      \/ h \in carried /\ Hindered(h)'
    BY <1>1 DEF GuestsCarried, Document, Hindered
  <2>1. \/ h \in DOMAIN guestRows /\ guestRows[h] = Document(h)
        \/ h \in carried /\ Hindered(h)
    BY <1>2 DEF GuestsCarried, Document, Hindered
  <2>2. CASE h = g
    BY <1>3, <1>4, <2>2
  <2>3. CASE h # g
    BY <1>4, <1>9, <2>1, <2>3
  <2> QED
    BY <2>2, <2>3
<1> QED
  BY <1>6, <1>7, <1>8, <1>10, <1>11 DEF MigrationInv

\* A document that fails has a uid that is taken, or nothing answers.
LEMMA CarryFailsStep == ASSUME MigrationInv, NEW g \in OpenIds, CarryFails(g) PROVE MigrationInv'
<1>1. /\ g \in carrying.todo
      /\ carrying' = [carrying EXCEPT !.todo = @ \ {g}, !.failed = @ \cup {g}]
      /\ UNCHANGED <<guests, guestRows, carried>>
  BY DEF CarryFails
<1>2. MigrationShape /\ RowsOfDocuments /\ RunSound /\ UidsApart /\ GuestsCarried
  BY DEF MigrationInv
<1>3. stops \in Nat /\ ((UidTaken(g) /\ stops' = stops) \/ stops' = stops + 1)
  BY <1>2 DEF CarryFails, MigrationShape
<1>4. stops' \in Nat /\ (stops > 0 => stops' > 0) /\ (UidTaken(g) \/ stops' > 0)
  BY <1>3
<1>5. /\ carrying'.runs = carrying.runs /\ carrying'.docs = carrying.docs
      /\ carrying'.failed = carrying.failed \cup {g} /\ carrying'.todo = carrying.todo \ {g}
      /\ carrying' \in [runs : BOOLEAN, docs : {{}} \cup [OpenIds -> [uid : {NoUid, 1, 2}, changes : Nat]],
                     todo : SUBSET OpenIds, failed : SUBSET OpenIds]
  BY <1>1, <1>2 DEF MigrationShape
<1>6. MigrationShape'
  BY <1>1, <1>2, <1>4, <1>5 DEF MigrationShape
<1>7. RowsOfDocuments' /\ UidsApart'
  BY <1>1, <1>2 DEF RowsOfDocuments, UidsApart
<1>8. ASSUME NEW h \in OpenIds, Hindered(h) PROVE Hindered(h)'
  BY <1>1, <1>4, <1>8 DEF Hindered
<1>9. /\ carrying.runs
      /\ \A h \in OpenIds : carrying.docs[h].uid = guests[h].uid
      /\ \A h \in OpenIds : guests[h].uid # NoUid => Dealt(h)
  BY <1>1, <1>2 DEF RunSound
<1>10. Hindered(g)'
  BY <1>1, <1>4, <1>9 DEF Hindered, UidTaken
<1>11. \A h \in OpenIds : guests[h].uid # NoUid => Dealt(h)'
  <2> SUFFICES ASSUME NEW h \in OpenIds, guests[h].uid # NoUid PROVE Dealt(h)'
    OBVIOUS
  <2>1. CASE h = g
    BY <1>5, <1>10, <2>1 DEF Dealt
  <2>2. CASE h # g
    BY <1>1, <1>5, <1>8, <1>9, <2>2 DEF Dealt
  <2> QED
    BY <2>1, <2>2
<1>12. RunSound'
  <2>1. \A h \in OpenIds : Document(h)' = Document(h)
    BY <1>1 DEF Document
  <2> QED
    BY <1>1, <1>2, <1>5, <1>9, <1>11, <2>1 DEF RunSound
<1>13. GuestsCarried'
  BY <1>1, <1>2, <1>8 DEF GuestsCarried, Hindered
<1> QED
  BY <1>6, <1>7, <1>12, <1>13 DEF MigrationInv

\* Every step keeps it.
LEMMA MigrationStep == MigrationInv /\ [MigrationNext]_authMigrationVars => MigrationInv'
<1> SUFFICES ASSUME MigrationInv, [MigrationNext]_authMigrationVars PROVE MigrationInv'
  OBVIOUS
<1>0. MigrationShape /\ RowsOfDocuments /\ RunSound /\ UidsApart /\ GuestsCarried
  BY DEF MigrationInv
<1>1. ASSUME NEW g \in OpenIds, GuestChanges(g) PROVE MigrationInv'
  <2>1. /\ guests' = [guests EXCEPT ![g].changes = @ + 1] /\ carried' = {"none"}
        /\ UNCHANGED <<guestRows, carrying, stops>>
    BY <1>1 DEF GuestChanges
  <2>2. guests' \in [OpenIds -> [uid : {NoUid, 1, 2}, changes : Nat]]
    BY <1>0, <2>1 DEF MigrationShape
  <2>3. \A h \in OpenIds : guests'[h].uid = guests[h].uid
    BY <1>0, <2>1 DEF MigrationShape
  <2>4. MigrationShape'
    BY <1>0, <2>1, <2>2 DEF MigrationShape
  <2>5. RowsOfDocuments' /\ UidsApart'
    BY <1>0, <2>1, <2>3 DEF RowsOfDocuments, UidsApart, MigrationShape
  <2>6. \A h \in OpenIds : Dealt(h) => Dealt(h)'
    BY <2>1, <2>3 DEF Dealt, Hindered
  <2>7. RunSound' /\ GuestsCarried'
    BY <1>0, <2>1, <2>3, <2>6 DEF RunSound, GuestsCarried
  <2> QED
    BY <2>4, <2>5, <2>7 DEF MigrationInv
<1>2. ASSUME CarryBegins PROVE MigrationInv'
  <2> DEFINE valid == {g \in OpenIds : guests[g].uid # NoUid}
             docs == [g \in OpenIds |-> [uid |-> guests[g].uid, changes |-> guests[g].changes]]
  <2>1. /\ carrying' = [runs |-> TRUE, todo |-> valid, failed |-> {}, docs |-> docs]
        /\ UNCHANGED <<guests, guestRows, carried, stops>>
    BY <1>2 DEF CarryBegins
  <2>2. docs \in [OpenIds -> [uid : {NoUid, 1, 2}, changes : Nat]]
    BY <1>0 DEF MigrationShape
  <2>3. /\ \A g \in OpenIds : docs[g].uid = guests[g].uid /\ docs[g] = Document(g)
        /\ \A g \in OpenIds : guests[g].uid # NoUid => g \in valid
        /\ valid \in SUBSET OpenIds
    BY DEF Document
  <2>4. /\ carrying'.runs /\ carrying'.todo = valid /\ carrying'.docs = docs
        /\ carrying' \in [runs : BOOLEAN, docs : {{}} \cup [OpenIds -> [uid : {NoUid, 1, 2}, changes : Nat]],
                          todo : SUBSET OpenIds, failed : SUBSET OpenIds]
    <3> HIDE DEF valid, docs
    <3> QED
      BY <2>1, <2>2, <2>3
  <2> HIDE DEF valid, docs
  <2>5. MigrationShape'
    BY <1>0, <2>1, <2>4 DEF MigrationShape
  <2>6. RowsOfDocuments' /\ UidsApart' /\ GuestsCarried'
    BY <1>0, <2>1 DEF RowsOfDocuments, UidsApart, GuestsCarried
  <2>7. RunSound'
    <3>1. \A g \in OpenIds : Document(g)' = Document(g)
      BY <2>1 DEF Document
    <3> QED
      BY <2>1, <2>2, <2>3, <2>4, <3>1 DEF RunSound, Dealt
  <2> QED
    BY <2>5, <2>6, <2>7 DEF MigrationInv
<1>3. ASSUME CarryDies PROVE MigrationInv'
  <2>1. carrying' = Resting /\ stops' = stops + 1 /\ UNCHANGED <<guests, guestRows, carried>>
    BY <1>3 DEF CarryDies
  <2>2. stops \in Nat /\ stops' \in Nat /\ stops' > 0
    BY <1>0, <2>1 DEF MigrationShape
  <2>3. MigrationShape' /\ RunSound'
    BY <1>0, <2>1, <2>2 DEF MigrationShape, Resting, RunSound
  <2>4. RowsOfDocuments' /\ UidsApart'
    BY <1>0, <2>1 DEF RowsOfDocuments, UidsApart
  <2>5. GuestsCarried'
    BY <1>0, <2>1, <2>2 DEF GuestsCarried
  <2> QED
    BY <2>3, <2>4, <2>5 DEF MigrationInv
<1>4. ASSUME CarryEnds PROVE MigrationInv'
  <2>1. /\ carrying.runs /\ carrying.todo = {} /\ carrying' = Resting /\ UNCHANGED <<guests, guestRows, stops>>
        /\ carried' = IF \A g \in OpenIds : carrying.docs[g].changes = guests[g].changes
                      THEN carrying.failed ELSE {"none"}
    BY <1>4 DEF CarryEnds
  <2>2. MigrationShape' /\ RunSound'
    BY <1>0, <2>1 DEF MigrationShape, Resting, RunSound
  <2>3. RowsOfDocuments' /\ UidsApart'
    BY <1>0, <2>1 DEF RowsOfDocuments, UidsApart
  <2>4. GuestsCarried'
    <3> SUFFICES ASSUME carried' # {"none"}, NEW g \in OpenIds, guests[g].uid # NoUid
                 PROVE  \/ g \in DOMAIN guestRows /\ guestRows[g] = Document(g)
                        \/ g \in carrying.failed /\ Hindered(g)
      BY <2>1 DEF GuestsCarried, Document, Hindered
    <3>1. carrying.docs[g].changes = guests[g].changes /\ carrying.docs[g].uid = guests[g].uid /\ Dealt(g)
      BY <1>0, <2>1 DEF RunSound
    <3>2. carrying.docs[g] \in [uid : {NoUid, 1, 2}, changes : Nat]
      BY <1>0, <2>1 DEF RunSound
    <3>3. carrying.docs[g] = Document(g)
      BY <3>1, <3>2 DEF Document
    <3> QED
      BY <2>1, <3>1, <3>3 DEF Dealt
  <2> QED
    BY <2>2, <2>3, <2>4 DEF MigrationInv
<1>5. ASSUME UNCHANGED authMigrationVars PROVE MigrationInv'
  BY <1>0, <1>5 DEF authMigrationVars, MigrationInv, MigrationShape, RowsOfDocuments, RunSound, Dealt, Hindered, Document,
                    UidsApart, GuestsCarried
<1> QED
  BY <1>1, <1>2, <1>3, <1>4, <1>5, CarryUpsertsStep, CarryFailsStep DEF MigrationNext

\* The move of the guests stops no more often than the bound says.
LEMMA StopsTyped ==
    stops \in 0 .. MaxStops /\ [MigrationNext]_authMigrationVars => stops' \in 0 .. MaxStops
<1> SUFFICES ASSUME stops \in 0 .. MaxStops, [MigrationNext]_authMigrationVars PROVE stops' \in 0 .. MaxStops
  OBVIOUS
<1>1. stops' = stops \/ (stops < MaxStops /\ stops' = stops + 1)
  BY Zenon DEF MigrationNext, authMigrationVars, GuestChanges, CarryUpserts, CarryFails, CarryBegins, CarryDies, CarryEnds
<1> QED
  BY <1>1, MigrationAssumption
-----------------------------------------------------------------------------
(* The parts as TLC runs them: a behaviour steps one and leaves the others *)
(* alone.                                                                  *)

PartsInv ==
    /\ focus = "registration" => RegistrationInv
    /\ focus = "shop" => ShopInv
    /\ focus = "ranking" => RankingInv
    /\ focus = "document" => LookInv
    /\ focus = "notices" => NoticeInv
    /\ focus = "start" => StartInv
    /\ focus = "settings" => SettingsInv
    /\ focus = "connection" => ConnInv
    /\ focus = "http" => RouterInv
    /\ focus = "bus" => BusInv /\ BusTyped
    /\ focus = "cutover" => CutoverInv /\ CutoverTyped
    /\ focus = "guests" => MigrationInv /\ stops \in 0 .. MaxStops
    /\ focus = "gate" => GateInv
    /\ focus = "fleet" => FleetInv
    /\ focus = "manager" => ManagerInv

\* A step of the lobby is a step of the part in focus, or leaves that part as it was.
LEMMA LobbyStep ==
    ASSUME [Next]_lobbyVars
    PROVE  /\ focus' = focus
           /\ focus = "registration" => [RegistrationNext]_registerVars
           /\ focus = "shop" => [ShopNext]_shopVars
           /\ focus = "ranking" => [RankingNext]_rankingVars
           /\ focus = "document" => [DocumentNext]_documentVars
           /\ focus = "notices" => [NoticesNext]_noticeVars
           /\ focus = "start" => [StartNext]_startVars
           /\ focus = "settings" => [SettingsNext]_settingsVars
           /\ focus = "connection" => [ConnectionNext]_connectionVars
           /\ focus = "http" => [RouterNext]_routerVars
           /\ focus = "bus" => [BusNext]_busVars
           /\ focus = "cutover" => [CutoverNext]_cutoverVars
           /\ focus = "guests" => [MigrationNext]_authMigrationVars
           /\ focus = "gate" => [GateNext]_gateVars
           /\ focus = "fleet" => [FleetNext]_fleetVars
           /\ focus = "manager" => [ManagerNext]_managerVars
<1>1. CASE UNCHANGED lobbyVars
  BY <1>1 DEF lobbyVars, serviceVars, storesVars, doorVars
<1>2. CASE StepBus \/ StepCutover \/ StepMigration
  BY <1>2 DEF StepBus, StepCutover, StepMigration
<1>3. CASE StepRegistration \/ StepShop \/ StepRanking
  BY <1>3 DEF StepRegistration, StepShop, StepRanking
<1>4. CASE StepDocument \/ StepNotices
  BY <1>4 DEF StepDocument, StepNotices
<1>5. CASE StepStart \/ StepSettings \/ StepConnection \/ StepRouter
  BY <1>5 DEF StepStart, StepSettings, StepConnection, StepRouter
<1>6. CASE StepGate \/ StepFleet \/ StepManager
  BY <1>6 DEF StepGate, StepFleet, StepManager
<1> QED
  BY <1>1, <1>2, <1>3, <1>4, <1>5, <1>6 DEF Next

\* The invariants of the parts, whichever part the behaviour is about.
LEMMA PartsKeep == Spec => []PartsInv
<1>1. Init => PartsInv
  <2> SUFFICES ASSUME Init PROVE PartsInv
    OBVIOUS
  <2>1. RegistrationInv /\ ShopInv /\ RankingInv /\ LookInv
    BY RegistrationStarts, ShopStarts, RankingStarts, LookFirst DEF Init
  <2>2. NoticeInv /\ StartInv /\ SettingsInv /\ ConnInv /\ RouterInv
    BY NoticesStart, StartStarts, SettingsStart, ConnStarts, RouterStarts DEF Init
  <2>3. BusInv /\ BusTyped /\ CutoverInv /\ CutoverTyped /\ MigrationInv
    BY BusStarts, BusTypedFirst, CutoverStarts, CutoverTypedFirst, MigrationStarts DEF Init
  <2>4. stops \in 0 .. MaxStops
    BY MigrationAssumption DEF Init, MigrationInit
  <2>5. GateInv /\ FleetInv /\ ManagerInv
    BY GateStarts, FleetStarts, ManagerStarts DEF Init
  <2> QED
    BY <2>1, <2>2, <2>3, <2>4, <2>5, Zenon DEF PartsInv
<1>2. PartsInv /\ [Next]_lobbyVars => PartsInv'
  <2> SUFFICES ASSUME PartsInv, [Next]_lobbyVars PROVE PartsInv'
    OBVIOUS
  <2>1. focus = "registration" => RegistrationInv'
    BY LobbyStep, RegistrationStep DEF PartsInv
  <2>2. focus = "shop" => ShopInv'
    BY LobbyStep, ShopStep DEF PartsInv
  <2>3. focus = "ranking" => RankingInv'
    BY LobbyStep, RankingStep DEF PartsInv
  <2>4. focus = "document" => LookInv'
    BY LobbyStep, NextLookInv DEF PartsInv
  <2>5. focus = "notices" => NoticeInv'
    BY LobbyStep, NoticesStep DEF PartsInv
  <2>6. focus = "start" => StartInv'
    BY LobbyStep, StartStep DEF PartsInv
  <2>7. focus = "settings" => SettingsInv'
    BY LobbyStep, SettingsStep DEF PartsInv
  <2>8. focus = "connection" => ConnInv'
    BY LobbyStep, ConnStep DEF PartsInv
  <2>9. focus = "http" => RouterInv'
    BY LobbyStep, RouterStep DEF PartsInv
  <2>10. focus = "bus" => BusInv' /\ BusTyped'
    BY LobbyStep, BusStep, BusTypes DEF PartsInv, BusInv, KeysInv
  <2>11. focus = "cutover" => CutoverInv' /\ CutoverTyped'
    BY LobbyStep, CutoverStep, CutoverTypes DEF PartsInv
  <2>12. focus = "guests" => MigrationInv' /\ stops' \in 0 .. MaxStops
    BY LobbyStep, MigrationStep, StopsTyped DEF PartsInv
  <2>13. focus = "gate" => GateInv'
    BY LobbyStep, GateStep DEF PartsInv
  <2>14. focus = "fleet" => FleetInv'
    BY LobbyStep, FleetStep DEF PartsInv
  <2>15. focus = "manager" => ManagerInv'
    BY LobbyStep, ManagerStep DEF PartsInv
  <2>16. focus' = focus
    BY LobbyStep
  <2> QED
    BY <2>1, <2>2, <2>3, <2>4, <2>5, <2>6, <2>7, <2>8, <2>9, <2>10, <2>11, <2>12, <2>13, <2>14, <2>15, <2>16
       DEF PartsInv
<1> QED
  BY <1>1, <1>2, PTL DEF Spec

\* What the parts' state is, whichever the behaviour is about, has its type.
THEOREM LobbyTypes == Spec => []TypeOK
<1>1. RegistrationInv => RegistrationTypeOK
  BY DEF RegistrationInv
<1>2. /\ ShopInv => ShopTypeOK
      /\ RankingInv => RankingTypeOK
      /\ LookInv => DocumentTypeOK
  BY ShopIs, RecordsAre, LookIs
<1>3. /\ NoticeInv => NoticesTypeOK
      /\ StartInv => StartTypeOK
      /\ SettingsInv => SettingsTypeOK
      /\ ConnInv => ConnectionTypeOK
      /\ RouterInv => RouterTypeOK
  BY NoticesAre, StartIs, SettingsAre, ConnIs, RouterIs
<1>4. BusTyped => BusTypeOK
  BY BusTypesAre
<1>5. CutoverTyped => CutoverTypeOK
  BY CutoverTypesAre
<1>6. MigrationInv /\ stops \in 0 .. MaxStops => MigrationTypeOK
  BY DEF MigrationInv, MigrationShape, MigrationTypeOK
<1>7. /\ GateInv => GateTypeOK
      /\ FleetInv => FleetTypeOK
      /\ ManagerInv => ManagerTypeOK
  BY FleetIs, ManagerIs DEF GateInv
<1>8. PartsInv => TypeOK
  BY <1>1, <1>2, <1>3, <1>4, <1>5, <1>6, <1>7 DEF PartsInv, TypeOK
<1> QED
  BY <1>8, PartsKeep, PTL

\* What the members of a room are told follows its record; a match is played by the settings of
\* the START its first player was handed, or by the defaults where they were not written or not
\* read, and its rules are those that were chosen; no byte of a connection is lost
\* and each frame goes to its account's session; a request that is repeated is dropped and a
\* snapshot follows what was saved; the match server that is picked is fresh, and no match has
\* more than its cap.
THEOREM TrafficHeld == Spec => []TrafficHolds
<1>1. /\ NoticeInv => RosterShown
      /\ StartInv => PlayedAsStarted /\ ToldOneMatch /\ TogetherInLast
      /\ SettingsInv => RulesAsChosen /\ CutBlobIgnored /\ WonByHalf
      /\ ConnInv => NoByteLost /\ RoutedForItsAccount /\ ClosedHasNoSession
      /\ RouterInv => SeenInOrder /\ ReplaysDropped /\ SnapshotFollowsSaves
  BY NoticesAre, StartIs, SettingsAre, ConnIs, RouterIs
<1>2. /\ FleetInv => PickedIsFresh /\ SteadyIsOffered
      /\ ManagerInv => RosterWithinCap /\ OneGathering
  BY FleetIs, ManagerIs
<1>3. PartsInv => TrafficHolds
  BY <1>1, <1>2, Zenon DEF PartsInv, TrafficHolds
<1> QED
  BY <1>3, PartsKeep, PTL

\* As long as Redis answers and no holder acquires what it holds, the two buses answer alike
\* where a caller looks at the answer; a group is handed each message once and in order, but for
\* those that MAXLEN took off the stream; migrations run in order, every row moved to Postgres
\* loads as it did, the sequence is past every id, and friendships are mutual and all there, but
\* for pairs that a removal tore, those removed meanwhile and accounts that do not exist; no
\* guests share a uid on Postgres and what a run reports carried is carried.
THEOREM StoresAgree == Spec => []StoresHold
<1>1. PartsInv => StoresHold
  BY BusKeeps, CutoverKeeps DEF PartsInv, StoresHold, MigrationInv
<1> QED
  BY <1>1, PartsKeep, PTL

\* A registration that is answered is kept; in every catalogue a store id names one entry and a
\* chest one wheel, a prize is drawn for its weight of the numbers, unless a pool with a negative
\* weight was sent, and the wallet shows the balance; the records of a player agree and the
\* pages of a board are its sorted rows; and the login gates refuse for cause and let in who is
\* eligible.
THEOREM ServicesHold == Spec => []LobbyHolds
<1>1. RegistrationInv => RegistrationKept
  BY DEF RegistrationInv
<1>2. RankingInv => RecordsAgree /\ BoardsSound
  BY RecordsAre, BoardsAre
<1>3. GateInv => AdmittedIsEligible /\ RefusedForCause
  BY Zenon DEF GateInv, Passed, AdmittedIsEligible, RefusedForCause, Unlooked, Ahead
<1>4. ShopInv => CatalogueSound /\ WalletInSync
  BY ShopIs
<1>5. PartsInv => LobbyHolds
  BY <1>1, <1>2, <1>3, <1>4 DEF PartsInv, LobbyHolds
<1> QED
  BY <1>5, PartsKeep, PTL
=============================================================================
