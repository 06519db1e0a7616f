------------------------------ MODULE MCLobby ------------------------------
(***************************************************************************)
(* Small instances of what lies around the rooms, the matchmaker and the   *)
(* accounts, for TLC: the services behind the lobby's endpoints, the gates *)
(* before them, a connection and a request on their way in, the notices of *)
(* a room and its START, the fleet of match servers, the bus, and the      *)
(* moves from one store to another.  They share no state, so a behaviour   *)
(* steps one of them, chosen at its start, and leaves the others in one    *)
(* initial state.                                                          *)
(***************************************************************************)
EXTENDS Registration, ShopService, RankingService, PlayerDocument, RoomNotices, RoomStart,
        MatchSettings, Connection, HttpRouter, EventBus, Cutover, AuthMigration,
        LoginGate, MatchFleet

CONSTANTS Services

VARIABLE focus

\* Numbers an admin may send to the shop: as an item, as a store id, and as a pool, with an item
\* twice and a weight missing, or with a negative weight.
SentItems == {-1, 1, 2, 3}
SentIds == {-5, 0, 101}
SentPools == {<<[item |-> 2, weight |-> 0], [item |-> 2, weight |-> 3]>>,
              <<[item |-> -1, weight |-> -3], [item |-> 1, weight |-> 2]>>}

doorVars == <<gateVars, fleetVars, managerVars>>
storesVars == <<busVars, cutoverVars, authMigrationVars, doorVars>>

serviceVars ==
    <<registerVars, shopVars, rankingVars, documentVars, noticeVars, startVars, settingsVars,
      connectionVars, routerVars>>
lobbyVars == <<serviceVars, storesVars, focus>>

\* One state of the gates, for the behaviours that are not about them.
GatesOpen ==
    /\ gates.lists = {} /\ ~ gates.registration /\ ~ gates.bans
    /\ ~ schema /\ game = "none"

\* Both lists of builds are set or neither; the dev guest is exempt where no token is asked; an
\* account has a row at the auth server where there are tables; and a game without the server's
\* URL has the gates on that would ask it.
GatesOfInstance ==
    /\ gates.lists \in {{}, {"version", "signature"}}
    /\ ~ (gates.exempt /\ gates.loginToken)
    /\ schema => auth = "open"
    /\ ~ gates.url => gates.registration /\ gates.bans /\ gates.lists = {} /\ ~ schema

\* Every ticket names match 1: nothing that is checked looks at it.
Init ==
    /\ focus \in Services
    /\ RegistrationInit /\ ShopInit /\ DocumentInit /\ StartInit /\ CutoverInit
    /\ BusInit /\ (focus # "bus" => ~ subscribed /\ ~ group)
    /\ MigrationInit /\ (focus # "guests" => \A g \in OpenIds : guests[g].uid = NoUid)
    /\ RankingInit
    /\ focus # "ranking" => \A p \in Players : profile[p].region = CHOOSE r \in Regions : TRUE
    /\ NoticesInit /\ (focus # "notices" => \A a \in Guests : at[a] = CHOOSE g \in Gateways : TRUE)
    /\ RouterInit /\ (focus # "http" => ~ enabled)
    /\ ConnectionInit /\ (focus # "connection" => script = <<CHOOSE f \in Frames : TRUE>>)
    /\ GateInit /\ GatesOfInstance /\ (focus # "gate" => GatesOpen)
    /\ FleetInit /\ ManagerInit /\ (\A p \in Fighters : ticket[p] = 1)
    /\ SettingsInit /\ (focus # "settings" => chosen.advanced /\ Size(chosen) = 3)

StepRegistration ==
    /\ focus = "registration" /\ RegistrationNext
    /\ UNCHANGED <<shopVars, rankingVars, documentVars, noticeVars, startVars, settingsVars,
                   connectionVars, routerVars, storesVars, focus>>

StepShop ==
    /\ focus = "shop" /\ ShopNext
    /\ UNCHANGED <<registerVars, rankingVars, documentVars, noticeVars, startVars,
                   settingsVars, connectionVars, routerVars, storesVars, focus>>

StepRanking ==
    /\ focus = "ranking" /\ RankingNext
    /\ UNCHANGED <<registerVars, shopVars, documentVars, noticeVars, startVars, settingsVars,
                   connectionVars, routerVars, storesVars, focus>>

StepDocument ==
    /\ focus = "document" /\ DocumentNext
    /\ UNCHANGED <<registerVars, shopVars, rankingVars, noticeVars, startVars, settingsVars,
                   connectionVars, routerVars, storesVars, focus>>

StepNotices ==
    /\ focus = "notices" /\ NoticesNext
    /\ UNCHANGED <<registerVars, shopVars, rankingVars, documentVars, startVars, settingsVars,
                   connectionVars, routerVars, storesVars, focus>>

StepStart ==
    /\ focus = "start" /\ StartNext
    /\ UNCHANGED <<registerVars, shopVars, rankingVars, documentVars, noticeVars, settingsVars,
                   connectionVars, routerVars, storesVars, focus>>

StepSettings ==
    /\ focus = "settings" /\ SettingsNext
    /\ UNCHANGED <<registerVars, shopVars, rankingVars, documentVars, noticeVars, startVars,
                   connectionVars, routerVars, storesVars, focus>>

StepConnection ==
    /\ focus = "connection" /\ ConnectionNext
    /\ UNCHANGED <<registerVars, shopVars, rankingVars, documentVars, noticeVars, startVars,
                   settingsVars, routerVars, storesVars, focus>>

StepRouter ==
    /\ focus = "http" /\ RouterNext
    /\ UNCHANGED <<registerVars, shopVars, rankingVars, documentVars, noticeVars, startVars,
                   settingsVars, connectionVars, storesVars, focus>>

StepBus ==
    /\ focus = "bus" /\ BusNext
    /\ UNCHANGED <<serviceVars, cutoverVars, authMigrationVars, doorVars, focus>>

StepCutover ==
    /\ focus = "cutover" /\ CutoverNext
    /\ UNCHANGED <<serviceVars, busVars, authMigrationVars, doorVars, focus>>

StepMigration ==
    /\ focus = "guests" /\ MigrationNext
    /\ UNCHANGED <<serviceVars, busVars, cutoverVars, doorVars, focus>>

StepGate ==
    /\ focus = "gate" /\ GateNext
    /\ UNCHANGED <<serviceVars, busVars, cutoverVars, authMigrationVars, fleetVars, managerVars,
                   focus>>

StepFleet ==
    /\ focus = "fleet" /\ FleetNext
    /\ UNCHANGED <<serviceVars, busVars, cutoverVars, authMigrationVars, gateVars, managerVars,
                   focus>>

StepManager ==
    /\ focus = "manager" /\ ManagerNext
    /\ UNCHANGED <<serviceVars, busVars, cutoverVars, authMigrationVars, gateVars, fleetVars,
                   focus>>

Next ==
    \/ StepRegistration \/ StepShop \/ StepRanking \/ StepDocument
    \/ StepNotices \/ StepStart \/ StepSettings \/ StepConnection \/ StepRouter
    \/ StepBus \/ StepCutover \/ StepMigration
    \/ StepGate \/ StepFleet \/ StepManager

Spec == Init /\ [][Next]_lobbyVars

\* The properties below are evaluated in the behaviours that step the part they are about
\* (elsewhere it stays in its initial state).

\* The type invariants of the parts.
TypeOK ==
    /\ focus = "registration" => RegistrationTypeOK
    /\ focus = "shop" => ShopTypeOK
    /\ focus = "ranking" => RankingTypeOK
    /\ focus = "document" => DocumentTypeOK
    /\ focus = "notices" => NoticesTypeOK
    /\ focus = "start" => StartTypeOK
    /\ focus = "settings" => SettingsTypeOK
    /\ focus = "connection" => ConnectionTypeOK
    /\ focus = "http" => RouterTypeOK
    /\ focus = "bus" => BusTypeOK
    /\ focus = "cutover" => CutoverTypeOK
    /\ focus = "guests" => MigrationTypeOK
    /\ focus = "gate" => GateTypeOK
    /\ focus = "fleet" => FleetTypeOK
    /\ focus = "manager" => ManagerTypeOK

\* What accounts, shop and boards keep: RegistrationKept; CatalogueSound and WalletInSync;
\* RecordsAgree and BoardsSound; AdmittedIsEligible and RefusedForCause.
LobbyHolds ==
    /\ focus = "registration" => RegistrationKept
    /\ focus = "shop" => CatalogueSound /\ WalletInSync
    /\ focus = "ranking" => RecordsAgree /\ BoardsSound
    /\ focus = "gate" => AdmittedIsEligible /\ RefusedForCause

\* What passes between the clients, the gateway and the match server: RosterShown; PlayedAsStarted,
\* ToldOneMatch and TogetherInLast; RulesAsChosen, CutBlobIgnored and WonByHalf; NoByteLost,
\* RoutedForItsAccount and ClosedHasNoSession; SeenInOrder, ReplaysDropped and SnapshotFollowsSaves;
\* PickedIsFresh and SteadyIsOffered; RosterWithinCap and OneGathering.
TrafficHolds ==
    /\ focus = "notices" => RosterShown
    /\ focus = "start" => PlayedAsStarted /\ ToldOneMatch /\ TogetherInLast
    /\ focus = "settings" => RulesAsChosen /\ CutBlobIgnored /\ WonByHalf
    /\ focus = "connection" => NoByteLost /\ RoutedForItsAccount /\ ClosedHasNoSession
    /\ focus = "http" => SeenInOrder /\ ReplaysDropped /\ SnapshotFollowsSaves
    /\ focus = "fleet" => PickedIsFresh /\ SteadyIsOffered
    /\ focus = "manager" => RosterWithinCap /\ OneGathering

\* What one store has of another: AnswersAlike and EachMessageOnce; MigratedInOrder,
\* MovedUnchanged, NextIdFree and FriendshipsFilled; UidsApart and GuestsCarried.
StoresHold ==
    /\ focus = "bus" => AnswersAlike /\ EachMessageOnce
    /\ focus = "cutover" => MigratedInOrder /\ MovedUnchanged /\ NextIdFree /\ FriendshipsFilled
    /\ focus = "guests" => UidsApart /\ GuestsCarried
=============================================================================
