------------------------------ MODULE Account ------------------------------
(***************************************************************************)
(* What an account promises its player, one request at a time: a login     *)
(* replaces the token, a logout leaves none, a purchase is paid when it    *)
(* can be, a reward is kept, a ban lasts until it is lifted.  Who is       *)
(* banned does not come in by the gate; there is another door.             *)
(***************************************************************************)
EXTENDS Integers

CONSTANTS Tokens, NoToken, StartCoins, Price, Prize

VARIABLES
    token,       \* the one that authenticates, or NoToken
    coins,
    spent,       \* coins paid for items
    banned,
    door         \* the one that was last taken, "none" once logged out

accountVars == <<token, coins, spent, banned, door>>

AccountInit ==
    token = NoToken /\ coins = StartCoins /\ spent = 0 /\ banned = FALSE /\ door = "none"

Renew(by) ==
    /\ token' \in Tokens \ {token} /\ door' = by
    /\ UNCHANGED <<coins, spent, banned>>

Login == ~banned /\ Renew("login")

\* The deprecated endpoint has no gate.
LoginAlias == Renew("alias")

Logout ==
    /\ token # NoToken
    /\ token' = NoToken /\ door' = "none"
    /\ UNCHANGED <<coins, spent, banned>>

\* An item the player cannot pay is given away: that changes nothing here.
Purchase ==
    /\ token # NoToken /\ coins >= Price
    /\ coins' = coins - Price /\ spent' = spent + Price
    /\ UNCHANGED <<token, banned, door>>

Credit == coins' = coins + Prize /\ UNCHANGED <<token, spent, banned, door>>

SetBan == banned' = ~banned /\ UNCHANGED <<token, coins, spent, door>>

AccountNext == Login \/ LoginAlias \/ Logout \/ Purchase \/ Credit \/ SetBan

AccountSpec == AccountInit /\ [][AccountNext]_accountVars
=============================================================================
