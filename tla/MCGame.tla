------------------------------- MODULE MCGame -------------------------------
(* Small tables for Game: the phases of configs/server.yml, four or five   *)
(* seats.                                                                  *)
EXTENDS Game

Village4 == <<"WEREWOLF", "BODYGUARD", "SEER", "VILLAGER">>

Pack == <<"WEREWOLF", "WEREWOLF", "BODYGUARD", "SEER", "VILLAGER">>

Always(a)     == [actions |-> <<a>>, only |-> NoDay, except |-> NoDay]
OnDayZero(a)  == [actions |-> <<a>>, only |-> 0, except |-> NoDay]
NotDayZero(a) == [actions |-> <<a>>, only |-> NoDay, except |-> 0]

Day   == <<OnDayZero("whisper"), Always("talk")>>
Night == <<OnDayZero("whisper"), NotDayZero("execution"), Always("divine"),
           NotDayZero("whisper"), NotDayZero("guard"), NotDayZero("attack")>>

ASSUME TableAssumption == VillageTable
=============================================================================
